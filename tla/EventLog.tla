------------------------------- MODULE EventLog -------------------------------
(***************************************************************************)
(* event_log.py: the buffered JSONL journal.  A run numbers its events and *)
(* buffers them under a lock that all its bound loggers share; a flush     *)
(* appends the whole buffer through a sink several runs may share.  The    *)
(* append may fail or the process may die with any part of a batch         *)
(* written, the last record incomplete.                                    *)
(***************************************************************************)
EXTENDS Naturals, Sequences, SequencesExt

CONSTANTS
  Runs,          (* The runs that write to one journal.                     *)
  BufferLimit,   (* buffer_bytes, in events: a fuller buffer is flushed;
                    at least one.                                           *)
  MaxEvents,     (* Bound on the events of a run.                           *)
  MaxInterrupts  (* Bound on the KeyboardInterrupts inside a run's emit().  *)

ASSUME LogAssumption ==
  BufferLimit \in Nat \ {0} /\ MaxEvents \in Nat /\ MaxInterrupts \in Nat

VARIABLES
  file,       (* The complete records of the journal, in order.            *)
  torn,       (* Whether an incomplete record follows them.                *)
  run,        (* _Run: its state, sequence, pending records and failure.   *)
  acked,      (* History: the last event a flush of the run has confirmed. *)
  interrupts  (* How many interrupts have arrived in each run.             *)

logVars == <<file, torn, run, acked, interrupts>>

Records == [run: Runs, sequence: 1..MaxEvents]

(* "writing" holds the run's lock, between the decision to flush and the   *)
(* end of the append.                                                      *)
RunStates == [state: {"new", "open", "writing", "dead"}, sequence: 0..MaxEvents,
              pending: Seq(Records), failure: BOOLEAN]

LogTypeOK ==
  /\ file \in Seq(Records)
  /\ torn \in BOOLEAN
  /\ run \in [Runs -> RunStates]
  /\ acked \in [Runs -> 0..MaxEvents]
  /\ interrupts \in [Runs -> 0..MaxInterrupts]

LogInit ==
  /\ file = <<>> /\ torn = FALSE
  /\ run = [r \in Runs |-> [state |-> "new", sequence |-> 0, pending |-> <<>>, failure |-> FALSE]]
  /\ acked = [r \in Runs |-> 0]
  /\ interrupts = [r \in Runs |-> 0]

-----------------------------------------------------------------------------
Open(r) ==
  /\ run[r].state = "new"
  /\ run' = [run EXCEPT ![r].state = "open"]
  /\ UNCHANGED <<file, torn, acked, interrupts>>

(* emit: the event is queued and numbered; it is flushed at the caller's   *)
(* wish or when the buffer is full.  A poisoned run raises instead.        *)
Queued(r) == Append(run[r].pending, [run |-> r, sequence |-> run[r].sequence + 1])

Emit(r, flush) ==
  /\ run[r].state = "open" /\ ~run[r].failure /\ run[r].sequence < MaxEvents
  /\ run' = [run EXCEPT ![r].pending = Queued(r),
                        ![r].sequence = @ + 1,
                        ![r].state = IF flush \/ Len(Queued(r)) >= BufferLimit
                                       THEN "writing" ELSE "open"]
  /\ UNCHANGED <<file, torn, acked, interrupts>>

(* Mutant of Flush: the buffer counts as written before it is. *)
FlushTrusting(r) ==
  /\ run[r].state = "open" /\ ~run[r].failure /\ run[r].pending # <<>>
  /\ run' = [run EXCEPT ![r].state = "writing"]
  /\ acked' = [acked EXCEPT ![r] = run[r].sequence]
  /\ UNCHANGED <<file, torn, interrupts>>

Flush(r) ==
  /\ run[r].state = "open" /\ ~run[r].failure /\ run[r].pending # <<>>
  /\ run' = [run EXCEPT ![r].state = "writing"]
  /\ UNCHANGED <<file, torn, acked, interrupts>>

-----------------------------------------------------------------------------
(* JsonlSink.append, under the sink's lock. *)

Writing(r) == run[r].state = "writing"

(* What an append that stops early may leave: the first n records of the   *)
(* batch, and part of the next one.                                        *)
Partial(r) == { c \in [n: 0..Len(run[r].pending), part: BOOLEAN] :
                   c.part => c.n < Len(run[r].pending) }

Cut(r, c) ==
  /\ file' = file \o SubSeq(run[r].pending, 1, c.n)
  /\ torn' = c.part

Append_(r) ==
  /\ Writing(r) /\ ~torn
  /\ file' = file \o run[r].pending
  /\ run' = [run EXCEPT ![r].pending = <<>>, ![r].state = "open"]
  /\ acked' = [acked EXCEPT ![r] = run[r].sequence]
  /\ UNCHANGED <<torn, interrupts>>

(* A sink may already have appended a prefix: the run is poisoned, so that *)
(* this batch is never retried.                                            *)
Poisoned(r) == [run EXCEPT ![r].failure = TRUE, ![r].state = "open"]

AppendFails(r) ==
  /\ Writing(r) /\ ~torn
  /\ \E c \in Partial(r) : Cut(r, c)
  /\ run' = Poisoned(r)
  /\ UNCHANGED <<acked, interrupts>>

(* Mutant of Refuse: the incomplete tail is cut off before the append. *)
Repair(r) ==
  /\ Writing(r) /\ torn
  /\ torn' = FALSE
  /\ UNCHANGED <<file, run, acked, interrupts>>

(* An incomplete tail is reported and preserved. *)
Refuse(r) ==
  /\ Writing(r) /\ torn
  /\ run' = Poisoned(r)
  /\ UNCHANGED <<file, torn, acked, interrupts>>

(* The process dies, perhaps in the middle of an append. *)
Crash ==
  /\ \E r \in Runs : run[r].state \in {"open", "writing"}
  /\ \/ UNCHANGED <<file, torn>>
     \/ \E r \in Runs : Writing(r) /\ ~torn /\ \E c \in Partial(r) : Cut(r, c)
  /\ run' = [r \in Runs |-> IF run[r].state = "new" THEN run[r]
                              ELSE [run[r] EXCEPT !.state = "dead", !.pending = <<>>]]
  /\ UNCHANGED <<acked, interrupts>>

(* KeyboardInterrupt is no Exception: it leaves emit() where it arrives,   *)
(* after the event is queued and before it is numbered, or inside append(). *)
Interrupt(r) ==
  /\ interrupts[r] < MaxInterrupts /\ interrupts' = [interrupts EXCEPT ![r] = @ + 1]
  /\ \/ /\ run[r].state = "open" /\ ~run[r].failure /\ run[r].sequence < MaxEvents
        /\ Len(run[r].pending) < BufferLimit
        /\ run' = [run EXCEPT ![r].pending = Queued(r)]
        /\ UNCHANGED <<file, torn>>
     \/ /\ Writing(r)
        /\ IF torn THEN UNCHANGED <<file, torn>> ELSE \E c \in Partial(r) : Cut(r, c)
        /\ run' = [run EXCEPT ![r].state = "open"]
  /\ UNCHANGED acked

LogNext ==
  \/ \E r \in Runs : \/ Open(r) \/ Flush(r) \/ Append_(r) \/ AppendFails(r) \/ Refuse(r)
                     \/ Interrupt(r)
                     \/ \E flush \in BOOLEAN : Emit(r, flush)
  \/ Crash

LogSpec == LogInit /\ [][LogNext]_logVars

-----------------------------------------------------------------------------
Record(r, n) == [run |-> r, sequence |-> n]

(* The journal holds, of every run, its first events, each once and in     *)
(* order, whatever failed and whoever else was writing: no batch is        *)
(* duplicated, reordered or skipped.  An interrupted run is exempt: flush  *)
(* poisons a run for Exception only.                                       *)
RunsAreOrdered ==
  \A j \in DOMAIN file : interrupts[file[j].run] = 0 =>
    /\ \A i \in 1..(j - 1) : file[i].run = file[j].run => file[i].sequence < file[j].sequence
    /\ \A n \in 1..(file[j].sequence - 1) : Record(file[j].run, n) \in ToSet(file)

(* What a flush has confirmed is in the journal for good. *)
ConfirmedIsWritten == \A r \in Runs : \A n \in 1..acked[r] : Record(r, n) \in ToSet(file)

(* What is in the journal is so of each run's history, and a confirmation  *)
(* is never taken back.                                                    *)
JournalIsTrue == RunsAreOrdered /\ ConfirmedIsWritten

(* History is append-only: no step removes a record, nothing at all is     *)
(* written behind an incomplete one, and a run whose sink failed never     *)
(* writes again, its buffer included.                                      *)
AppendOnly ==
  [][ /\ IsPrefix(file, file')
      /\ torn => UNCHANGED <<file, torn>>
      /\ \A i \in DOMAIN file' \ DOMAIN file : ~run[file'[i].run].failure ]_logVars

-----------------------------------------------------------------------------
(* Why the journal is true: what a run still holds continues what it has   *)
(* written, and a run whose append failed holds it for good.               *)

Waiting(r) == Len(run[r].pending)
Gone(r) == run[r].sequence - Waiting(r)   (* The events of r that have left its buffer. *)

PendingIsOwn == \A r \in Runs : \A i \in 1..Waiting(r) : run[r].pending[i].run = r

PoisonedStops == \A r \in Runs : run[r].failure => ~Writing(r)

(* Every numbered event of a living run is written or still held. *)
NothingDropped ==
  \A r \in Runs : run[r].state # "dead" =>
    \A n \in 1..run[r].sequence : Record(r, n) \in ToSet(file) \cup ToSet(run[r].pending)

(* A run no interrupt or failure has struck holds the events after those   *)
(* it has written.                                                         *)
PendingContinues ==
  \A r \in Runs : interrupts[r] = 0 /\ ~run[r].failure /\ run[r].state # "dead" =>
    /\ \A i \in 1..Waiting(r) : run[r].pending[i].sequence = Gone(r) + i
    /\ \A j \in DOMAIN file : file[j].run = r => file[j].sequence <= Gone(r)

JournalStays == PendingIsOwn /\ PoisonedStops /\ NothingDropped /\ PendingContinues

=============================================================================
