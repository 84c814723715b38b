--------------------------- MODULE EvidenceProofs ---------------------------
(* The evidence a conversion leaves: its event journal, and the failures    *)
(* its attempts commit.                                                     *)
EXTENDS EventLog, Recovery, SequenceTheorems, TLAPS

(***************************************************************************)
(* The event journal is true of every run that writes to it, for any       *)
(* number of runs, any buffer and any number of events, failures and       *)
(* interrupts.                                                             *)
(***************************************************************************)

(* The fields of a run, in the form the steps want. *)
LEMMA RunShape ==
  ASSUME LogTypeOK, NEW r \in Runs
  PROVE  /\ run[r].state \in {"new", "open", "writing", "dead"}
         /\ run[r].sequence \in 0..MaxEvents /\ run[r].failure \in BOOLEAN
         /\ run[r].pending \in Seq(Records) /\ Waiting(r) \in Nat
         /\ \A i \in 1..Waiting(r) : run[r].pending[i] \in Records
         /\ acked[r] \in 0..MaxEvents /\ interrupts[r] \in 0..MaxInterrupts
BY DEF LogTypeOK, RunStates, Waiting

LEMMA FileShape ==
  ASSUME LogTypeOK
  PROVE  /\ file \in Seq(Records) /\ Len(file) \in Nat /\ DOMAIN file = 1..Len(file)
         /\ torn \in BOOLEAN
         /\ \A j \in 1..Len(file) : file[j] \in Records /\ file[j].run \in Runs
                                    /\ file[j].sequence \in 1..MaxEvents
PROOF
  <1>1. file \in Seq(Records) /\ torn \in BOOLEAN
    BY DEF LogTypeOK
  <1>2. Len(file) \in Nat /\ DOMAIN file = 1..Len(file) /\ \A j \in 1..Len(file) : file[j] \in Records
    BY <1>1
  <1>3. \A e \in Records : e.run \in Runs /\ e.sequence \in 1..MaxEvents
    BY DEF Records
  <1>4. QED BY <1>1, <1>2, <1>3

LEMMA Elements ==
  ASSUME NEW S, NEW s \in Seq(S), NEW e
  PROVE  e \in ToSet(s) <=> \E i \in 1..Len(s) : s[i] = e
BY DEF ToSet

(* An append writes a prefix of a run's buffer behind the file. *)
Cuts(r, n) == file' = file \o SubSeq(run[r].pending, 1, n)

LEMMA CutShape ==
  ASSUME LogTypeOK, NEW r \in Runs, NEW n \in 0..Waiting(r), Cuts(r, n)
  PROVE  /\ file' \in Seq(Records) /\ Len(file') = Len(file) + n
         /\ \A j \in 1..Len(file) : file'[j] = file[j]
         /\ \A i \in 1..n : file'[Len(file) + i] = run[r].pending[i]
         /\ \A j \in 1..Len(file') : j > Len(file) => file'[j] = run[r].pending[j - Len(file)]
PROOF
  <1> DEFINE batch == SubSeq(run[r].pending, 1, n)
  <1>1. /\ run[r].pending \in Seq(Records) /\ Len(run[r].pending) \in Nat
        /\ n \in 0..Len(run[r].pending)
    BY RunShape DEF Waiting
  <1>2. batch \in Seq(Records) /\ Len(batch) = n /\ \A i \in 1..n : batch[i] = run[r].pending[i]
    BY <1>1
  <1>3. file \in Seq(Records)
    BY FileShape
  <1>4. file' = file \o batch
    BY DEF Cuts
  <1> HIDE DEF batch
  <1>5. Len(file') = Len(file) + n /\ file' \in Seq(Records)
    BY <1>2, <1>3, <1>4, ConcatProperties
  <1>6. \A j \in 1..Len(file') : file'[j] = IF j <= Len(file) THEN file[j] ELSE batch[j - Len(file)]
    BY <1>2, <1>3, <1>4, <1>5, ConcatProperties
  <1>7. /\ \A j \in 1..Len(file) : j \in 1..Len(file') /\ j <= Len(file)
        /\ \A j \in 1..Len(file') : j > Len(file) => j - Len(file) \in 1..n /\ ~(j <= Len(file))
        /\ \A i \in 1..n : /\ Len(file) + i \in 1..Len(file') /\ ~(Len(file) + i <= Len(file))
                          /\ Len(file) + i - Len(file) = i
    BY <1>1, <1>3, <1>5
  <1>8. \A j \in 1..Len(file) : file'[j] = file[j]
    BY <1>6, <1>7
  <1>9. \A i \in 1..n : file'[Len(file) + i] = run[r].pending[i]
    BY <1>2, <1>6, <1>7
  <1>10. \A j \in 1..Len(file') : j > Len(file) => file'[j] = run[r].pending[j - Len(file)]
    BY <1>2, <1>6, <1>7
  <1>11. QED BY <1>5, <1>8, <1>9, <1>10

(* Nothing a reader has seen is changed. *)
LEMMA CutKeeps ==
  ASSUME LogTypeOK, NEW r \in Runs, NEW n \in 0..Waiting(r), Cuts(r, n)
  PROVE  /\ \A e \in ToSet(file) : e \in ToSet(file')
         /\ \A i \in 1..n : run[r].pending[i] \in ToSet(file')
PROOF
  <1>1. /\ file \in Seq(Records) /\ file' \in Seq(Records) /\ Len(file') = Len(file) + n
        /\ \A j \in 1..Len(file) : file'[j] = file[j]
        /\ \A i \in 1..n : file'[Len(file) + i] = run[r].pending[i]
    BY CutShape, FileShape
  <1>2. Len(file) \in Nat /\ n \in Nat
    BY RunShape, FileShape
  <1>3. ASSUME NEW e \in ToSet(file)
        PROVE  e \in ToSet(file')
    <2>1. PICK i \in 1..Len(file) : file[i] = e
      BY <1>1, Elements
    <2>2. i \in 1..Len(file') /\ file'[i] = e
      BY <1>1, <1>2, <2>1
    <2>3. QED BY <1>1, <2>2, Elements
  <1>4. ASSUME NEW i \in 1..n
        PROVE  run[r].pending[i] \in ToSet(file')
    <2>1. Len(file) + i \in 1..Len(file')
      BY <1>1, <1>2
    <2>2. QED BY <1>1, <2>1, Elements
  <1>5. QED BY <1>3, <1>4

(* What Partial allows is a prefix of the buffer. *)
LEMMA PartialCuts ==
  ASSUME LogTypeOK, NEW r \in Runs, NEW c \in Partial(r), Cut(r, c)
  PROVE  c.n \in 0..Waiting(r) /\ Cuts(r, c.n) /\ torn' \in BOOLEAN
BY DEF Partial, Cut, Cuts, Waiting

LEMMA WholeBatchCuts ==
  ASSUME LogTypeOK, NEW r \in Runs, file' = file \o run[r].pending
  PROVE  Waiting(r) \in 0..Waiting(r) /\ Cuts(r, Waiting(r))
PROOF
  <1>1. run[r].pending \in Seq(Records) /\ Waiting(r) \in Nat /\ Waiting(r) = Len(run[r].pending)
    BY RunShape DEF Waiting
  <1>2. SubSeq(run[r].pending, 1, Len(run[r].pending)) = run[r].pending
    BY <1>1
  <1>3. QED BY <1>1, <1>2 DEF Cuts

(* The buffer after emit() has queued an event. *)
LEMMA QueuedShape ==
  ASSUME LogTypeOK, NEW r \in Runs, run[r].sequence < MaxEvents
  PROVE  /\ Queued(r) \in Seq(Records) /\ Len(Queued(r)) = Waiting(r) + 1
         /\ \A i \in 1..Waiting(r) : Queued(r)[i] = run[r].pending[i]
         /\ Queued(r)[Waiting(r) + 1] = Record(r, run[r].sequence + 1)
         /\ Record(r, run[r].sequence + 1) \in Records
PROOF
  <1>1. run[r].pending \in Seq(Records) /\ Waiting(r) = Len(run[r].pending)
    BY RunShape DEF Waiting
  <1>2. Record(r, run[r].sequence + 1) \in Records
    BY RunShape, LogAssumption DEF Record, Records
  <1>3. Queued(r) = Append(run[r].pending, Record(r, run[r].sequence + 1))
    BY DEF Queued, Record
  <1>4. QED BY <1>1, <1>2, <1>3

-----------------------------------------------------------------------------
LEMMA LogInitType == LogInit => LogTypeOK
PROOF
  <1>1. <<>> \in Seq(Records)
    OBVIOUS
  <1>2. [state |-> "new", sequence |-> 0, pending |-> <<>>, failure |-> FALSE] \in RunStates
    BY <1>1, LogAssumption DEF RunStates
  <1>3. LogInit => run \in [Runs -> RunStates]
    BY <1>2 DEF LogInit
  <1>4. LogInit => acked \in [Runs -> 0..MaxEvents] /\ interrupts \in [Runs -> 0..MaxInterrupts]
    BY LogAssumption DEF LogInit
  <1>5. LogInit => file \in Seq(Records) /\ torn \in BOOLEAN
    BY <1>1 DEF LogInit
  <1>6. QED BY <1>3, <1>4, <1>5 DEF LogTypeOK

LEMMA PoisonedShape ==
  ASSUME LogTypeOK, NEW r \in Runs
  PROVE  Poisoned(r) \in [Runs -> RunStates]
PROOF
  <1>1. run \in [Runs -> RunStates] /\ run[r] \in RunStates
    BY DEF LogTypeOK
  <1>2. [run[r] EXCEPT !.failure = TRUE, !.state = "open"] \in RunStates
    BY <1>1 DEF RunStates
  <1>3. Poisoned(r) = [run EXCEPT ![r] = [run[r] EXCEPT !.failure = TRUE, !.state = "open"]]
    BY <1>1 DEF Poisoned
  <1>4. QED BY <1>1, <1>2, <1>3

LEMMA LogNextType == LogTypeOK /\ [LogNext]_logVars => LogTypeOK'
PROOF
  <1>1. SUFFICES ASSUME LogTypeOK, [LogNext]_logVars PROVE LogTypeOK'
    OBVIOUS
  <1>a. /\ file \in Seq(Records) /\ torn \in BOOLEAN /\ run \in [Runs -> RunStates]
        /\ acked \in [Runs -> 0..MaxEvents] /\ interrupts \in [Runs -> 0..MaxInterrupts]
    BY <1>1 DEF LogTypeOK
  <1>2. ASSUME NEW r \in Runs, Open(r) PROVE LogTypeOK'
    BY <1>a, <1>2 DEF Open, LogTypeOK, RunStates
  <1>3. ASSUME NEW r \in Runs, Flush(r) PROVE LogTypeOK'
    BY <1>a, <1>3 DEF Flush, LogTypeOK, RunStates
  <1>4. ASSUME NEW r \in Runs, Append_(r) PROVE LogTypeOK'
    <2>1. file' \in Seq(Records)
      BY <1>1, <1>4, WholeBatchCuts, CutShape DEF Append_
    <2>2. [run[r] EXCEPT !.pending = <<>>, !.state = "open"] \in RunStates
      <3>1. <<>> \in Seq(Records) /\ run[r] \in RunStates
        BY <1>a
      <3>2. QED BY <3>1 DEF RunStates
    <2>3. run' = [run EXCEPT ![r] = [run[r] EXCEPT !.pending = <<>>, !.state = "open"]]
      BY <1>a, <1>4 DEF Append_
    <2>4. run' \in [Runs -> RunStates]
      BY <1>a, <2>2, <2>3
    <2>5. acked' \in [Runs -> 0..MaxEvents]
      BY <1>1, <1>a, <1>4, RunShape DEF Append_
    <2>6. QED BY <1>a, <1>4, <2>1, <2>4, <2>5 DEF Append_, LogTypeOK
  <1>5. ASSUME NEW r \in Runs, AppendFails(r) PROVE LogTypeOK'
    <2>1. PICK c \in Partial(r) : Cut(r, c)
      BY <1>5 DEF AppendFails
    <2>2. file' \in Seq(Records) /\ torn' \in BOOLEAN
      BY <1>1, <2>1, PartialCuts, CutShape
    <2>3. run' \in [Runs -> RunStates]
      BY <1>1, <1>5, PoisonedShape DEF AppendFails
    <2>4. QED BY <1>a, <1>5, <2>2, <2>3 DEF AppendFails, LogTypeOK
  <1>6. ASSUME NEW r \in Runs, Refuse(r) PROVE LogTypeOK'
    BY <1>1, <1>a, <1>6, PoisonedShape DEF Refuse, LogTypeOK
  <1>7. ASSUME NEW r \in Runs, Interrupt(r) PROVE LogTypeOK'
    <2>1. interrupts' \in [Runs -> 0..MaxInterrupts]
      BY <1>a, <1>7, LogAssumption DEF Interrupt
    <2>2. CASE /\ run[r].sequence < MaxEvents
               /\ run' = [run EXCEPT ![r].pending = Queued(r)]
               /\ UNCHANGED <<file, torn, acked>>
      <3>1. Queued(r) \in Seq(Records)
        BY <1>1, <2>2, QueuedShape
      <3>2. run' \in [Runs -> RunStates]
        BY <1>a, <2>2, <3>1 DEF RunStates
      <3>3. QED BY <1>a, <2>1, <2>2, <3>2 DEF LogTypeOK
    <2>3. CASE /\ IF torn THEN UNCHANGED <<file, torn>> ELSE \E c \in Partial(r) : Cut(r, c)
               /\ run' = [run EXCEPT ![r].state = "open"]
               /\ UNCHANGED acked
      <3>1. file' \in Seq(Records) /\ torn' \in BOOLEAN
        BY <1>1, <1>a, <2>3, PartialCuts, CutShape
      <3>2. run' \in [Runs -> RunStates]
        BY <1>a, <2>3 DEF RunStates
      <3>3. QED BY <1>a, <2>1, <2>3, <3>1, <3>2 DEF LogTypeOK
    <2>4. QED BY <1>7, <2>2, <2>3 DEF Interrupt
  <1>8. ASSUME NEW r \in Runs, NEW flush \in BOOLEAN, Emit(r, flush) PROVE LogTypeOK'
    <2>1. run' \in [Runs -> RunStates]
      <3>1. Queued(r) \in Seq(Records) /\ run[r].sequence + 1 \in 0..MaxEvents
        BY <1>1, <1>8, QueuedShape, RunShape, LogAssumption DEF Emit
      <3>2. PICK next \in {"open", "writing"} :
               run' = [run EXCEPT ![r].pending = Queued(r), ![r].sequence = @ + 1, ![r].state = next]
        BY <1>8 DEF Emit
      <3>3. run[r] \in RunStates
        BY <1>a
      <3> DEFINE new == [run[r] EXCEPT !.pending = Queued(r), !.sequence = @ + 1, !.state = next]
      <3>4. new \in RunStates
        BY <3>1, <3>3 DEF RunStates
      <3>5. run' = [run EXCEPT ![r] = new]
        BY <1>a, <3>2
      <3>6. QED BY <1>a, <3>4, <3>5
    <2>2. QED BY <1>a, <1>8, <2>1 DEF Emit, LogTypeOK
  <1>9. CASE Crash
    <2>1. file' \in Seq(Records) /\ torn' \in BOOLEAN
      BY <1>1, <1>a, <1>9, PartialCuts, CutShape DEF Crash
    <2>2. run' \in [Runs -> RunStates]
      <3>1. <<>> \in Seq(Records)
        OBVIOUS
      <3>2. \A r \in Runs : [run[r] EXCEPT !.state = "dead", !.pending = <<>>] \in RunStates
        BY <1>a, <3>1 DEF RunStates
      <3>3. QED BY <1>a, <1>9, <3>2 DEF Crash
    <2>3. QED BY <1>a, <1>9, <2>1, <2>2 DEF Crash, LogTypeOK
  <1>10. CASE UNCHANGED logVars
    BY <1>a, <1>10 DEF LogTypeOK, logVars
  <1>11. QED BY <1>1, <1>2, <1>3, <1>4, <1>5, <1>6, <1>7, <1>8, <1>9, <1>10 DEF LogNext

(* The buffers hold numbered records, and the journal records of runs      *)
(* (emit, flush and JsonlSink.append of event_log.py).                     *)
THEOREM LogStaysTyped == LogSpec => []LogTypeOK
BY LogInitType, LogNextType, PTL DEF LogSpec

-----------------------------------------------------------------------------
(* What a step does to the journal: nothing, or it appends a prefix of the  *)
(* buffer of a run that holds its lock.                                     *)
LEMMA StepWrites ==
  ASSUME LogTypeOK, [LogNext]_logVars
  PROVE  \/ file' = file /\ torn' = torn
         \/ \E r \in Runs, n \in Nat :
               Writing(r) /\ ~torn /\ n \in 0..Waiting(r) /\ Cuts(r, n)
PROOF
  <1> DEFINE Written == \E r \in Runs, n \in Nat :
                           Writing(r) /\ ~torn /\ n \in 0..Waiting(r) /\ Cuts(r, n)
  <1>a. ASSUME NEW r \in Runs, NEW c \in Partial(r), Writing(r), ~torn, Cut(r, c)
        PROVE  Written
    <2>1. c.n \in 0..Waiting(r) /\ Cuts(r, c.n) /\ Waiting(r) \in Nat
      BY <1>a, PartialCuts, RunShape
    <2>2. c.n \in Nat
      BY <2>1
    <2>3. QED BY <1>a, <2>1, <2>2
  <1>b. SUFFICES (file' = file /\ torn' = torn) \/ Written
    OBVIOUS
  <1> HIDE DEF Written
  <1>1. ASSUME NEW r \in Runs, Open(r) \/ Flush(r) \/ Refuse(r)
        PROVE  file' = file /\ torn' = torn
    BY <1>1 DEF Open, Flush, Refuse
  <1>2. ASSUME NEW r \in Runs, NEW flush \in BOOLEAN, Emit(r, flush)
        PROVE  file' = file /\ torn' = torn
    BY <1>2 DEF Emit
  <1>3. ASSUME NEW r \in Runs, Append_(r) PROVE Written
    <2>1. Waiting(r) \in 0..Waiting(r) /\ Cuts(r, Waiting(r)) /\ Waiting(r) \in Nat
      BY <1>3, WholeBatchCuts, RunShape DEF Append_
    <2>2. Writing(r) /\ ~torn
      BY <1>3 DEF Append_
    <2>3. QED BY <2>1, <2>2 DEF Written
  <1>4. ASSUME NEW r \in Runs, AppendFails(r) PROVE Written
    BY <1>4, <1>a DEF AppendFails
  <1>5. ASSUME NEW r \in Runs, Interrupt(r) PROVE (file' = file /\ torn' = torn) \/ Written
    <2>1. \/ UNCHANGED <<file, torn>>
          \/ Writing(r) /\ ~torn /\ \E c \in Partial(r) : Cut(r, c)
      BY <1>5 DEF Interrupt
    <2>2. QED BY <2>1, <1>a
  <1>6. CASE Crash
    <2>1. \/ UNCHANGED <<file, torn>>
          \/ \E r \in Runs : Writing(r) /\ ~torn /\ \E c \in Partial(r) : Cut(r, c)
      BY <1>6 DEF Crash
    <2>2. QED BY <2>1, <1>a
  <1>7. CASE UNCHANGED logVars
    BY <1>7 DEF logVars
  <1>8. QED BY <1>1, <1>2, <1>3, <1>4, <1>5, <1>6, <1>7 DEF LogNext

LEMMA InterruptsGrow ==
  ASSUME LogTypeOK, [LogNext]_logVars, NEW s \in Runs, interrupts'[s] = 0
  PROVE  interrupts[s] = 0
PROOF
  <1>1. interrupts \in [Runs -> 0..MaxInterrupts] /\ \A q \in Runs : interrupts[q] \in Nat
    BY LogAssumption DEF LogTypeOK
  <1>2. ASSUME NEW r \in Runs, Interrupt(r) PROVE interrupts[s] = 0
    BY <1>1, <1>2 DEF Interrupt
  <1>3. CASE interrupts' = interrupts
    BY <1>3
  <1>4. QED
    BY <1>2, <1>3 DEF LogNext, logVars, Open, Flush, Append_, AppendFails, Refuse, Emit, Crash

(* The journal holds no new record of the run. *)
Untouched(s) == \A j \in 1..Len(file') : file'[j].run = s => j \in 1..Len(file) /\ file'[j] = file[j]

LEMMA OthersUntouched ==
  ASSUME LogTypeOK, PendingIsOwn, NEW r \in Runs, NEW n \in 0..Waiting(r), Cuts(r, n),
         NEW s \in Runs, s # r
  PROVE  Untouched(s)
PROOF
  <1>1. SUFFICES ASSUME NEW j \in 1..Len(file'), file'[j].run = s
                 PROVE  j \in 1..Len(file) /\ file'[j] = file[j]
    BY DEF Untouched
  <1>2. /\ Len(file') = Len(file) + n /\ Len(file) \in Nat /\ n \in Nat /\ Waiting(r) \in Nat
        /\ \A i \in 1..Len(file) : file'[i] = file[i]
        /\ j > Len(file) => file'[j] = run[r].pending[j - Len(file)]
    BY CutShape, FileShape, RunShape
  <1>3. CASE j > Len(file)
    <2>1. j - Len(file) \in 1..Waiting(r)
      BY <1>2, <1>3
    <2>2. run[r].pending[j - Len(file)].run = r
      BY <2>1 DEF PendingIsOwn
    <2>3. QED BY <1>1, <1>2, <1>3, <2>2
  <1>4. QED BY <1>2, <1>3

LEMMA SameUntouched ==
  ASSUME file' = file, NEW s \in Runs
  PROVE  Untouched(s)
BY DEF Untouched

-----------------------------------------------------------------------------
(* What a step does to one run: it leaves what the run holds, emits, is     *)
(* interrupted between queueing and numbering, appends the whole buffer, or *)
(* ends the process.                                                        *)
Keeps(s) ==
  /\ run'[s].pending = run[s].pending /\ run'[s].sequence = run[s].sequence
  /\ run[s].state = "dead" => run'[s].state = "dead"
  /\ run[s].failure => run'[s].failure
  /\ run'[s].failure => run'[s].state # "writing"
  /\ Untouched(s) \/ run'[s].failure \/ interrupts'[s] # 0

Emits(s) ==
  /\ run[s].sequence < MaxEvents /\ ~run[s].failure /\ run[s].state # "dead"
  /\ run'[s].pending = Queued(s) /\ run'[s].sequence = run[s].sequence + 1
  /\ ~run'[s].failure /\ file' = file

Breaks(s) ==
  /\ run[s].sequence < MaxEvents /\ run[s].state # "dead" /\ run'[s].state = "open"
  /\ run'[s].pending = Queued(s) /\ run'[s].sequence = run[s].sequence
  /\ file' = file /\ interrupts'[s] # 0

Appends(s) ==
  /\ run[s].state = "writing" /\ run'[s].state = "open"
  /\ run'[s].pending = <<>> /\ run'[s].sequence = run[s].sequence
  /\ run'[s].failure = run[s].failure /\ Cuts(s, Waiting(s))

Dies(s) == run'[s].state = "dead" /\ run'[s].pending = <<>>

LEMMA RunMoves ==
  ASSUME LogTypeOK, PendingIsOwn, PoisonedStops, [LogNext]_logVars, NEW s \in Runs
  PROVE  Keeps(s) \/ Emits(s) \/ Breaks(s) \/ Appends(s) \/ Dies(s)
PROOF
  <1>a. /\ run \in [Runs -> RunStates] /\ interrupts \in [Runs -> 0..MaxInterrupts]
        /\ \A q \in Runs : interrupts[q] \in Nat /\ run[q].failure \in BOOLEAN
        /\ run[s] \in RunStates
    BY LogAssumption, RunShape DEF LogTypeOK
  <1>b. run[s].failure => run[s].state # "writing"
    BY DEF PoisonedStops, Writing
  <1>c. ASSUME NEW r \in Runs, NEW c \in Partial(r), Cut(r, c), r # s
        PROVE  Untouched(s)
    BY <1>c, PartialCuts, OthersUntouched
  <1>1. ASSUME NEW r \in Runs, Open(r) PROVE Keeps(s)
    <2>1. Untouched(s)
      BY <1>1, SameUntouched DEF Open
    <2>2. QED BY <1>a, <1>b, <1>1, <2>1 DEF Open, Keeps, RunStates
  <1>2. ASSUME NEW r \in Runs, Flush(r) PROVE Keeps(s)
    <2>1. Untouched(s)
      BY <1>2, SameUntouched DEF Flush
    <2>2. QED BY <1>a, <1>b, <1>2, <2>1 DEF Flush, Keeps, RunStates
  <1>3. ASSUME NEW r \in Runs, Append_(r) PROVE Keeps(s) \/ Appends(s)
    <2>1. Cuts(r, Waiting(r)) /\ Waiting(r) \in 0..Waiting(r)
      BY <1>3, WholeBatchCuts DEF Append_
    <2>2. run' = [run EXCEPT ![r] = [run[r] EXCEPT !.pending = <<>>, !.state = "open"]]
      BY <1>a, <1>3 DEF Append_
    <2>3. CASE s = r
      <3>1. run'[s] = [run[s] EXCEPT !.pending = <<>>, !.state = "open"]
        BY <1>a, <2>2, <2>3
      <3>2. run[s].state = "writing"
        BY <1>3, <2>3 DEF Append_, Writing
      <3>3. QED BY <1>a, <2>1, <2>3, <3>1, <3>2 DEF Appends, RunStates
    <2>4. CASE s # r
      <3>1. run'[s] = run[s]
        BY <1>a, <2>2, <2>4
      <3>2. Untouched(s)
        BY <2>1, <2>4, OthersUntouched
      <3>3. QED BY <1>b, <3>1, <3>2 DEF Keeps
    <2>5. QED BY <2>3, <2>4
  <1>4. ASSUME NEW r \in Runs, AppendFails(r) PROVE Keeps(s)
    <2>1. s # r => Untouched(s)
      BY <1>4, <1>c DEF AppendFails
    <2>2. run' = [run EXCEPT ![r] = [run[r] EXCEPT !.failure = TRUE, !.state = "open"]]
      BY <1>a, <1>4 DEF AppendFails, Poisoned
    <2>3. run[s].state = "dead" => s # r
      BY <1>4 DEF AppendFails, Writing
    <2>4. QED BY <1>a, <1>b, <2>1, <2>2, <2>3 DEF Keeps, RunStates
  <1>5. ASSUME NEW r \in Runs, Refuse(r) PROVE Keeps(s)
    <2>1. Untouched(s)
      BY <1>5, SameUntouched DEF Refuse
    <2>2. run' = [run EXCEPT ![r] = [run[r] EXCEPT !.failure = TRUE, !.state = "open"]]
      BY <1>a, <1>5 DEF Refuse, Poisoned
    <2>3. run[s].state = "dead" => s # r
      BY <1>5 DEF Refuse, Writing
    <2>4. QED BY <1>a, <1>b, <2>1, <2>2, <2>3 DEF Keeps, RunStates
  <1>6. ASSUME NEW r \in Runs, Interrupt(r) PROVE Keeps(s) \/ Breaks(s)
    <2>1. interrupts'[r] # 0
      BY <1>a, <1>6 DEF Interrupt
    <2>2. CASE /\ run[r].state = "open" /\ run[r].sequence < MaxEvents
               /\ run' = [run EXCEPT ![r].pending = Queued(r)]
               /\ UNCHANGED <<file, torn>>
      <3>1. Untouched(s)
        BY <2>2, SameUntouched
      <3>2. run' = [run EXCEPT ![r] = [run[r] EXCEPT !.pending = Queued(r)]]
        BY <1>a, <2>2
      <3>3. CASE s = r
        <4>1. run'[s] = [run[s] EXCEPT !.pending = Queued(s)]
          BY <1>a, <3>2, <3>3
        <4>2. QED BY <1>a, <2>1, <2>2, <3>3, <4>1 DEF Breaks, RunStates
      <3>4. CASE s # r
        BY <1>a, <1>b, <3>1, <3>2, <3>4 DEF Keeps
      <3>5. QED BY <3>3, <3>4
    <2>3. CASE /\ Writing(r)
               /\ IF torn THEN UNCHANGED <<file, torn>> ELSE \E c \in Partial(r) : Cut(r, c)
               /\ run' = [run EXCEPT ![r].state = "open"]
      <3>1. s # r => Untouched(s)
        BY <1>c, <2>3, SameUntouched
      <3>2. run' = [run EXCEPT ![r] = [run[r] EXCEPT !.state = "open"]]
        BY <1>a, <2>3
      <3>3. run[s].state = "dead" => s # r
        BY <2>3 DEF Writing
      <3>4. QED BY <1>a, <1>b, <2>1, <3>1, <3>2, <3>3 DEF Keeps, RunStates
    <2>4. QED BY <1>6, <2>2, <2>3 DEF Interrupt
  <1>7. ASSUME NEW r \in Runs, NEW flush \in BOOLEAN, Emit(r, flush) PROVE Keeps(s) \/ Emits(s)
    <2>1. PICK next \in {"open", "writing"} :
             run' = [run EXCEPT ![r].pending = Queued(r), ![r].sequence = @ + 1, ![r].state = next]
      BY <1>7 DEF Emit
    <2> DEFINE new == [run[r] EXCEPT !.pending = Queued(r), !.sequence = @ + 1, !.state = next]
    <2>2. run' = [run EXCEPT ![r] = new]
      BY <1>a, <2>1
    <2>3. file' = file /\ run[r].sequence < MaxEvents /\ ~run[r].failure /\ run[r].state # "dead"
      BY <1>7 DEF Emit
    <2>4. CASE s = r
      <3>1. run'[s] = new
        BY <1>a, <2>2, <2>4
      <3>2. QED BY <1>a, <2>3, <2>4, <3>1 DEF Emits, RunStates
    <2>5. CASE s # r
      <3>1. run'[s] = run[s]
        BY <1>a, <2>2, <2>5
      <3>2. Untouched(s)
        BY <2>3, SameUntouched
      <3>3. QED BY <1>b, <3>1, <3>2 DEF Keeps
    <2>6. QED BY <2>4, <2>5
  <1>8. CASE Crash
    <2>1. run' = [r \in Runs |-> IF run[r].state = "new" THEN run[r]
                                 ELSE [run[r] EXCEPT !.state = "dead", !.pending = <<>>]]
      BY <1>8 DEF Crash
    <2>2. CASE run[s].state = "new"
      <3>1. run'[s] = run[s]
        BY <2>1, <2>2
      <3>2. Untouched(s)
        <4>1. CASE file' = file
          BY <4>1, SameUntouched
        <4>2. ASSUME NEW r \in Runs, Writing(r), NEW c \in Partial(r), Cut(r, c)
              PROVE  Untouched(s)
          BY <1>c, <2>2, <4>2 DEF Writing
        <4>3. QED BY <1>8, <4>1, <4>2 DEF Crash
      <3>3. QED BY <1>b, <3>1, <3>2 DEF Keeps
    <2>3. CASE run[s].state # "new"
      BY <1>a, <2>1, <2>3 DEF Dies, RunStates
    <2>4. QED BY <2>2, <2>3
  <1>9. CASE UNCHANGED logVars
    <2>1. Untouched(s)
      BY <1>9, SameUntouched DEF logVars
    <2>2. QED BY <1>b, <1>9, <2>1 DEF Keeps, logVars
  <1>10. QED BY <1>1, <1>2, <1>3, <1>4, <1>5, <1>6, <1>7, <1>8, <1>9 DEF LogNext

-----------------------------------------------------------------------------
JournalInv == LogTypeOK /\ JournalStays /\ JournalIsTrue

LEMMA JournalStarts == LogInit => JournalStays /\ JournalIsTrue
PROOF
  <1>1. SUFFICES ASSUME LogInit PROVE JournalStays /\ JournalIsTrue
    OBVIOUS
  <1>2. /\ file = <<>> /\ DOMAIN file = {} /\ Len(<<>>) = 0
        /\ \A r \in Runs : /\ run[r].pending = <<>> /\ run[r].sequence = 0 /\ acked[r] = 0
                           /\ run[r].failure = FALSE /\ Waiting(r) = 0
    BY <1>1 DEF LogInit, Waiting
  <1>3. 1..0 = {}
    OBVIOUS
  <1>4. RunsAreOrdered /\ ConfirmedIsWritten
    BY <1>2, <1>3 DEF RunsAreOrdered, ConfirmedIsWritten
  <1>5. PendingIsOwn /\ PoisonedStops /\ NothingDropped /\ PendingContinues
    BY <1>2, <1>3 DEF PendingIsOwn, PoisonedStops, NothingDropped, PendingContinues
  <1>6. QED BY <1>4, <1>5 DEF JournalStays, JournalIsTrue

(* What the journal has, it keeps. *)
LEMMA FileGrows ==
  ASSUME LogTypeOK, [LogNext]_logVars
  PROVE  /\ \A e \in ToSet(file) : e \in ToSet(file')
         /\ Len(file) <= Len(file') /\ Len(file') \in Nat /\ DOMAIN file' = 1..Len(file')
         /\ \A j \in 1..Len(file) : j \in 1..Len(file') /\ file'[j] = file[j]
PROOF
  <1>1. /\ file \in Seq(Records) /\ file' \in Seq(Records)
    BY FileShape, LogNextType DEF LogTypeOK
  <1>2. Len(file) \in Nat /\ Len(file') \in Nat /\ DOMAIN file' = 1..Len(file')
    BY <1>1
  <1>3. CASE file' = file
    BY <1>2, <1>3
  <1>4. ASSUME NEW r \in Runs, NEW n \in Nat, n \in 0..Waiting(r), Cuts(r, n)
        PROVE  /\ \A e \in ToSet(file) : e \in ToSet(file')
               /\ Len(file) <= Len(file')
               /\ \A j \in 1..Len(file) : j \in 1..Len(file') /\ file'[j] = file[j]
    <2>1. /\ \A e \in ToSet(file) : e \in ToSet(file')
          /\ Len(file') = Len(file) + n
          /\ \A j \in 1..Len(file) : file'[j] = file[j]
      BY <1>4, CutKeeps, CutShape
    <2>2. QED BY <1>2, <1>4, <2>1
  <1>5. QED BY <1>2, <1>3, <1>4, StepWrites

(* The buffer goes on being the run's own. *)
LEMMA OwnStays ==
  ASSUME LogTypeOK, PendingIsOwn, PoisonedStops, [LogNext]_logVars
  PROVE  PendingIsOwn'
PROOF
  <1>1. SUFFICES ASSUME NEW s \in Runs, NEW i \in 1..Len(run'[s].pending)
                 PROVE  run'[s].pending[i].run = s
    BY DEF PendingIsOwn, Waiting
  <1>2. /\ Waiting(s) \in Nat /\ Waiting(s) = Len(run[s].pending)
        /\ \A k \in 1..Waiting(s) : run[s].pending[k].run = s
    BY RunShape DEF PendingIsOwn, Waiting
  <1>3. CASE Keeps(s)
    BY <1>2, <1>3 DEF Keeps
  <1>4. CASE Emits(s) \/ Breaks(s)
    <2>1. run'[s].pending = Queued(s) /\ run[s].sequence < MaxEvents
      BY <1>4 DEF Emits, Breaks
    <2>2. /\ Len(Queued(s)) = Waiting(s) + 1
          /\ \A k \in 1..Waiting(s) : Queued(s)[k] = run[s].pending[k]
          /\ Queued(s)[Waiting(s) + 1] = Record(s, run[s].sequence + 1)
      BY <2>1, QueuedShape
    <2>3. i \in 1..Waiting(s) \/ i = Waiting(s) + 1
      BY <1>1, <1>2, <2>1, <2>2
    <2>4. QED BY <1>2, <2>1, <2>2, <2>3 DEF Record
  <1>5. CASE Appends(s) \/ Dies(s)
    BY <1>5 DEF Appends, Dies
  <1>6. QED BY <1>3, <1>4, <1>5, RunMoves

(* A run that has failed does not come to write. *)
LEMMA StopsStay ==
  ASSUME LogTypeOK, PendingIsOwn, PoisonedStops, [LogNext]_logVars
  PROVE  PoisonedStops'
PROOF
  <1>1. SUFFICES ASSUME NEW s \in Runs, run'[s].failure
                 PROVE  run'[s].state # "writing"
    BY DEF PoisonedStops, Writing
  <1>2. QED BY <1>1, RunMoves DEF Keeps, Emits, Breaks, Appends, Dies

(* No numbered event is lost while the process lives. *)
LEMMA NothingDrops ==
  ASSUME LogTypeOK, PendingIsOwn, PoisonedStops, NothingDropped, [LogNext]_logVars
  PROVE  NothingDropped'
PROOF
  <1>1. SUFFICES ASSUME NEW s \in Runs, run'[s].state # "dead", NEW n \in 1..run'[s].sequence
                 PROVE  Record(s, n) \in ToSet(file') \cup ToSet(run'[s].pending)
    BY DEF NothingDropped, Record
  <1>2. \A e \in ToSet(file) : e \in ToSet(file')
    BY FileGrows
  <1>3. /\ run[s].sequence \in Nat /\ Waiting(s) \in Nat /\ Waiting(s) = Len(run[s].pending)
        /\ run[s].pending \in Seq(Records)
    BY RunShape, LogAssumption DEF Waiting
  <1>4. ASSUME n \in 1..run[s].sequence, run[s].state # "dead"
        PROVE  Record(s, n) \in ToSet(file') \cup ToSet(run[s].pending)
    BY <1>2, <1>4 DEF NothingDropped
  <1>5. CASE Keeps(s)
    BY <1>1, <1>4, <1>5 DEF Keeps
  <1>6. CASE Emits(s) \/ Breaks(s)
    <2>1. /\ run'[s].pending = Queued(s) /\ run[s].sequence < MaxEvents /\ run[s].state # "dead"
          /\ Queued(s) \in Seq(Records) /\ Len(Queued(s)) = Waiting(s) + 1
          /\ \A k \in 1..Waiting(s) : Queued(s)[k] = run[s].pending[k]
          /\ Queued(s)[Waiting(s) + 1] = Record(s, run[s].sequence + 1)
      BY <1>6, QueuedShape DEF Emits, Breaks
    <2>2. ASSUME NEW e \in ToSet(run[s].pending) PROVE e \in ToSet(Queued(s))
      <3>1. PICK k \in 1..Waiting(s) : run[s].pending[k] = e
        BY <1>3, <2>2, Elements
      <3>2. k \in 1..Len(Queued(s)) /\ Queued(s)[k] = e
        BY <1>3, <2>1, <3>1
      <3>3. QED BY <2>1, <3>2, Elements
    <2>3. Record(s, run[s].sequence + 1) \in ToSet(Queued(s))
      <3>1. Waiting(s) + 1 \in 1..Len(Queued(s))
        BY <1>3, <2>1
      <3>2. QED BY <2>1, <3>1, Elements
    <2>4. n \in 1..run[s].sequence \/ n = run[s].sequence + 1
      BY <1>1, <1>3, <1>6 DEF Emits, Breaks
    <2>5. QED BY <1>4, <2>1, <2>2, <2>3, <2>4
  <1>7. CASE Appends(s)
    <2>1. /\ run'[s].sequence = run[s].sequence /\ run[s].state # "dead"
          /\ Cuts(s, Waiting(s)) /\ Waiting(s) \in 0..Waiting(s)
      BY <1>3, <1>7 DEF Appends
    <2>2. \A k \in 1..Waiting(s) : run[s].pending[k] \in ToSet(file')
      BY <2>1, CutKeeps
    <2>3. \A e \in ToSet(run[s].pending) : e \in ToSet(file')
      BY <1>3, <2>2, Elements
    <2>4. QED BY <1>1, <1>4, <2>1, <2>3
  <1>8. CASE Dies(s)
    BY <1>1, <1>8 DEF Dies
  <1>9. QED BY <1>5, <1>6, <1>7, <1>8, RunMoves

(* What a run holds goes on following what it has written. *)
LEMMA PendingFollows ==
  ASSUME LogTypeOK, PendingIsOwn, PoisonedStops, PendingContinues, [LogNext]_logVars
  PROVE  PendingContinues'
PROOF
  <1> DEFINE left(s) == run'[s].sequence - Len(run'[s].pending)
  <1>1. SUFFICES ASSUME NEW s \in Runs, interrupts'[s] = 0, ~run'[s].failure, run'[s].state # "dead"
                 PROVE  /\ \A i \in 1..Len(run'[s].pending) : run'[s].pending[i].sequence = left(s) + i
                        /\ \A j \in 1..Len(file') : file'[j].run = s => file'[j].sequence <= left(s)
    BY FileGrows DEF PendingContinues, Gone, Waiting
  <1>2. interrupts[s] = 0
    BY <1>1, InterruptsGrow
  <1>3. /\ run[s].sequence \in Nat /\ Waiting(s) \in Nat /\ Waiting(s) = Len(run[s].pending)
        /\ Gone(s) = run[s].sequence - Waiting(s) /\ Gone(s) \in Int
        /\ run[s].pending \in Seq(Records)
    BY RunShape, LogAssumption DEF Waiting, Gone
  <1>4. ASSUME ~run[s].failure, run[s].state # "dead"
        PROVE  /\ \A i \in 1..Waiting(s) : run[s].pending[i].sequence = Gone(s) + i
               /\ \A j \in 1..Len(file) : file[j].run = s => file[j].sequence <= Gone(s)
    BY <1>2, <1>4, FileShape DEF PendingContinues
  <1>5. CASE Keeps(s)
    <2>1. /\ run'[s].pending = run[s].pending /\ left(s) = Gone(s) /\ Untouched(s)
          /\ ~run[s].failure /\ run[s].state # "dead"
      BY <1>1, <1>3, <1>5 DEF Keeps
    <2>2. QED BY <1>3, <1>4, <2>1 DEF Untouched
  <1>6. CASE Emits(s)
    <2>1. /\ run'[s].pending = Queued(s) /\ run'[s].sequence = run[s].sequence + 1
          /\ ~run[s].failure /\ run[s].state # "dead" /\ file' = file
          /\ Len(Queued(s)) = Waiting(s) + 1
          /\ \A k \in 1..Waiting(s) : Queued(s)[k] = run[s].pending[k]
          /\ Queued(s)[Waiting(s) + 1] = Record(s, run[s].sequence + 1)
      BY <1>6, QueuedShape DEF Emits
    <2>2. left(s) = Gone(s)
      <3>1. left(s) = (run[s].sequence + 1) - (Waiting(s) + 1)
        BY <2>1
      <3>2. (run[s].sequence + 1) - (Waiting(s) + 1) = Gone(s)
        BY <1>3
      <3>3. QED BY <3>1, <3>2
    <2>3. ASSUME NEW i \in 1..Len(run'[s].pending)
          PROVE  run'[s].pending[i].sequence = left(s) + i
      <3>1. i \in 1..Waiting(s) \/ i = Waiting(s) + 1
        BY <1>3, <2>1, <2>3
      <3>2. Record(s, run[s].sequence + 1).sequence = run[s].sequence + 1
        BY DEF Record
      <3>3. CASE i \in 1..Waiting(s)
        BY <1>4, <2>1, <2>2, <3>3
      <3>4. CASE i = Waiting(s) + 1
        <4>1. run'[s].pending[i].sequence = run[s].sequence + 1
          BY <2>1, <3>2, <3>4
        <4>2. run[s].sequence + 1 = Gone(s) + (Waiting(s) + 1)
          BY <1>3
        <4>3. QED BY <2>2, <3>4, <4>1, <4>2
      <3>5. QED BY <3>1, <3>3, <3>4
    <2>4. QED BY <1>4, <2>1, <2>2, <2>3
  <1>7. CASE Breaks(s)
    BY <1>1, <1>7 DEF Breaks
  <1>8. CASE Appends(s)
    <2>1. /\ run'[s].pending = <<>> /\ run'[s].sequence = run[s].sequence
          /\ ~run[s].failure /\ run[s].state # "dead"
          /\ Cuts(s, Waiting(s)) /\ Waiting(s) \in 0..Waiting(s)
      BY <1>1, <1>3, <1>8 DEF Appends
    <2>2. left(s) = run[s].sequence /\ left(s) \in Nat
      BY <1>3, <2>1
    <2>3. /\ Len(file') = Len(file) + Waiting(s) /\ Len(file) \in Nat
          /\ \A j \in 1..Len(file) : file'[j] = file[j]
          /\ \A j \in 1..Len(file') : j > Len(file) => file'[j] = run[s].pending[j - Len(file)]
          /\ \A j \in 1..Len(file) : file[j].sequence \in 1..MaxEvents
      BY <2>1, CutShape, FileShape
    <2>4. ASSUME NEW j \in 1..Len(file'), file'[j].run = s
          PROVE  file'[j].sequence <= left(s)
      <3>1. CASE j > Len(file)
        <4>1. j - Len(file) \in 1..Waiting(s)
          BY <1>3, <2>3, <3>1
        <4>2. file'[j].sequence = Gone(s) + (j - Len(file))
          BY <1>4, <2>1, <2>3, <3>1, <4>1
        <4>3. /\ Gone(s) + Waiting(s) = left(s) /\ j - Len(file) <= Waiting(s)
              /\ j - Len(file) \in Int
          BY <1>3, <2>2, <4>1
        <4>4. QED BY <1>3, <4>2, <4>3
      <3>2. CASE ~(j > Len(file))
        <4>1. j \in 1..Len(file)
          BY <2>3, <3>2
        <4>2. file'[j].sequence <= Gone(s) /\ file'[j].sequence \in Int
          BY <1>4, <2>1, <2>3, <2>4, <4>1
        <4>3. QED BY <1>3, <2>2, <4>2
      <3>3. QED BY <3>1, <3>2
    <2>5. QED BY <2>1, <2>4
  <1>9. CASE Dies(s)
    BY <1>1, <1>9 DEF Dies
  <1>10. QED BY <1>5, <1>6, <1>7, <1>8, <1>9, RunMoves

-----------------------------------------------------------------------------
(* What stands before a pending record is of an event already emitted. *)
LEMMA EmittedBefore ==
  ASSUME NEW sequence \in Nat, NEW waiting \in Nat, NEW gone, gone = sequence - waiting,
         NEW k \in 1..waiting, NEW m \in 1..(gone + k - 1)
  PROVE  m \in 1..sequence /\ m < gone + k
OBVIOUS

(* The records of an append come in order, behind all earlier events. *)
LEMMA OrderStays ==
  ASSUME LogTypeOK, JournalStays, RunsAreOrdered, [LogNext]_logVars
  PROVE  RunsAreOrdered'
PROOF
  <1> DEFINE follows(f, j) ==
               /\ \A i \in 1..(j - 1) : f[i].run = f[j].run => f[i].sequence < f[j].sequence
               /\ \A n \in 1..(f[j].sequence - 1) : Record(f[j].run, n) \in ToSet(f)
  <1>1. SUFFICES ASSUME NEW j \in 1..Len(file'), interrupts'[file'[j].run] = 0
                 PROVE  follows(file', j)
    <2>1. DOMAIN file' = 1..Len(file')
      BY FileGrows
    <2>2. QED BY <2>1 DEF RunsAreOrdered, Record
  <1>2. LogTypeOK'
    BY LogNextType
  <1>3. /\ Len(file) \in Nat /\ Len(file') \in Nat /\ Len(file) <= Len(file')
        /\ \A e \in ToSet(file) : e \in ToSet(file')
        /\ \A i \in 1..Len(file) : i \in 1..Len(file') /\ file'[i] = file[i]
    BY FileShape, FileGrows
  <1>4. file'[j].run \in Runs /\ file'[j] \in Records
    <2>1. file' \in Seq(Records)
      BY <1>2 DEF LogTypeOK
    <2>2. file'[j] \in Records
      BY <1>1, <2>1
    <2>3. QED BY <2>2 DEF Records
  <1>5. interrupts[file'[j].run] = 0
    BY <1>1, <1>4, InterruptsGrow
  <1>6. CASE j \in 1..Len(file)
    <2>1. file'[j] = file[j]
      BY <1>3, <1>6
    <2>2. follows(file, j)
      BY <1>5, <1>6, <2>1, FileShape DEF RunsAreOrdered
    <2>3. \A i \in 1..(j - 1) : file'[i] = file[i]
      <3>1. \A i \in 1..(j - 1) : i \in 1..Len(file)
        BY <1>3, <1>6
      <3>2. QED BY <1>3, <3>1
    <2>4. QED BY <1>3, <2>1, <2>2, <2>3
  <1>7. CASE j \notin 1..Len(file)
    <2>1. PICK r \in Runs, n \in Nat : Writing(r) /\ ~torn /\ n \in 0..Waiting(r) /\ Cuts(r, n)
      <3>1. file' # file
        BY <1>1, <1>7
      <3>2. QED BY <3>1, StepWrites
    <2>2. /\ Len(file') = Len(file) + n
          /\ \A i \in 1..Len(file) : file'[i] = file[i]
          /\ \A i \in 1..Len(file') : i > Len(file) => file'[i] = run[r].pending[i - Len(file)]
      BY <2>1, CutShape
    <2>3. /\ run[r].sequence \in Nat /\ Waiting(r) \in Nat /\ Gone(r) = run[r].sequence - Waiting(r)
          /\ Waiting(r) = Len(run[r].pending) /\ run[r].pending \in Seq(Records) /\ Gone(r) \in Int
      BY RunShape, LogAssumption DEF Waiting, Gone
    <2> DEFINE k == j - Len(file)
    <2>4. k \in 1..n /\ k \in 1..Waiting(r) /\ file'[j] = run[r].pending[k]
      BY <1>1, <1>3, <1>7, <2>1, <2>2, <2>3
    <2>5. file'[j].run = r
      BY <2>4 DEF JournalStays, PendingIsOwn
    <2>6. /\ \A i \in 1..Waiting(r) : run[r].pending[i].sequence = Gone(r) + i
          /\ \A i \in 1..Len(file) : file[i].run = r => file[i].sequence <= Gone(r)
      <3>1. ~run[r].failure /\ run[r].state # "dead"
        BY <2>1 DEF JournalStays, PoisonedStops, Writing
      <3>2. QED BY <1>5, <2>5, <3>1, FileShape DEF JournalStays, PendingContinues
    <2>7. file'[j].sequence = Gone(r) + k
      BY <2>4, <2>6
    <2> HIDE DEF k
    <2>8. ASSUME NEW i \in 1..(j - 1), file'[i].run = file'[j].run
          PROVE  file'[i].sequence < file'[j].sequence
      <3>1. CASE i \in 1..Len(file)
        <4>1. file'[i].sequence <= Gone(r) /\ file'[i].sequence \in Int
          <5>1. file'[i] = file[i] /\ file[i].sequence \in 1..MaxEvents
            BY <2>2, <3>1, FileShape
          <5>2. file[i].run = r
            BY <2>5, <2>8, <5>1
          <5>3. QED BY <2>6, <3>1, <5>1, <5>2
        <4>2. Gone(r) \in Int /\ k \in Nat /\ k > 0
          BY <2>3, <2>4
        <4>3. file'[i].sequence < Gone(r) + k
          BY <4>1, <4>2
        <4>4. QED BY <2>7, <4>3
      <3>2. CASE i \notin 1..Len(file)
        <4>1. /\ i \in 1..Len(file') /\ i > Len(file) /\ i - Len(file) \in 1..Waiting(r)
              /\ i - Len(file) < k
          BY <1>1, <1>3, <2>1, <2>2, <2>3, <2>8, <3>2 DEF k
        <4>2. file'[i].sequence = Gone(r) + (i - Len(file))
          BY <2>2, <2>6, <4>1
        <4>3. /\ Len(file) \in Nat /\ i \in Int /\ k \in Int /\ Gone(r) \in Int
              /\ i - Len(file) < k
          BY <1>3, <2>3, <2>4, <2>8, <4>1
        <4>4. Gone(r) + (i - Len(file)) < Gone(r) + k
          BY <4>3
        <4>5. QED BY <2>7, <4>2, <4>4
      <3>3. QED BY <3>1, <3>2
    <2>9. ASSUME NEW m \in 1..(Gone(r) + k - 1)
          PROVE  Record(r, m) \in ToSet(file')
      <3>1. m \in 1..run[r].sequence /\ m < Gone(r) + k
        BY <2>3, <2>4, EmittedBefore
      <3>2. Record(r, m) \in ToSet(file) \cup ToSet(run[r].pending)
        <4>1. run[r].state # "dead"
          BY <2>1 DEF Writing
        <4>2. QED BY <3>1, <4>1 DEF JournalStays, NothingDropped
      <3>3. CASE Record(r, m) \in ToSet(file)
        BY <1>3, <3>3
      <3>4. CASE Record(r, m) \in ToSet(run[r].pending)
        <4>1. PICK i \in 1..Waiting(r) : run[r].pending[i] = Record(r, m)
          BY <2>3, <3>4, Elements
        <4>2. Gone(r) + i = m
          BY <2>6, <4>1 DEF Record
        <4>3. Gone(r) \in Int /\ k \in Int /\ k <= n /\ i \in Nat \ {0} /\ Gone(r) + i < Gone(r) + k
          BY <2>3, <2>4, <3>1, <4>2
        <4>4. i \in 1..n
          BY <4>3
        <4>5. QED BY <2>1, <4>1, <4>4, CutKeeps
      <3>5. QED BY <3>2, <3>3, <3>4
    <2>10. \A m \in 1..(file'[j].sequence - 1) : Record(file'[j].run, m) \in ToSet(file')
      <3>1. file'[j].sequence - 1 = Gone(r) + k - 1
        BY <2>3, <2>4, <2>7
      <3>2. \A m \in 1..(Gone(r) + k - 1) : Record(r, m) \in ToSet(file')
        BY <2>9
      <3>3. QED BY <2>5, <3>1, <3>2
    <2>11. QED BY <2>8, <2>10
  <1>8. QED BY <1>6, <1>7

(* A confirmation comes with the whole buffer written. *)
LEMMA ConfirmationsStay ==
  ASSUME LogTypeOK, JournalStays, ConfirmedIsWritten, [LogNext]_logVars
  PROVE  ConfirmedIsWritten'
PROOF
  <1>1. \A e \in ToSet(file) : e \in ToSet(file')
    BY FileGrows
  <1>2. CASE acked' = acked
    BY <1>1, <1>2 DEF ConfirmedIsWritten, Record
  <1>3. ASSUME NEW r \in Runs, Append_(r)
        PROVE  ConfirmedIsWritten'
    <2>1. /\ Cuts(r, Waiting(r)) /\ Waiting(r) \in 0..Waiting(r) /\ Writing(r)
          /\ acked' = [acked EXCEPT ![r] = run[r].sequence]
      BY <1>3, WholeBatchCuts DEF Append_
    <2>2. run[r].pending \in Seq(Records) /\ Waiting(r) = Len(run[r].pending)
      BY RunShape DEF Waiting
    <2>3. \A k \in 1..Waiting(r) : run[r].pending[k] \in ToSet(file')
      BY <2>1, CutKeeps
    <2>4. \A e \in ToSet(run[r].pending) : e \in ToSet(file')
      BY <2>2, <2>3, Elements
    <2>5. \A n \in 1..run[r].sequence : Record(r, n) \in ToSet(file')
      BY <1>1, <2>1, <2>4 DEF JournalStays, NothingDropped, Writing
    <2>6. ASSUME NEW s \in Runs, NEW n \in 1..acked'[s]
          PROVE  Record(s, n) \in ToSet(file')
      <3>1. acked'[s] = IF s = r THEN run[r].sequence ELSE acked[s]
        BY <2>1 DEF LogTypeOK
      <3>2. QED BY <1>1, <2>5, <2>6, <3>1 DEF ConfirmedIsWritten
    <2>7. QED BY <2>6 DEF ConfirmedIsWritten, Record
  <1>4. CASE \A r \in Runs : ~Append_(r)
    <2>1. acked' = acked
      BY <1>4 DEF LogNext, logVars, Open, Flush, AppendFails, Refuse, Interrupt, Emit, Crash
    <2>2. QED BY <1>2, <2>1
  <1>5. QED BY <1>3, <1>4

LEMMA JournalSteps == JournalInv /\ [LogNext]_logVars => JournalInv'
PROOF
  <1>1. SUFFICES ASSUME LogTypeOK, JournalStays, RunsAreOrdered, ConfirmedIsWritten, [LogNext]_logVars
                 PROVE  LogTypeOK' /\ JournalStays' /\ JournalIsTrue'
    BY DEF JournalInv, JournalIsTrue
  <1>2. PendingIsOwn /\ PoisonedStops /\ NothingDropped /\ PendingContinues
    BY <1>1 DEF JournalStays
  <1>3. LogTypeOK' /\ JournalStays'
    BY <1>1, <1>2, LogNextType, OwnStays, StopsStay, NothingDrops, PendingFollows DEF JournalStays
  <1>4. JournalIsTrue'
    BY <1>1, OrderStays, ConfirmationsStay DEF JournalIsTrue
  <1>5. QED BY <1>3, <1>4

LEMMA JournalAlways == LogSpec => []JournalInv
PROOF
  <1>1. LogInit => JournalInv
    BY LogInitType, JournalStarts DEF JournalInv
  <1>2. QED BY <1>1, JournalSteps, PTL DEF LogSpec

(* Whatever sinks fail, processes die and runs interleave, the journal has  *)
(* of every uninterrupted run its first events, in order and once, and of   *)
(* every run what a flush has confirmed (event_log.py).                     *)
THEOREM JournalStaysTrue == LogSpec => []JournalIsTrue
PROOF
  <1>1. JournalInv => JournalIsTrue
    BY DEF JournalInv
  <1>2. QED BY <1>1, JournalAlways, PTL

-----------------------------------------------------------------------------
(* No step rewrites history, writes behind a torn record, or writes for a   *)
(* run whose sink has failed.                                               *)
LEMMA StepAppends ==
  ASSUME LogTypeOK, PendingIsOwn, PoisonedStops, [LogNext]_logVars
  PROVE  /\ IsPrefix(file, file')
         /\ torn => UNCHANGED <<file, torn>>
         /\ \A i \in DOMAIN file' \ DOMAIN file : ~run[file'[i].run].failure
PROOF
  <1>1. /\ file \in Seq(Records) /\ file' \in Seq(Records)
        /\ DOMAIN file = 1..Len(file) /\ DOMAIN file' = 1..Len(file')
        /\ Len(file) \in Nat /\ Len(file') \in Nat
    BY FileShape, FileGrows, LogNextType DEF LogTypeOK
  <1>2. CASE file' = file /\ torn' = torn
    <2>1. IsPrefix(file, file)
      BY <1>1 DEF IsPrefix
    <2>2. QED BY <1>2, <2>1
  <1>3. ASSUME NEW r \in Runs, NEW n \in Nat, Writing(r), ~torn, n \in 0..Waiting(r), Cuts(r, n)
        PROVE  /\ IsPrefix(file, file')
               /\ torn => UNCHANGED <<file, torn>>
               /\ \A i \in DOMAIN file' \ DOMAIN file : ~run[file'[i].run].failure
    <2>1. IsPrefix(file, file')
      BY <1>1, FileGrows DEF IsPrefix
    <2>2. ASSUME NEW i \in 1..Len(file'), i \notin 1..Len(file)
          PROVE  ~run[file'[i].run].failure
      <3>1. i - Len(file) \in 1..Waiting(r) /\ file'[i] = run[r].pending[i - Len(file)]
        <4>1. /\ Len(file') = Len(file) + n /\ Waiting(r) \in Nat
              /\ \A j \in 1..Len(file') : j > Len(file) => file'[j] = run[r].pending[j - Len(file)]
          BY <1>3, CutShape, RunShape
        <4>2. i > Len(file) /\ i - Len(file) \in 1..n
          BY <1>1, <1>3, <2>2, <4>1
        <4>3. QED BY <1>1, <1>3, <2>2, <4>1, <4>2
      <3>2. file'[i].run = r
        BY <3>1 DEF PendingIsOwn
      <3>3. QED BY <1>3, <3>2 DEF PoisonedStops
    <2>3. QED BY <1>1, <1>3, <2>1, <2>2
  <1>4. QED BY <1>2, <1>3, StepWrites

THEOREM HistoryStands == LogSpec => AppendOnly
PROOF
  <1>1. JournalInv /\ [LogNext]_logVars =>
          [ /\ IsPrefix(file, file')
            /\ torn => UNCHANGED <<file, torn>>
            /\ \A i \in DOMAIN file' \ DOMAIN file : ~run[file'[i].run].failure ]_logVars
    BY StepAppends DEF JournalInv, JournalStays
  <1>2. QED BY <1>1, JournalAlways, PTL DEF LogSpec, AppendOnly

(***************************************************************************)
(* What Recovery promises of failures, for every document: committed       *)
(* evidence outlives each rollback around it, and what a rolled back       *)
(* command established is gone.                                            *)
(***************************************************************************)

(***************************************************************************)
(* Stacks of attempts and lists of failures.                               *)
(***************************************************************************)
IsSeq(s) == \E S : s \in Seq(S)

LEMMA Pushed ==
  ASSUME NEW s, IsSeq(s), NEW e
  PROVE  /\ IsSeq(Append(s, e)) /\ Len(s) \in Nat /\ Len(Append(s, e)) = Len(s) + 1
         /\ Append(s, e)[Len(s) + 1] = e /\ \A i \in 1..Len(s) : Append(s, e)[i] = s[i]
         /\ Append(s, e) # <<>>
PROOF
  <1>1. PICK S : s \in Seq(S)
    BY DEF IsSeq
  <1>2. s \in Seq(S \cup {e}) /\ e \in S \cup {e}
    BY <1>1
  <1>3. QED BY <1>2, AppendProperties, LenProperties DEF IsSeq

LEMMA Popped ==
  ASSUME NEW s, IsSeq(s), s # <<>>
  PROVE  /\ IsSeq(Front(s)) /\ Len(s) \in Nat \ {0} /\ Len(Front(s)) = Len(s) - 1
         /\ \A i \in 1..Len(s) - 1 : Front(s)[i] = s[i]
PROOF
  <1>1. PICK S : s \in Seq(S)
    BY DEF IsSeq
  <1>2. Len(s) \in Nat \ {0} /\ \A i \in 1..(Len(s) - 1) : s[i] \in S
    BY <1>1, EmptySeq
  <1>3. /\ SubSeq(s, 1, Len(s) - 1) \in Seq(S)
        /\ Len(SubSeq(s, 1, Len(s) - 1)) = IF 1 <= Len(s) - 1 THEN Len(s) - 1 - 1 + 1 ELSE 0
        /\ \A i \in 1..(Len(s) - 1) - 1 + 1 : SubSeq(s, 1, Len(s) - 1)[i] = s[1 + i - 1]
    BY <1>2, SubSeqProperties
  <1>4. Front(s) = SubSeq(s, 1, Len(s) - 1)
    BY DEF Front
  <1>5. \A i \in 1..Len(s) - 1 : Front(s)[i] = s[i]
    BY <1>2, <1>3, <1>4
  <1>6. Len(Front(s)) = Len(s) - 1
    <2>1. Len(Front(s)) = IF 1 <= Len(s) - 1 THEN Len(s) - 1 - 1 + 1 ELSE 0
      BY <1>3, <1>4
    <2>2. \A k \in Nat \ {0} : (IF 1 <= k - 1 THEN k - 1 - 1 + 1 ELSE 0) = k - 1
      OBVIOUS
    <2>3. QED BY <1>2, <2>1, <2>2
  <1>7. IsSeq(Front(s))
    BY <1>3, <1>4 DEF IsSeq
  <1>8. QED BY <1>2, <1>5, <1>6, <1>7

LEMMA PushedSet ==
  ASSUME NEW s, IsSeq(s), NEW e
  PROVE  ToSet(Append(s, e)) = ToSet(s) \cup {e}
PROOF
  <1>1. /\ DOMAIN s = 1..Len(s) /\ DOMAIN Append(s, e) = 1..(Len(s) + 1) /\ Len(s) \in Nat
    <2>1. PICK S : s \in Seq(S)
      BY DEF IsSeq
    <2>2. s \in Seq(S \cup {e}) /\ e \in S \cup {e}
      BY <2>1
    <2>3. QED BY <2>2
  <1>2. Append(s, e)[Len(s) + 1] = e /\ \A i \in 1..Len(s) : Append(s, e)[i] = s[i]
    BY Pushed
  <1>3. QED BY <1>1, <1>2 DEF ToSet

LEMMA EmptySet == ToSet(<<>>) = {}
BY DEF ToSet

(***************************************************************************)
(* Later moments.                                                          *)
(***************************************************************************)
Grows(m, n) ==
  /\ m.live \subseteq n.live /\ m.assumed \subseteq n.assumed /\ m.units \subseteq n.units
  /\ n.inputs = m.inputs /\ m.failures \subseteq n.failures
  /\ \A c \in n.failures : c \in m.failures \/ ~c.program \/ c.assumption \notin m.assumed

LEMMA LanguageStands ==
  ASSUME NEW l, NEW m, NEW n, Grows(m, n), LanguageAt(l, m)
  PROVE  LanguageAt(l, n)
BY DEF LanguageAt, Grows, Meanings

LEMMA PreparationStands ==
  ASSUME NEW p, NEW m, NEW n, Grows(m, n), PreparationAt(p, m)
  PROVE  PreparationAt(p, n)
PROOF
  <1>1. EntriesAt(m) \subseteq EntriesAt(n)
    BY DEF EntriesAt, Grows, Meanings
  <1>2. p.frames \in Seq(EntriesAt(n))
    BY <1>1 DEF PreparationAt
  <1>3. QED BY <1>2 DEF PreparationAt, Grows

Counted == IsSeq(committed) /\ lastUnit \in Nat /\ assumptions \in Nat /\ shape.frames \in Nat

(* From one state to the next: nothing committed is forgotten, and a new   *)
(* failure of a program has a new assumption.                              *)
EvidenceGrows ==
  /\ Counted /\ Counted' /\ shape' = shape /\ lastUnit <= lastUnit' /\ assumptions <= assumptions'
  /\ ToSet(committed) \subseteq ToSet(committed)'
  /\ \A c \in ToSet(committed)' :
       c \in ToSet(committed) \/ ~c.program \/ c.assumption = assumptions + 1

LEMMA MomentGrows ==
  ASSUME EvidenceGrows, NEW s \in Nat, NEW t \in Nat, s <= t, failed' \cap (1..s) \subseteq failed
  PROVE  Grows(Moment(s), Moment(t)')
BY DEF EvidenceGrows, Moment, Grows, Counted

(***************************************************************************)
(* Restoring what an attempt saved.                                        *)
(***************************************************************************)
LEMMA InvalidatedShape ==
  ASSUME NEW m, NEW defs \in Meanings(m)
  PROVE  /\ Invalidated(defs) \in Meanings(m)
         /\ \A n \in Names : Invalidated(defs)[n] \in {Undefined, InDoubt}
         /\ \A n \in Names : Invalidated(defs)[n] \notin Nat
BY RecoveryAssumption DEF Invalidated, Meanings

LEMMA RestoredShape ==
  ASSUME EvidenceStands, NEW l, NEW p, NEW s, LanguageAt(l, Moment(s)), PreparationAt(p, Moment(s))
  PROVE  /\ LanguageAt(Reconciled(l, p).language, Moment(s))
         /\ PreparationAt(Reconciled(l, p).prep, Moment(s))
         /\ \A c \in ToSet(committed) : InForce(c, Reconciled(l, p).language, Reconciled(l, p).prep)
PROOF
  <1> DEFINE C == ToSet(committed)
             ids == { c.assumption : c \in C } \ {None}
             missing == ids \ l.contexts
             r == Reconciled(l, p)
  <1>1. /\ r.language = [defs     |-> IF missing = {} THEN l.defs ELSE Invalidated(l.defs),
                         contexts |-> l.contexts \cup ids,
                         loads    |-> l.loads \/ missing # {},
                         units    |-> l.units \cup { c.unit : c \in C },
                         causes   |-> l.causes \cup { c.unit : c \in C }]
        /\ r.prep = [p EXCEPT !.deps = @ \cup { [item |-> c.item, unit |-> c.unit] : c \in C },
                              !.rows = FoldLeft(Keep, @, committed)]
    BY DEF Reconciled
  <1>2. /\ r.language.contexts = l.contexts \cup ids /\ r.language.loads = (l.loads \/ missing # {})
        /\ r.language.units = l.units \cup { c.unit : c \in C }
        /\ r.language.causes = l.causes \cup { c.unit : c \in C }
        /\ r.language.defs = IF missing = {} THEN l.defs ELSE Invalidated(l.defs)
    BY <1>1
  <1>3. /\ Moment(s).assumed = 1..assumptions /\ Moment(s).units = 1..lastUnit /\ Moment(s).failures = C
    BY DEF Moment
  <1>4. ASSUME NEW c \in C
        PROVE  /\ c.unit \in 1..lastUnit
               /\ c.program => c.assumption \in ids
               /\ c.assumption \in ids => c.assumption \in 1..assumptions
    <2>1. c.unit \in 1..lastUnit /\ c.assumption \in IF c.program THEN 1..assumptions ELSE {None}
      BY DEF EvidenceStands
    <2>2. c.assumption \in ids <=> c.assumption # None
      OBVIOUS
    <2> HIDE DEF C, ids
    <2>3. \A a \in 1..assumptions : a # None
      BY DEF None
    <2>4. CASE c.program
      BY <2>1, <2>2, <2>3, <2>4
    <2>5. CASE ~c.program
      BY <2>1, <2>2, <2>5
    <2>6. QED BY <2>1, <2>4, <2>5
  <1>5. ids \subseteq 1..assumptions /\ { c.unit : c \in C } \subseteq 1..lastUnit
    BY <1>4
  <1> HIDE DEF C, r, missing
  <1>6. /\ l \in [defs: Meanings(Moment(s)), contexts: SUBSET (1..assumptions), loads: BOOLEAN,
                  units: SUBSET (1..lastUnit), causes: SUBSET (1..lastUnit)]
        /\ l.contexts # {} => l.loads
        /\ ~Moment(s).inputs =>
             \A n \in Names, c \in C :
               c.program /\ c.assumption \in l.contexts /\ l.defs[n] \in Nat => c.unit < l.defs[n]
    BY <1>3 DEF LanguageAt
  <1>7. /\ Invalidated(l.defs) \in Meanings(Moment(s))
        /\ \A n \in Names : Invalidated(l.defs)[n] \notin Nat
    BY <1>6, InvalidatedShape
  <1>8. LanguageAt(r.language, Moment(s))
    <2>1. r.language \in [defs: Meanings(Moment(s)), contexts: SUBSET (1..assumptions), loads: BOOLEAN,
                          units: SUBSET (1..lastUnit), causes: SUBSET (1..lastUnit)]
      BY <1>1, <1>5, <1>6, <1>7
    <2>2. r.language.contexts # {} => r.language.loads
      BY <1>2, <1>6 DEF missing
    <2>3. ASSUME ~Moment(s).inputs, NEW n \in Names, NEW c \in C, c.program,
                 c.assumption \in r.language.contexts, r.language.defs[n] \in Nat
          PROVE  c.unit < r.language.defs[n]
      <3>1. missing = {} /\ r.language.defs = l.defs
        BY <1>2, <1>7, <2>3
      <3>2. c.assumption \in l.contexts
        BY <1>4, <3>1, <2>3 DEF missing
      <3>3. QED BY <1>6, <2>3, <3>1, <3>2
    <2>4. QED BY <1>3, <2>1, <2>2, <2>3 DEF LanguageAt
  <1>9. /\ r.prep = [deps   |-> p.deps \cup { [item |-> c.item, unit |-> c.unit] : c \in C },
                     rows   |-> FoldLeft(Keep, p.rows, committed),
                     frames |-> p.frames]
    <2>1. p = [deps |-> p.deps, rows |-> p.rows, frames |-> p.frames]
      BY DEF PreparationAt
    <2> DEFINE rows == FoldLeft(Keep, p.rows, committed)
               deps == p.deps \cup { [item |-> c.item, unit |-> c.unit] : c \in C }
    <2>2. r.prep = [p EXCEPT !.deps = deps, !.rows = rows]
      BY <1>1
    <2> HIDE DEF rows, deps
    <2>3. r.prep = [deps |-> deps, rows |-> rows, frames |-> p.frames]
      BY <2>1, <2>2
    <2>4. QED BY <2>3 DEF rows, deps
  <1>10. PreparationAt(r.prep, Moment(s))
    <2> DEFINE rows == FoldLeft(Keep, p.rows, committed)
    <2>1. r.prep = [deps   |-> p.deps \cup { [item |-> c.item, unit |-> c.unit] : c \in C },
                    rows   |-> rows, frames |-> p.frames]
      BY <1>9
    <2> HIDE DEF rows
    <2>2. r.prep = [deps |-> r.prep.deps, rows |-> r.prep.rows, frames |-> r.prep.frames]
      BY <2>1
    <2>3. ASSUME NEW d \in r.prep.deps
          PROVE  d.unit \in Moment(s).live \/ \E c \in C : c.item = d.item
      BY <1>3, <2>1 DEF PreparationAt
    <2>4. r.prep.frames = p.frames
      BY <2>1
    <2>5. QED BY <1>3, <2>2, <2>3, <2>4 DEF PreparationAt
  <1>11. ASSUME NEW c \in C
         PROVE  InForce(c, r.language, r.prep)
    <2>1. [item |-> c.item, unit |-> c.unit] \in r.prep.deps
      BY <1>9
    <2>2. c.unit \in r.language.units \cap r.language.causes
      BY <1>2
    <2>3. ASSUME c.program
          PROVE  c.assumption \in r.language.contexts /\ r.language.loads
      BY <1>2, <1>4, <1>6, <2>3 DEF missing
    <2>4. QED BY <2>1, <2>2, <2>3 DEF InForce
  <1>12. QED BY <1>8, <1>10, <1>11 DEF C, r

(***************************************************************************)
(* The attempts that stay open.                                            *)
(***************************************************************************)
LEMMA AttemptStands ==
  ASSUME EvidenceGrows, NEW a, Stands(a), failed' \cap (1..a.since) \subseteq failed
  PROVE  Stands(a)'
PROOF
  <1>1. a.since \in Nat /\ a.since \in 0..lastUnit'
    BY DEF Stands, EvidenceGrows, Counted
  <1>2. Grows(Moment(a.since), Moment(a.since)')
    BY <1>1, MomentGrows
  <1>3. LanguageAt(a.language, Moment(a.since)) /\ PreparationAt(a.prep, Moment(a.since))
    BY DEF Stands
  <1>4. LanguageAt(a.language, Moment(a.since)') /\ PreparationAt(a.prep, Moment(a.since)')
    BY <1>2, <1>3, LanguageStands, PreparationStands
  <1>5. QED BY <1>1, <1>3, <1>4 DEF Stands

LEMMA AttemptsKept ==
  ASSUME IsSeq(attempts), AttemptsStand, EvidenceGrows, UNCHANGED <<attempts, phase>>,
         \A i \in 1..Len(attempts) : failed' \cap (1..attempts[i].since) \subseteq failed
  PROVE  AttemptsStand'
PROOF
  <1>1. ASSUME NEW i \in 1..Len(attempts')
        PROVE  Stands(attempts[i])'
    <2>1. Stands(attempts[i]) /\ failed' \cap (1..attempts[i].since) \subseteq failed
      BY <1>1 DEF AttemptsStand
    <2>2. QED BY <2>1, AttemptStands
  <1>2. QED BY <1>1 DEF AttemptsStand

LEMMA AttemptsPopped ==
  ASSUME IsSeq(attempts), AttemptsStand, EvidenceGrows, attempts # <<>>,
         attempts' = Front(attempts), phase' = phase, failed' \cap (1..Top.since) \subseteq failed
  PROVE  /\ IsSeq(attempts') /\ AttemptsStand' /\ ~InCommand'
PROOF
  <1> DEFINE n == Len(attempts)
  <1>1. /\ IsSeq(attempts') /\ n \in Nat \ {0} /\ Len(attempts') = n - 1
        /\ \A i \in 1..n - 1 : attempts'[i] = attempts[i]
    BY Popped
  <1>2. ASSUME NEW i \in 1..n - 1
        PROVE  /\ Stands(attempts[i]) /\ attempts[i].unit = None
               /\ \A j \in 1..i : attempts[j].since <= attempts[i].since
               /\ attempts[i].since <= Top.since /\ attempts[i].since \in Nat /\ Top.since \in Nat
    <2>1. i \in 1..n /\ i # n /\ n \in 1..n /\ i \in 1..n
      BY <1>1
    <2>2. Stands(attempts[i]) /\ Stands(Top)
      BY <2>1 DEF AttemptsStand, Top
    <2>3. attempts[i].since <= Top.since
      BY <2>1 DEF AttemptsStand, Top
    <2>4. QED BY <2>1, <2>2, <2>3 DEF AttemptsStand, Stands
  <1>3. ASSUME NEW i \in 1..n - 1
        PROVE  Stands(attempts[i])'
    <2>1. failed' \cap (1..attempts[i].since) \subseteq failed
      <3>1. 1..attempts[i].since \subseteq 1..Top.since
        BY <1>2
      <3>2. QED BY <3>1
    <2>2. QED BY <1>1, <1>2, <2>1, AttemptStands
  <1>4. AttemptsStand'
    BY <1>1, <1>2, <1>3 DEF AttemptsStand
  <1>5. ~InCommand'
    <2>1. CASE n = 1
      BY <1>1, <2>1 DEF InCommand
    <2>2. CASE n # 1
      <3>1. n - 1 \in 1..n - 1
        BY <1>1, <2>2
      <3>2. QED BY <1>1, <1>2, <3>1 DEF InCommand, Top
    <2>3. QED BY <2>1, <2>2
  <1>6. QED BY <1>1, <1>4, <1>5

LEMMA AttemptsPushed ==
  ASSUME IsSeq(attempts), AttemptsStand, EvidenceGrows, ~InCommand, NEW a,
         attempts' = Append(attempts, a), phase = "reading", phase' = phase, failed' = failed,
         Stands(a)', a.since = lastUnit
  PROVE  /\ IsSeq(attempts') /\ AttemptsStand' /\ attempts' # <<>> /\ Top' = a
PROOF
  <1> DEFINE n == Len(attempts)
  <1>1. /\ IsSeq(attempts') /\ n \in Nat /\ Len(attempts') = n + 1 /\ attempts'[n + 1] = a
        /\ \A i \in 1..n : attempts'[i] = attempts[i]
        /\ attempts' # <<>>
    BY Pushed
  <1>2. Top' = a
    BY <1>1 DEF Top
  <1>3. ASSUME NEW i \in 1..n
        PROVE  /\ Stands(attempts[i])' /\ attempts[i].unit = None
               /\ \A j \in 1..i : attempts[j].since <= attempts[i].since
               /\ attempts[i].since <= a.since
    <2>1. Stands(attempts[i]) /\ \A j \in 1..i : attempts[j].since <= attempts[i].since
      BY DEF AttemptsStand
    <2>2. Stands(attempts[i])'
      BY <1>1, <2>1, AttemptStands
    <2>3. attempts[i].unit = None
      <3>1. attempts # <<>>
        BY <1>1
      <3>2. QED BY <3>1 DEF AttemptsStand, InCommand, Top
    <2>4. attempts[i].since <= a.since
      BY <2>1 DEF Stands
    <2>5. QED BY <2>1, <2>2, <2>3, <2>4
  <1>4. AttemptsStand'
    <2>1. ASSUME NEW i \in 1..n + 1
          PROVE  /\ Stands(attempts[i])'
                 /\ i # n + 1 => attempts'[i].unit = None
                 /\ \A j \in 1..i : attempts'[j].since <= attempts'[i].since
      <3>1. CASE i \in 1..n
        BY <1>1, <1>3, <3>1
      <3>2. CASE i = n + 1
        <4>1. Stands(attempts[i])'
          BY <1>1, <3>2
        <4>2. a.since <= a.since
          BY DEF EvidenceGrows, Counted
        <4>3. QED BY <1>1, <1>3, <3>2, <4>1, <4>2
      <3>3. QED BY <1>1, <3>1, <3>2
    <2>2. phase' # "materializing"
      OBVIOUS
    <2>3. QED BY <1>1, <2>1, <2>2 DEF AttemptsStand
  <1>5. QED BY <1>1, <1>2, <1>4

(***************************************************************************)
(* The invariant.                                                          *)
(***************************************************************************)
Inv == IsSeq(attempts) /\ Counted /\ RecoveryIsSound

Holds(s, l, p) ==
  /\ s \in 0..lastUnit /\ LanguageAt(l, Moment(s)) /\ PreparationAt(p, Moment(s))
  /\ \A c \in ToSet(committed) : InForce(c, l, p)

LEMMA NowHolds == Inv => Holds(lastUnit, language, prep)
BY DEF Inv, RecoveryIsSound, FailuresSurvive, Holds, Counted

LEMMA TopStands ==
  ASSUME Inv, attempts # <<>>
  PROVE  Stands(Top) /\ Top.since \in 0..lastUnit /\ Len(attempts) \in 1..Len(attempts)
PROOF
  <1>1. Len(attempts) \in 1..Len(attempts)
    BY Popped DEF Inv
  <1>2. QED BY <1>1 DEF Inv, RecoveryIsSound, AttemptsStand, Top, Stands

LEMMA TopRestored ==
  ASSUME Inv, attempts # <<>>
  PROVE  Holds(Top.since, RolledBack(Top).language, RolledBack(Top).prep)
PROOF
  <1>1. EvidenceStands
    BY DEF Inv, RecoveryIsSound
  <1>2. LanguageAt(Top.language, Moment(Top.since)) /\ PreparationAt(Top.prep, Moment(Top.since))
    BY TopStands DEF Stands
  <1>3. QED BY <1>1, <1>2, TopStands, RestoredShape DEF Holds, RolledBack

(* What an attempt undid is younger than what it saved.                    *)
LEMMA UndoneIsYounger ==
  ASSUME Inv, attempts # <<>>, failed' = failed \cup Undone(Top), lastUnit' = lastUnit
  PROVE  failed' \cap (1..Top.since) \subseteq failed /\ failed' \subseteq 1..lastUnit'
PROOF
  <1>1. Top.since \in 0..lastUnit /\ lastUnit \in Nat /\ failed \subseteq 1..lastUnit
    BY TopStands DEF Inv, Counted, RecoveryIsSound, EvidenceStands
  <1>2. (Top.since + 1)..lastUnit \subseteq 1..lastUnit /\ ((Top.since + 1)..lastUnit) \cap (1..Top.since) = {}
    BY <1>1
  <1>3. QED BY <1>1, <1>2 DEF Undone

LEMMA EvidenceSame ==
  ASSUME Inv, UNCHANGED <<assumptions, committed, shape>>, lastUnit' \in Nat, lastUnit <= lastUnit'
  PROVE  EvidenceGrows
BY DEF Inv, Counted, EvidenceGrows

LEMMA EvidenceStays ==
  ASSUME Inv, EvidenceGrows, committed' = committed, failed' \subseteq 1..lastUnit'
  PROVE  EvidenceStands'
PROOF
  <1>1. 1..lastUnit \subseteq 1..lastUnit' /\ 1..assumptions \subseteq 1..assumptions'
    BY DEF EvidenceGrows, Counted
  <1>2. QED BY <1>1 DEF Inv, RecoveryIsSound, EvidenceStands

(* A state of an earlier moment is one of the present moment.              *)
LEMMA HeldOn ==
  ASSUME EvidenceGrows, NEW s, NEW l, NEW p, Holds(s, l, p), failed' \cap (1..s) \subseteq failed
  PROVE  LanguageAt(l, Moment(lastUnit)') /\ PreparationAt(p, Moment(lastUnit)')
PROOF
  <1>1. s \in Nat /\ lastUnit' \in Nat /\ s <= lastUnit'
    BY DEF Holds, EvidenceGrows, Counted
  <1>2. Grows(Moment(s), Moment(lastUnit)')
    BY <1>1, MomentGrows
  <1>3. QED BY <1>2, LanguageStands, PreparationStands DEF Holds

LEMMA InvNext ==
  ASSUME EvidenceGrows, IsSeq(attempts'), AttemptsStand', CommandIsLast', EvidenceStands',
         LanguageAt(language', Moment(lastUnit)'), PreparationAt(prep', Moment(lastUnit)'),
         \A c \in ToSet(committed)' : InForce(c, language', prep')
  PROVE  Inv'
BY DEF Inv, RecoveryIsSound, EvidenceGrows, FailuresSurvive

(***************************************************************************)
(* The steps of a command that fails nothing.                              *)
(***************************************************************************)
LEMMA CommandStep ==
  ASSUME Inv, InCommand,
         UNCHANGED <<attempts, lastUnit, assumptions, committed, phase, failed, shape>>,
         LanguageAt(language', Moment(lastUnit)), PreparationAt(prep', Moment(lastUnit)),
         \A c \in ToSet(committed) : InForce(c, language', prep')
  PROVE  Inv'
PROOF
  <1>1. EvidenceGrows
    BY EvidenceSame DEF Inv, Counted
  <1>2. EvidenceStands' /\ CommandIsLast'
    BY DEF Inv, RecoveryIsSound, EvidenceStands, CommandIsLast, InCommand, Top
  <1>3. AttemptsStand' /\ IsSeq(attempts')
    BY <1>1, AttemptsKept DEF Inv, RecoveryIsSound
  <1>4. Moment(lastUnit)' = Moment(lastUnit) /\ ToSet(committed)' = ToSet(committed)
    BY DEF Moment
  <1>5. QED BY <1>1, <1>2, <1>3, <1>4, InvNext

LEMMA InCommandShape ==
  ASSUME Inv, InCommand
  PROVE  /\ Top.unit = lastUnit /\ lastUnit \in Moment(lastUnit).live
         /\ \A c \in ToSet(committed) : c.unit < lastUnit
PROOF
  <1>1. /\ Top.unit = lastUnit /\ Top.since < lastUnit /\ lastUnit \notin failed
        /\ \A c \in ToSet(committed) : c.unit < lastUnit
    BY DEF Inv, RecoveryIsSound, CommandIsLast
  <1>2. Top.since \in Nat /\ lastUnit \in Nat
    BY TopStands DEF InCommand, Inv, Counted
  <1>3. QED BY <1>1, <1>2 DEF Moment

LEMMA DefineStep ==
  ASSUME Inv, NEW n \in Names, Define(n)
  PROVE  Inv'
PROOF
  <1>1. /\ InCommand /\ language' = [language EXCEPT !.defs[n] = Top.unit] /\ prep' = prep
        /\ UNCHANGED <<attempts, lastUnit, assumptions, committed, phase, failed, shape>>
    BY DEF Define
  <1>2. Holds(lastUnit, language, prep)
    BY NowHolds
  <1>3. LanguageAt(language, Moment(lastUnit))
    BY <1>2 DEF Holds
  <1> DEFINE m == Moment(lastUnit)
  <1>4. /\ Top.unit = lastUnit /\ lastUnit \in m.live /\ m.failures = ToSet(committed)
        /\ \A c \in ToSet(committed) : c.unit < lastUnit
    BY <1>1, InCommandShape DEF Moment
  <1> HIDE DEF m
  <1>5. language \in [defs: Meanings(m), contexts: SUBSET m.assumed, loads: BOOLEAN,
                      units: SUBSET m.units, causes: SUBSET m.units]
    BY <1>3 DEF LanguageAt, m
  <1>6. /\ language' \in [defs: Meanings(m), contexts: SUBSET m.assumed, loads: BOOLEAN,
                          units: SUBSET m.units, causes: SUBSET m.units]
        /\ language'.contexts = language.contexts /\ language'.loads = language.loads
        /\ language'.units = language.units /\ language'.causes = language.causes
        /\ \A k \in Names : language'.defs[k] = IF k = n THEN lastUnit ELSE language.defs[k]
    BY <1>1, <1>4, <1>5 DEF Meanings
  <1>7. LanguageAt(language', m)
    BY <1>3, <1>4, <1>6 DEF LanguageAt, m
  <1>8. \A c \in ToSet(committed) : InForce(c, language', prep')
    BY <1>1, <1>2, <1>6 DEF Holds, InForce
  <1>9. PreparationAt(prep', m)
    BY <1>1, <1>2 DEF Holds, m
  <1>10. QED BY <1>1, <1>7, <1>8, <1>9, CommandStep DEF m

(* New dependencies of the command, new requirements.                      *)
LEMMA PreparationChanges ==
  ASSUME NEW m, NEW p, PreparationAt(p, m), NEW deps, NEW rows,
         \A d \in deps :
           d \in p.deps \/ d.unit \in m.live \/ \E c \in m.failures : c.item = d.item
  PROVE  PreparationAt([deps |-> deps, rows |-> rows, frames |-> p.frames], m)
BY DEF PreparationAt

LEMMA PreparationShape ==
  ASSUME NEW m, NEW p, PreparationAt(p, m), NEW e, NEW g
  PROVE  /\ [p EXCEPT !.deps = e] = [deps |-> e, rows |-> p.rows, frames |-> p.frames]
         /\ [p EXCEPT !.deps = e, !.rows = g] = [deps |-> e, rows |-> g, frames |-> p.frames]
         /\ [p EXCEPT !.rows = e] = [deps |-> p.deps, rows |-> e, frames |-> p.frames]
         /\ [p EXCEPT !.frames = e] = [deps |-> p.deps, rows |-> p.rows, frames |-> e]
PROOF
  <1>1. PICK d, r, f : p = [deps |-> d, rows |-> r, frames |-> f]
    BY DEF PreparationAt
  <1>2. p.deps = d /\ p.rows = r /\ p.frames = f
    BY <1>1
  <1>3. [p EXCEPT !.deps = e] = [deps |-> e, rows |-> r, frames |-> f]
    BY <1>1
  <1>4. [p EXCEPT !.rows = e] = [deps |-> d, rows |-> e, frames |-> f]
    BY <1>1
  <1>5. [p EXCEPT !.frames = e] = [deps |-> d, rows |-> r, frames |-> e]
    BY <1>1
  <1>6. [p EXCEPT !.deps = e, !.rows = g] = [deps |-> e, rows |-> g, frames |-> f]
    <2>1. [p EXCEPT !.deps = e, !.rows = g] =
            [x \in DOMAIN p |-> IF x = "rows" THEN g ELSE IF x = "deps" THEN e ELSE p[x]]
      OBVIOUS
    <2>2. QED BY <1>1, <2>1
  <1>7. QED BY <1>2, <1>3, <1>4, <1>5, <1>6

LEMMA EdgeStep ==
  ASSUME Inv, Edge \/ Require
  PROVE  Inv'
PROOF
  <1>1. /\ InCommand /\ language' = language
        /\ UNCHANGED <<attempts, lastUnit, assumptions, committed, phase, failed, shape>>
    BY DEF Edge, Require
  <1>2. Holds(lastUnit, language, prep)
    BY NowHolds
  <1>3. Top.unit = lastUnit /\ lastUnit \in Moment(lastUnit).live
    BY <1>1, InCommandShape
  <1>4. PreparationAt(prep', Moment(lastUnit)) /\ prep.deps \subseteq prep'.deps
    <2>1. CASE Edge
      <3> DEFINE d == [item |-> serial + 1, unit |-> Top.unit]
      <3>1. prep' = [prep EXCEPT !.deps = prep.deps \cup {d}] /\ d.unit \in Moment(lastUnit).live
        BY <1>3, <2>1 DEF Edge
      <3> HIDE DEF d
      <3>2. prep' = [deps |-> prep.deps \cup {d}, rows |-> prep.rows, frames |-> prep.frames]
        BY <1>2, <3>1, PreparationShape DEF Holds
      <3>3. \A e \in prep.deps \cup {d} : e \in prep.deps \/ e.unit \in Moment(lastUnit).live
        BY <3>1
      <3>4. PreparationAt(prep', Moment(lastUnit))
        BY <1>2, <3>2, <3>3, PreparationChanges DEF Holds
      <3>5. QED BY <3>2, <3>4
    <2>2. CASE Require
      <3> DEFINE rows == Required(prep.rows, Top.unit, None)
      <3>1. prep' = [prep EXCEPT !.rows = rows]
        BY <2>2 DEF Require
      <3> HIDE DEF rows
      <3>2. prep' = [deps |-> prep.deps, rows |-> rows, frames |-> prep.frames]
        BY <1>2, <3>1, PreparationShape DEF Holds
      <3>3. QED BY <1>2, <3>2, PreparationChanges DEF Holds
    <2>3. QED BY <2>1, <2>2
  <1>5. \A c \in ToSet(committed) : InForce(c, language', prep')
    BY <1>1, <1>2, <1>4 DEF Holds, InForce
  <1>6. QED BY <1>1, <1>2, <1>4, <1>5, CommandStep DEF Holds

LEMMA CommitStep ==
  ASSUME Inv, Commit \/ CommitEnclosing
  PROVE  Inv'
PROOF
  <1>1. /\ attempts # <<>> /\ attempts' = Front(attempts)
        /\ UNCHANGED <<language, prep, lastUnit, assumptions, committed, phase, failed, shape>>
    BY DEF Commit, CommitEnclosing, InCommand
  <1>2. EvidenceGrows /\ EvidenceStands' /\ Moment(lastUnit)' = Moment(lastUnit)
    BY <1>1, EvidenceSame DEF Inv, Counted, RecoveryIsSound, EvidenceStands, Moment
  <1>3. IsSeq(attempts') /\ AttemptsStand' /\ ~InCommand'
    BY <1>1, <1>2, AttemptsPopped DEF Inv, RecoveryIsSound
  <1>4. CommandIsLast'
    BY <1>3 DEF CommandIsLast
  <1>5. QED BY <1>1, <1>2, <1>3, <1>4, NowHolds, InvNext DEF Holds

LEMMA OpenedStands ==
  ASSUME Inv, EvidenceGrows, failed' = failed, NEW u, NEW a, a = Opened(u)
  PROVE  Stands(a)' /\ a.unit = u /\ a.since = lastUnit
PROOF
  <1>1. a = [unit |-> u, since |-> lastUnit, language |-> language, prep |-> prep]
    BY DEF Opened
  <1>2. a.unit = u /\ a.since = lastUnit /\ a.language = language /\ a.prep = prep
    BY <1>1
  <1>3. Stands(a)
    BY <1>1, <1>2, NowHolds DEF Stands, Holds
  <1>4. QED BY <1>2, <1>3, AttemptStands

LEMMA EncloseStep ==
  ASSUME Inv, Enclose
  PROVE  Inv'
PROOF
  <1>1. PICK a : a = Opened(None)
    OBVIOUS
  <1>2. /\ phase = "reading" /\ attempts = <<>> /\ attempts' = <<a>>
        /\ UNCHANGED <<language, prep, lastUnit, assumptions, committed, phase, failed, shape>>
    BY <1>1 DEF Enclose
  <1>3. EvidenceGrows /\ EvidenceStands' /\ Moment(lastUnit)' = Moment(lastUnit)
    BY <1>2, EvidenceSame DEF Inv, Counted, RecoveryIsSound, EvidenceStands, Moment
  <1>4. Stands(a)' /\ a.unit = None /\ a.since = lastUnit
    BY <1>1, <1>2, <1>3, OpenedStands
  <1>5. ~InCommand /\ attempts' = Append(attempts, a)
    BY <1>2 DEF InCommand
  <1>6. IsSeq(attempts') /\ AttemptsStand' /\ Top' = a
    BY <1>2, <1>3, <1>4, <1>5, AttemptsPushed DEF Inv, RecoveryIsSound
  <1>7. CommandIsLast'
    BY <1>4, <1>6 DEF CommandIsLast, InCommand
  <1>8. QED BY <1>2, <1>3, <1>6, <1>7, NowHolds, InvNext DEF Holds

(* A unit is registered: nothing else of the language changes.             *)
UnitsAdded(new, l) ==
  /\ new.contexts = l.contexts /\ new.loads = l.loads /\ new.causes = l.causes
  /\ new.defs = l.defs /\ l.units \subseteq new.units

LEMMA Registered ==
  ASSUME NEW l, NEW m, LanguageAt(l, m), NEW units, l.units \subseteq units, units \subseteq m.units
  PROVE  /\ LanguageAt([l EXCEPT !.units = units], m)
         /\ UnitsAdded([l EXCEPT !.units = units], l)
PROOF
  <1>1. l \in [defs: Meanings(m), contexts: SUBSET m.assumed, loads: BOOLEAN,
               units: SUBSET m.units, causes: SUBSET m.units]
    BY DEF LanguageAt
  <1>2. /\ [l EXCEPT !.units = units]
             \in [defs: Meanings(m), contexts: SUBSET m.assumed, loads: BOOLEAN,
                 units: SUBSET m.units, causes: SUBSET m.units]
        /\ UnitsAdded([l EXCEPT !.units = units], l)
    BY <1>1 DEF UnitsAdded
  <1>3. QED BY <1>2 DEF LanguageAt, UnitsAdded

LEMMA DispatchStep ==
  ASSUME Inv, Dispatch
  PROVE  Inv'
PROOF
  <1>1. PICK a : a = Opened(lastUnit + 1)
    OBVIOUS
  <1>2. /\ phase = "reading" /\ ~InCommand /\ attempts' = Append(attempts, a)
        /\ lastUnit' = lastUnit + 1
        /\ language' = [language EXCEPT !.units = language.units \cup {lastUnit + 1}]
        /\ UNCHANGED <<prep, assumptions, committed, phase, failed, shape>>
    BY <1>1 DEF Dispatch
  <1>3. /\ lastUnit \in Nat /\ failed \subseteq 1..lastUnit
        /\ \A c \in ToSet(committed) : c.unit \in 1..lastUnit
    BY DEF Inv, Counted, RecoveryIsSound, EvidenceStands
  <1>4. EvidenceGrows /\ EvidenceStands'
    <2>1. EvidenceGrows
      BY <1>2, <1>3, EvidenceSame
    <2>2. failed' \subseteq 1..lastUnit'
      BY <1>2, <1>3
    <2>3. QED BY <1>2, <2>1, <2>2, EvidenceStays
  <1>5. Stands(a)' /\ a.unit = lastUnit + 1 /\ a.since = lastUnit
    BY <1>1, <1>2, <1>4, OpenedStands
  <1>6. IsSeq(attempts') /\ AttemptsStand' /\ Top' = a
    BY <1>2, <1>4, <1>5, AttemptsPushed DEF Inv, RecoveryIsSound
  <1>7. CommandIsLast'
    <2>1. Top'.unit = lastUnit' /\ Top'.since < lastUnit' /\ lastUnit' \notin failed'
      BY <1>2, <1>3, <1>5, <1>6
    <2>2. \A c \in ToSet(committed)' : c.unit < lastUnit'
      BY <1>2, <1>3
    <2>3. QED BY <2>1, <2>2 DEF CommandIsLast
  <1>8. LanguageAt(language, Moment(lastUnit)') /\ PreparationAt(prep, Moment(lastUnit)')
    BY <1>2, <1>4, NowHolds, HeldOn
  <1>9. lastUnit + 1 \in (Moment(lastUnit).units)'
    BY <1>2, <1>3 DEF Moment
  <1>10. UnitsAdded(language', language) /\ LanguageAt(language', Moment(lastUnit)')
    <2>1. language.units \cup {lastUnit + 1} \subseteq (Moment(lastUnit).units)'
      BY <1>8, <1>9 DEF LanguageAt
    <2>2. QED BY <1>2, <1>8, <2>1, Registered
  <1>11. \A c \in ToSet(committed)' : InForce(c, language', prep')
    BY <1>2, <1>10, NowHolds DEF Holds, InForce, UnitsAdded
  <1>12. QED BY <1>2, <1>4, <1>6, <1>7, <1>8, <1>10, <1>11, InvNext

LEMMA FramesChange ==
  ASSUME NEW m, NEW p, PreparationAt(p, m), NEW frames \in Seq(EntriesAt(m)), m.inputs \/ frames = <<>>
  PROVE  PreparationAt([deps |-> p.deps, rows |-> p.rows, frames |-> frames], m)
BY DEF PreparationAt

LEMMA EnterInputStep ==
  ASSUME Inv, EnterInput
  PROVE  Inv'
PROOF
  <1> DEFINE entry == [defs |-> language.defs, contexts |-> language.contexts, loads |-> language.loads]
             frames == Append(prep.frames, entry)
  <1>1. /\ attempts # <<>> /\ attempts' = Front(attempts) /\ Len(prep.frames) < shape.frames
        /\ prep' = [prep EXCEPT !.frames = frames]
        /\ UNCHANGED <<language, lastUnit, assumptions, committed, phase, failed, shape>>
    BY DEF EnterInput, InCommand
  <1>2. EvidenceGrows /\ EvidenceStands' /\ Moment(lastUnit)' = Moment(lastUnit)
    BY <1>1, EvidenceSame DEF Inv, Counted, RecoveryIsSound, EvidenceStands, Moment
  <1>3. IsSeq(attempts') /\ AttemptsStand' /\ ~InCommand'
    BY <1>1, <1>2, AttemptsPopped DEF Inv, RecoveryIsSound
  <1>4. CommandIsLast'
    BY <1>3 DEF CommandIsLast
  <1>5. LanguageAt(language, Moment(lastUnit)) /\ PreparationAt(prep, Moment(lastUnit))
    BY NowHolds DEF Holds
  <1>6. entry \in EntriesAt(Moment(lastUnit))
    BY <1>5 DEF LanguageAt, EntriesAt
  <1>7. frames \in Seq(EntriesAt(Moment(lastUnit)))
    <2> HIDE DEF entry
    <2>1. QED BY <1>5, <1>6 DEF PreparationAt
  <1>8. Moment(lastUnit).inputs
    <2>1. Len(prep.frames) \in Nat /\ shape.frames \in Nat
      BY <1>5 DEF PreparationAt, Inv, Counted
    <2>2. shape.frames # 0
      BY <1>1, <2>1
    <2>3. QED BY <2>2 DEF Moment
  <1> HIDE DEF frames
  <1>9. prep' = [deps |-> prep.deps, rows |-> prep.rows, frames |-> frames]
    BY <1>1, <1>5, PreparationShape
  <1>10. PreparationAt(prep', Moment(lastUnit))
    BY <1>5, <1>7, <1>8, <1>9, FramesChange
  <1>11. \A c \in ToSet(committed)' : InForce(c, language', prep')
    BY <1>1, <1>9, NowHolds DEF Holds, InForce
  <1>12. QED BY <1>1, <1>2, <1>3, <1>4, <1>5, <1>10, <1>11, InvNext

LEMMA FrontOfSeq ==
  ASSUME NEW S, NEW s \in Seq(S), s # <<>>
  PROVE  Front(s) \in Seq(S) /\ Last(s) \in S
PROOF
  <1>1. Len(s) \in Nat \ {0} /\ \A i \in 1..(Len(s) - 1) : s[i] \in S
    BY EmptySeq
  <1>2. SubSeq(s, 1, Len(s) - 1) \in Seq(S)
    BY <1>1, SubSeqProperties
  <1>3. QED BY <1>1, <1>2 DEF Front, Last

LEMMA LeaveInputStep ==
  ASSUME Inv, LeaveInput
  PROVE  Inv'
PROOF
  <1>1. /\ ~InCommand /\ prep.frames # <<>> /\ prep' = [prep EXCEPT !.frames = Front(prep.frames)]
        /\ UNCHANGED <<language, attempts, lastUnit, assumptions, committed, phase, failed, shape>>
    BY DEF LeaveInput
  <1>2. EvidenceGrows /\ EvidenceStands' /\ CommandIsLast' /\ Moment(lastUnit)' = Moment(lastUnit)
    BY <1>1, EvidenceSame
       DEF Inv, Counted, RecoveryIsSound, EvidenceStands, Moment, CommandIsLast, InCommand, Top
  <1>3. IsSeq(attempts') /\ AttemptsStand'
    BY <1>1, <1>2, AttemptsKept DEF Inv, RecoveryIsSound
  <1>4. LanguageAt(language, Moment(lastUnit)) /\ PreparationAt(prep, Moment(lastUnit))
    BY NowHolds DEF Holds
  <1>5. Front(prep.frames) \in Seq(EntriesAt(Moment(lastUnit))) /\ Moment(lastUnit).inputs
    BY <1>1, <1>4, FrontOfSeq DEF PreparationAt
  <1>6. prep' = [deps |-> prep.deps, rows |-> prep.rows, frames |-> Front(prep.frames)]
    BY <1>1, <1>4, PreparationShape
  <1>7. PreparationAt(prep', Moment(lastUnit))
    BY <1>4, <1>5, <1>6, FramesChange
  <1>8. \A c \in ToSet(committed)' : InForce(c, language', prep')
    BY <1>1, <1>6, NowHolds DEF Holds, InForce
  <1>9. QED BY <1>1, <1>2, <1>3, <1>4, <1>7, <1>8, InvNext

(***************************************************************************)
(* Rollbacks, boundaries and failures.                                     *)
(***************************************************************************)
LEMMA RollbackEnclosingStep ==
  ASSUME Inv, RollbackEnclosing
  PROVE  Inv'
PROOF
  <1>1. /\ attempts # <<>> /\ attempts' = Front(attempts)
        /\ language' = RolledBack(Top).language /\ prep' = RolledBack(Top).prep
        /\ failed' = failed \cup Undone(Top)
        /\ UNCHANGED <<lastUnit, assumptions, committed, phase, shape>>
    BY DEF RollbackEnclosing
  <1>2. EvidenceGrows
    BY <1>1, EvidenceSame DEF Inv, Counted
  <1>3. failed' \cap (1..Top.since) \subseteq failed /\ EvidenceStands'
    BY <1>1, <1>2, UndoneIsYounger, EvidenceStays
  <1>4. IsSeq(attempts') /\ AttemptsStand' /\ ~InCommand'
    BY <1>1, <1>2, <1>3, AttemptsPopped DEF Inv, RecoveryIsSound
  <1>5. CommandIsLast'
    BY <1>4 DEF CommandIsLast
  <1>6. Holds(Top.since, language', prep')
    BY <1>1, TopRestored
  <1>7. LanguageAt(language', Moment(lastUnit)') /\ PreparationAt(prep', Moment(lastUnit)')
    BY <1>2, <1>3, <1>6, HeldOn
  <1>8. \A c \in ToSet(committed)' : InForce(c, language', prep')
    BY <1>1, <1>6 DEF Holds
  <1>9. QED BY <1>2, <1>3, <1>4, <1>5, <1>7, <1>8, InvNext

LEMMA RecordedStep ==
  ASSUME Inv, NEW s, NEW l, NEW p, Holds(s, l, p), NEW unit \in 1..lastUnit, NEW item,
         NEW program \in BOOLEAN, Recorded(l, p, unit, item, program), UNCHANGED <<lastUnit, shape>>,
         failed' \cap (1..s) \subseteq failed, failed' \subseteq 1..lastUnit
  PROVE  /\ EvidenceGrows /\ EvidenceStands'
         /\ LanguageAt(language', Moment(lastUnit)') /\ PreparationAt(prep', Moment(lastUnit)')
         /\ \A c \in ToSet(committed)' : InForce(c, language', prep')
PROOF
  <1>1. PICK f, rows, id :
          /\ id = IF program THEN assumptions + 1 ELSE None
          /\ f = [item |-> item, unit |-> unit, row |-> Last(rows), program |-> program, assumption |-> id]
          /\ language' =
               [defs     |-> IF program THEN Invalidated(l.defs) ELSE l.defs,
                contexts |-> IF program THEN l.contexts \cup {id} ELSE l.contexts,
                loads    |-> l.loads \/ program,
                units    |-> l.units \cup {unit},
                causes   |-> l.causes \cup {unit}]
          /\ prep' = [p EXCEPT !.deps = p.deps \cup {[item |-> item, unit |-> unit]}, !.rows = rows]
          /\ assumptions' = IF program THEN assumptions + 1 ELSE assumptions
          /\ committed' = Append(committed, f)
    BY DEF Recorded
  <1>2. /\ f.item = item /\ f.unit = unit /\ f.program = program /\ f.assumption = id
    BY <1>1
  <1>3. IsSeq(committed) /\ assumptions \in Nat /\ lastUnit \in Nat /\ shape.frames \in Nat
    BY DEF Inv, Counted
  <1>4. IsSeq(committed') /\ ToSet(committed)' = ToSet(committed) \cup {f}
    BY <1>1, <1>3, Pushed, PushedSet
  <1>5. assumptions' \in Nat /\ assumptions <= assumptions' /\ (program => id = assumptions + 1)
    BY <1>1, <1>3
  <1>6. EvidenceGrows
    BY <1>2, <1>3, <1>4, <1>5 DEF EvidenceGrows, Counted
  <1>7. /\ EvidenceStands
        /\ \A c \in ToSet(committed) :
             c.unit \in 1..lastUnit /\ c.assumption \in IF c.program THEN 1..assumptions ELSE {None}
    BY DEF Inv, RecoveryIsSound, EvidenceStands
  <1>8. f.assumption \in IF f.program THEN 1..assumptions' ELSE {None}
    BY <1>1, <1>2, <1>3
  <1>9. EvidenceStands'
    <2>1. 1..assumptions \subseteq 1..assumptions'
      BY <1>3, <1>5
    <2>2. \A c \in ToSet(committed)' :
            c.unit \in 1..lastUnit' /\ c.assumption \in IF c.program THEN 1..assumptions' ELSE {None}
      BY <1>2, <1>4, <1>7, <1>8, <2>1
    <2>3. QED BY <2>2 DEF EvidenceStands
  <1>10. LanguageAt(l, Moment(lastUnit)') /\ PreparationAt(p, Moment(lastUnit)')
    BY <1>6, HeldOn
  <1>11. PICK m : m = Moment(lastUnit)'
    OBVIOUS
  <1>12. /\ m.failures = ToSet(committed) \cup {f} /\ m.assumed = 1..assumptions' /\ m.units = 1..lastUnit
    BY <1>4, <1>11 DEF Moment
  <1>13. /\ l \in [defs: Meanings(m), contexts: SUBSET m.assumed, loads: BOOLEAN,
                   units: SUBSET m.units, causes: SUBSET m.units]
         /\ l.contexts # {} => l.loads
         /\ ~m.inputs =>
              \A n \in Names, c \in m.failures :
                c.program /\ c.assumption \in l.contexts /\ l.defs[n] \in Nat => c.unit < l.defs[n]
    BY <1>10, <1>11 DEF LanguageAt
  <1>14. /\ Invalidated(l.defs) \in Meanings(m) /\ \A n \in Names : Invalidated(l.defs)[n] \notin Nat
    BY <1>13, InvalidatedShape
  <1>15. program => id \in m.assumed
    BY <1>3, <1>1, <1>5, <1>12
  <1>16. /\ language'.contexts = (IF program THEN l.contexts \cup {id} ELSE l.contexts)
         /\ language'.loads = (l.loads \/ program)
         /\ language'.units = l.units \cup {unit} /\ language'.causes = l.causes \cup {unit}
         /\ language'.defs = IF program THEN Invalidated(l.defs) ELSE l.defs
    BY <1>1
  <1>17. LanguageAt(language', m)
    <2>1. language' \in [defs: Meanings(m), contexts: SUBSET m.assumed, loads: BOOLEAN,
                         units: SUBSET m.units, causes: SUBSET m.units]
      <3>1. language' = [defs |-> language'.defs, contexts |-> language'.contexts, loads |-> language'.loads,
                         units |-> language'.units, causes |-> language'.causes]
        BY <1>1
      <3>2. language'.defs \in Meanings(m) /\ language'.contexts \subseteq m.assumed
        BY <1>13, <1>14, <1>15, <1>16
      <3>3. /\ language'.loads \in BOOLEAN
            /\ language'.units \subseteq m.units /\ language'.causes \subseteq m.units
        BY <1>12, <1>13, <1>16
      <3>4. QED BY <3>1, <3>2, <3>3
    <2>2. language'.contexts # {} => language'.loads
      BY <1>13, <1>16
    <2>3. ASSUME ~m.inputs, NEW n \in Names, NEW c \in m.failures, c.program,
                 c.assumption \in language'.contexts, language'.defs[n] \in Nat
          PROVE  c.unit < language'.defs[n]
      <3>1. ~program
        BY <1>14, <1>16, <2>3
      <3>2. QED BY <1>13, <1>16, <2>3, <3>1
    <2>4. QED BY <2>1, <2>2, <2>3 DEF LanguageAt
  <1>18. prep' = [deps |-> p.deps \cup {[item |-> item, unit |-> unit]}, rows |-> rows, frames |-> p.frames]
    BY <1>1, <1>10, PreparationShape
  <1>19. PreparationAt(prep', m)
    <2>1. \A d \in p.deps \cup {[item |-> item, unit |-> unit]} :
            d \in p.deps \/ d.unit \in m.live \/ \E c \in m.failures : c.item = d.item
      BY <1>2, <1>12
    <2>2. QED BY <1>10, <1>11, <1>18, <2>1, PreparationChanges
  <1>20. ASSUME NEW c \in ToSet(committed) \cup {f}
         PROVE  InForce(c, language', prep')
    <2>1. CASE c = f
      BY <1>2, <1>16, <1>18, <2>1 DEF InForce
    <2>2. CASE c \in ToSet(committed)
      <3>1. InForce(c, l, p)
        BY <2>2 DEF Holds
      <3>2. QED BY <1>16, <1>18, <3>1 DEF InForce
    <2>3. QED BY <2>1, <2>2
  <1>21. QED BY <1>4, <1>6, <1>9, <1>11, <1>17, <1>19, <1>20

LEMMA RecoverStep ==
  ASSUME Inv, NEW program \in BOOLEAN, NEW item, Recover(program, item)
  PROVE  Inv'
PROOF
  <1>1. /\ InCommand /\ attempts # <<>> /\ attempts' = Front(attempts)
        /\ Recorded(RolledBack(Top).language, RolledBack(Top).prep, Top.unit, item, program)
        /\ failed' = failed \cup Undone(Top) /\ UNCHANGED <<lastUnit, phase, shape>>
    BY DEF Recover, InCommand
  <1>2. Holds(Top.since, RolledBack(Top).language, RolledBack(Top).prep)
    BY <1>1, TopRestored
  <1>3. Top.unit \in 1..lastUnit
    BY <1>1, InCommandShape DEF Moment, Inv, Counted
  <1>4. failed' \cap (1..Top.since) \subseteq failed /\ failed' \subseteq 1..lastUnit
    BY <1>1, UndoneIsYounger
  <1>5. /\ EvidenceGrows /\ EvidenceStands'
        /\ LanguageAt(language', Moment(lastUnit)') /\ PreparationAt(prep', Moment(lastUnit)')
        /\ \A c \in ToSet(committed)' : InForce(c, language', prep')
    BY <1>1, <1>2, <1>3, <1>4, RecordedStep
  <1>6. IsSeq(attempts') /\ AttemptsStand' /\ ~InCommand'
    BY <1>1, <1>4, <1>5, AttemptsPopped DEF Inv, RecoveryIsSound
  <1>7. CommandIsLast'
    BY <1>6 DEF CommandIsLast
  <1>8. QED BY <1>5, <1>6, <1>7, InvNext

LEMMA MaterialFailureStep ==
  ASSUME Inv, NEW unit, NEW item, MaterialFailure(unit, item)
  PROVE  Inv'
PROOF
  <1>1. /\ phase = "materializing" /\ unit \in language.units
        /\ Recorded(language, prep, unit, item, FALSE)
        /\ UNCHANGED <<attempts, lastUnit, phase, failed, shape>>
    BY DEF MaterialFailure
  <1>2. Holds(lastUnit, language, prep)
    BY NowHolds
  <1>3. unit \in 1..lastUnit /\ failed \subseteq 1..lastUnit
    <2>1. language.units \subseteq Moment(lastUnit).units
      BY <1>2 DEF Holds, LanguageAt
    <2>2. QED BY <1>1, <2>1 DEF Moment, Inv, RecoveryIsSound, EvidenceStands
  <1>4. /\ EvidenceGrows /\ EvidenceStands'
        /\ LanguageAt(language', Moment(lastUnit)') /\ PreparationAt(prep', Moment(lastUnit)')
        /\ \A c \in ToSet(committed)' : InForce(c, language', prep')
    BY <1>1, <1>2, <1>3, RecordedStep
  <1>5. attempts = <<>> /\ attempts' = <<>>
    BY <1>1 DEF Inv, RecoveryIsSound, AttemptsStand
  <1>6. IsSeq(attempts') /\ AttemptsStand' /\ CommandIsLast'
    BY <1>5, EmptySeq DEF Inv, AttemptsStand, CommandIsLast, InCommand
  <1>7. QED BY <1>4, <1>6, InvNext

(* AtBoundary: where reading stops, the command in progress is undone and  *)
(* its unit kept.                                                          *)
BoundarySince == IF InCommand THEN Top.since ELSE lastUnit

LEMMA BoundaryShape ==
  ASSUME Inv, failed' = (IF InCommand THEN failed \cup Undone(Top) ELSE failed), lastUnit' = lastUnit
  PROVE  /\ Holds(BoundarySince, AtBoundary.language, AtBoundary.prep)
         /\ failed' \cap (1..BoundarySince) \subseteq failed /\ failed' \subseteq 1..lastUnit'
PROOF
  <1>1. CASE InCommand
    <2>1. attempts # <<>> /\ BoundarySince = Top.since
      BY <1>1 DEF InCommand, BoundarySince
    <2>2. Holds(Top.since, RolledBack(Top).language, RolledBack(Top).prep)
      BY <2>1, TopRestored
    <2> DEFINE l == RolledBack(Top).language
               units == l.units \cup {Top.unit}
               language2 == [l EXCEPT !.units = units]
    <2>3. AtBoundary.language = language2 /\ AtBoundary.prep = RolledBack(Top).prep
      <3> DEFINE r == RolledBack(Top)
      <3>1. PICK a, b : r = [language |-> a, prep |-> b]
        BY DEF RolledBack, Reconciled
      <3> HIDE DEF r
      <3>2. AtBoundary = [r EXCEPT !.language.units = @ \cup {Top.unit}]
        BY <1>1 DEF AtBoundary, r
      <3>3. AtBoundary.language = [r.language EXCEPT !.units = r.language.units \cup {Top.unit}]
            /\ AtBoundary.prep = r.prep
        BY <3>1, <3>2
      <3>4. QED BY <3>3 DEF r
    <2> HIDE DEF l
    <2>4. l.units \subseteq units /\ units \subseteq Moment(Top.since).units
      <3>1. l.units \subseteq Moment(Top.since).units
        BY <2>2 DEF Holds, LanguageAt, l
      <3>2. Top.unit \in 1..lastUnit
        BY <1>1, InCommandShape DEF Moment, Inv, Counted
      <3>3. QED BY <3>1, <3>2 DEF Moment
    <2>5. LanguageAt(language2, Moment(Top.since)) /\ UnitsAdded(language2, l)
      BY <2>2, <2>4, Registered DEF Holds, l
    <2> HIDE DEF language2
    <2>6. \A c \in ToSet(committed) : InForce(c, language2, RolledBack(Top).prep)
      BY <2>2, <2>5 DEF Holds, InForce, UnitsAdded, l
    <2>7. Holds(Top.since, AtBoundary.language, AtBoundary.prep)
      BY <2>2, <2>3, <2>5, <2>6 DEF Holds
    <2>8. QED BY <1>1, <2>1, <2>7, UndoneIsYounger
  <1>2. CASE ~InCommand
    <2>1. /\ AtBoundary.language = language /\ AtBoundary.prep = prep
          /\ BoundarySince = lastUnit /\ failed' = failed
      BY <1>2 DEF AtBoundary, BoundarySince
    <2>2. QED BY <2>1, NowHolds DEF Inv, RecoveryIsSound, EvidenceStands
  <1>3. QED BY <1>1, <1>2

LEMMA EndReadingStep ==
  ASSUME Inv, EndReading
  PROVE  Inv'
PROOF
  <1>1. /\ language' = AtBoundary.language /\ prep' = AtBoundary.prep /\ attempts' = <<>>
        /\ failed' = (IF InCommand THEN failed \cup Undone(Top) ELSE failed)
        /\ UNCHANGED <<lastUnit, assumptions, committed, shape>>
    BY DEF EndReading
  <1>2. /\ Holds(BoundarySince, language', prep')
        /\ failed' \cap (1..BoundarySince) \subseteq failed /\ failed' \subseteq 1..lastUnit'
    BY <1>1, BoundaryShape
  <1>3. EvidenceGrows /\ EvidenceStands'
    BY <1>1, <1>2, EvidenceSame, EvidenceStays DEF Inv, Counted
  <1>4. LanguageAt(language', Moment(lastUnit)') /\ PreparationAt(prep', Moment(lastUnit)')
    BY <1>2, <1>3, HeldOn
  <1>5. IsSeq(attempts') /\ AttemptsStand' /\ CommandIsLast'
    <2>1. IsSeq(attempts')
      BY <1>1, EmptySeq DEF IsSeq
    <2>2. \A i \in 1..Len(<<>>) : FALSE
      BY EmptySeq
    <2>3. QED BY <1>1, <2>1, <2>2 DEF AttemptsStand, CommandIsLast, InCommand
  <1>6. \A c \in ToSet(committed)' : InForce(c, language', prep')
    BY <1>1, <1>2 DEF Holds
  <1>7. QED BY <1>3, <1>4, <1>5, <1>6, InvNext

LEMMA RetainInputStep ==
  ASSUME Inv, RetainInput
  PROVE  Inv'
PROOF
  <1>1. PICK at, entry, id, rows :
          /\ at = AtBoundary /\ entry = Last(at.prep.frames) /\ id = assumptions + 1
          /\ phase = "reading" /\ at.prep.frames # <<>>
          /\ assumptions' = assumptions + 1
          /\ language' = [at.language EXCEPT !.defs = entry.defs,
                                             !.contexts = entry.contexts \cup at.language.contexts \cup {id},
                                             !.loads = TRUE]
          /\ prep' = [at.prep EXCEPT !.frames = Front(at.prep.frames), !.rows = rows]
          /\ failed' = (IF InCommand THEN failed \cup Undone(Top) ELSE failed)
          /\ attempts' = IF InCommand THEN Front(attempts) ELSE attempts
          /\ UNCHANGED <<lastUnit, committed, phase, shape>>
    BY DEF RetainInput
  <1>2. /\ Holds(BoundarySince, at.language, at.prep)
        /\ failed' \cap (1..BoundarySince) \subseteq failed /\ failed' \subseteq 1..lastUnit'
    BY <1>1, BoundaryShape
  <1>3. EvidenceGrows /\ EvidenceStands'
    <2>1. IsSeq(committed) /\ lastUnit \in Nat /\ assumptions \in Nat /\ shape.frames \in Nat
      BY DEF Inv, Counted
    <2>2. EvidenceGrows
      BY <1>1, <2>1 DEF EvidenceGrows, Counted
    <2>3. QED BY <1>1, <1>2, <2>2, EvidenceStays
  <1>4. LanguageAt(at.language, Moment(lastUnit)') /\ PreparationAt(at.prep, Moment(lastUnit)')
    BY <1>2, <1>3, HeldOn
  <1>5. PICK m : m = Moment(lastUnit)'
    OBVIOUS
  <1>6. m.assumed = 1..assumptions' /\ id \in m.assumed
    BY <1>1, <1>5 DEF Moment, Inv, Counted
  <1>7. /\ at.prep.frames \in Seq(EntriesAt(m)) /\ m.inputs
        /\ entry \in EntriesAt(m) /\ Front(at.prep.frames) \in Seq(EntriesAt(m))
    <2>1. at.prep.frames \in Seq(EntriesAt(m)) /\ m.inputs
      BY <1>1, <1>4, <1>5 DEF PreparationAt
    <2>2. QED BY <1>1, <2>1, FrontOfSeq
  <1>8. at.language \in [defs: Meanings(m), contexts: SUBSET m.assumed, loads: BOOLEAN,
                         units: SUBSET m.units, causes: SUBSET m.units]
    BY <1>4, <1>5 DEF LanguageAt
  <1>9. PICK contexts : contexts = entry.contexts \cup at.language.contexts \cup {id}
    OBVIOUS
  <1>10. contexts \subseteq m.assumed /\ entry.defs \in Meanings(m)
    BY <1>6, <1>7, <1>8, <1>9 DEF EntriesAt
  <1>11. /\ language' \in [defs: Meanings(m), contexts: SUBSET m.assumed, loads: BOOLEAN,
                           units: SUBSET m.units, causes: SUBSET m.units]
         /\ language'.loads = TRUE /\ at.language.contexts \subseteq language'.contexts
         /\ language'.units = at.language.units /\ language'.causes = at.language.causes
    <2>1. PICK a, b, c, u, v : at.language = [defs |-> a, contexts |-> b, loads |-> c, units |-> u, causes |-> v]
      BY <1>8
    <2>2. u \subseteq m.units /\ v \subseteq m.units /\ at.language.contexts = b
          /\ at.language.units = u /\ at.language.causes = v
      BY <1>8, <2>1
    <2>3. language' = [at.language EXCEPT !.defs = entry.defs, !.contexts = contexts, !.loads = TRUE]
      BY <1>1, <1>9
    <2>4. language' = [defs |-> entry.defs, contexts |-> contexts, loads |-> TRUE, units |-> u, causes |-> v]
      <3>1. language' = [x \in DOMAIN at.language |->
              IF x = "loads" THEN TRUE ELSE IF x = "contexts" THEN contexts
              ELSE IF x = "defs" THEN entry.defs ELSE at.language[x]]
        BY <2>3
      <3>2. /\ DOMAIN at.language = {"defs", "contexts", "loads", "units", "causes"}
            /\ at.language["units"] = u /\ at.language["causes"] = v
        BY <2>1
      <3>3. language' = [x \in {"defs", "contexts", "loads", "units", "causes"} |->
              IF x = "loads" THEN TRUE ELSE IF x = "contexts" THEN contexts
              ELSE IF x = "defs" THEN entry.defs ELSE IF x = "units" THEN u ELSE v]
        BY <3>1, <3>2
      <3>4. QED BY <3>3
    <2>5. QED BY <1>9, <1>10, <2>2, <2>4
  <1>12. LanguageAt(language', m)
    BY <1>7, <1>11 DEF LanguageAt
  <1>13. prep' = [deps |-> at.prep.deps, rows |-> rows, frames |-> Front(at.prep.frames)]
    <2>1. PICK d, r, f : at.prep = [deps |-> d, rows |-> r, frames |-> f]
      BY <1>4 DEF PreparationAt
    <2>2. PICK front : front = Front(at.prep.frames)
      OBVIOUS
    <2>3. prep' = [at.prep EXCEPT !.frames = front, !.rows = rows]
      BY <1>1, <2>2
    <2>4. prep' = [x \in DOMAIN at.prep |->
                     IF x = "rows" THEN rows ELSE IF x = "frames" THEN front ELSE at.prep[x]]
      BY <2>3
    <2>5. prep' = [deps |-> d, rows |-> rows, frames |-> front] /\ at.prep.deps = d
      BY <2>1, <2>4
    <2>6. QED BY <2>2, <2>5
  <1>14. PreparationAt(prep', m)
    <2>1. PreparationAt([deps |-> at.prep.deps, rows |-> rows, frames |-> at.prep.frames], m)
      BY <1>4, <1>5, PreparationChanges
    <2>2. QED BY <1>7, <1>13, <2>1, FramesChange
  <1>15. \A c \in ToSet(committed)' : InForce(c, language', prep')
    <2>1. committed' = committed /\ \A c \in ToSet(committed) : InForce(c, at.language, at.prep)
      BY <1>1, <1>2 DEF Holds
    <2>2. /\ prep'.deps = at.prep.deps /\ at.language.contexts \subseteq language'.contexts
          /\ language'.units = at.language.units /\ language'.causes = at.language.causes
      BY <1>11, <1>13
    <2>3. \A c : InForce(c, at.language, at.prep) => InForce(c, language', prep')
      BY <1>11, <2>2 DEF InForce
    <2>4. QED BY <2>1, <2>3
  <1>16. IsSeq(attempts') /\ AttemptsStand' /\ CommandIsLast'
    <2>1. CASE InCommand
      <3>1. attempts # <<>> /\ BoundarySince = Top.since /\ attempts' = Front(attempts)
        BY <1>1, <2>1 DEF InCommand, BoundarySince
      <3>2. IsSeq(attempts') /\ AttemptsStand' /\ ~InCommand'
        BY <1>1, <1>2, <1>3, <3>1, AttemptsPopped DEF Inv, RecoveryIsSound
      <3>3. QED BY <3>2 DEF CommandIsLast
    <2>2. CASE ~InCommand
      <3>1. attempts' = attempts /\ failed' = failed
        BY <1>1, <2>2
      <3>2. ~InCommand'
        BY <2>2, <3>1 DEF InCommand, Top
      <3>3. AttemptsStand'
        BY <1>1, <1>3, <3>1, AttemptsKept DEF Inv, RecoveryIsSound
      <3>4. QED BY <3>1, <3>2, <3>3 DEF CommandIsLast, Inv
    <2>3. QED BY <2>1, <2>2
  <1>17. QED BY <1>3, <1>5, <1>12, <1>14, <1>15, <1>16, InvNext

(***************************************************************************)
(* The theorems.                                                           *)
(***************************************************************************)
LEMMA InitInv == Init => Inv
PROOF
  <1> SUFFICES ASSUME Init
               PROVE  Inv
    OBVIOUS
  <1>1. /\ attempts = <<>> /\ committed = <<>> /\ lastUnit = 0 /\ assumptions = 0 /\ failed = {}
        /\ shape.frames \in Nat
    BY RecoveryAssumption DEF Init
  <1>2. IsSeq(attempts) /\ Counted
    BY <1>1, EmptySeq DEF IsSeq, Counted
  <1>3. ToSet(committed) = {} /\ Len(attempts) = 0
    BY <1>1, EmptySet, EmptySeq
  <1>4. EvidenceStands /\ FailuresSurvive
    BY <1>1, <1>3 DEF EvidenceStands, FailuresSurvive
  <1>5. LanguageAt(language, Moment(lastUnit))
    BY DEF Init, LanguageAt, Moment, Meanings
  <1>6. PreparationAt(prep, Moment(lastUnit))
    <2>1. prep = [deps |-> {}, rows |-> <<>>, frames |-> <<>>]
      BY DEF Init
    <2>2. <<>> \in Seq(EntriesAt(Moment(lastUnit)))
      BY EmptySeq
    <2>3. QED BY <2>1, <2>2 DEF PreparationAt
  <1>7. AttemptsStand /\ CommandIsLast
    BY <1>1, <1>3 DEF AttemptsStand, CommandIsLast, InCommand
  <1>8. QED BY <1>2, <1>4, <1>5, <1>6, <1>7 DEF Inv, RecoveryIsSound

LEMMA InvStep ==
  ASSUME Inv, [Next]_vars
  PROVE  Inv'
PROOF
  <1>1. CASE Enclose
    BY <1>1, EncloseStep
  <1>2. CASE RollbackEnclosing
    BY <1>2, RollbackEnclosingStep
  <1>3. CASE Commit \/ CommitEnclosing
    BY <1>3, CommitStep
  <1>4. CASE Dispatch
    BY <1>4, DispatchStep
  <1>5. CASE \E n \in Names : Define(n)
    BY <1>5, DefineStep
  <1>6. CASE Edge \/ Require
    BY <1>6, EdgeStep
  <1>7. CASE EnterInput
    BY <1>7, EnterInputStep
  <1>8. CASE LeaveInput
    BY <1>8, LeaveInputStep
  <1>9. CASE RetainInput
    BY <1>9, RetainInputStep
  <1>10. CASE EndReading
    BY <1>10, EndReadingStep
  <1>11. CASE \E program \in BOOLEAN, item \in 1..MaxItems : Recover(program, item)
    BY <1>11, RecoverStep
  <1>12. CASE \E unit \in Units, item \in 1..MaxItems : MaterialFailure(unit, item)
    BY <1>12, MaterialFailureStep
  <1>13. CASE UNCHANGED vars
    <2>1. EvidenceGrows /\ \A s : Moment(s)' = Moment(s)
      BY <1>13, EvidenceSame DEF vars, Inv, Counted, Moment
    <2>2. AttemptsStand'
      BY <1>13, <2>1, AttemptsKept DEF vars, Inv, RecoveryIsSound
    <2>3. EvidenceStands' /\ CommandIsLast' /\ IsSeq(attempts')
      BY <1>13 DEF vars, Inv, RecoveryIsSound, EvidenceStands, CommandIsLast, InCommand, Top
    <2>4. QED BY <1>13, <2>1, <2>2, <2>3, NowHolds, InvNext DEF vars, Holds
  <1>14. QED BY <1>1, <1>2, <1>3, <1>4, <1>5, <1>6, <1>7, <1>8, <1>9, <1>10, <1>11, <1>12, <1>13 DEF Next

LEMMA InvHolds == Spec => []Inv
BY InitInv, InvStep, PTL DEF Spec

(* A committed failure's dependency row, unit, cause and assumption stay in *)
(* force whatever attempts are rolled back around it                       *)
(* (resource-recovery.md), for every document.                             *)
THEOREM FailuresStay == Spec => []FailuresSurvive
PROOF
  <1>1. Inv => FailuresSurvive
    BY DEF Inv, RecoveryIsSound
  <1>2. QED BY <1>1, InvHolds, PTL

(* What a rolled back command established or found is gone, and where no   *)
(* input is retained whole a name is a fact only when it was defined after *)
(* each program that is unavailable (recovery.py:201), for every document. *)
THEOREM UndoneStaysUndone == Spec => []UndoneIsUndone
PROOF
  <1>1. Inv => UndoneIsUndone
    <2> SUFFICES ASSUME Inv
                 PROVE  UndoneIsUndone
      OBVIOUS
    <2>1. Holds(lastUnit, language, prep) /\ failed \subseteq Nat
      BY NowHolds DEF Inv, Counted, RecoveryIsSound, EvidenceStands
    <2>2. /\ \A n \in Names : language.defs[n] \in {Undefined, InDoubt} \cup Moment(lastUnit).live
          /\ \A d \in prep.deps : \/ d.unit \in Moment(lastUnit).live
                                  \/ \E c \in ToSet(committed) : c.item = d.item
          /\ Moment(lastUnit).live \cap failed = {}
      BY <2>1 DEF Holds, LanguageAt, Meanings, PreparationAt, Moment
    <2>3. EffectsUndone
      BY <2>1, <2>2, RecoveryAssumption DEF EffectsUndone
    <2>4. ASSUME shape.frames = 0, NEW n \in Names, language.defs[n] \in Units,
                 NEW c \in ToSet(committed), c.program
          PROVE  c.unit < language.defs[n]
      <3>1. c.assumption \in language.contexts
        BY <2>1, <2>4 DEF Holds, InForce
      <3>2. ~Moment(lastUnit).inputs /\ Moment(lastUnit).failures = ToSet(committed)
        BY <2>4 DEF Moment
      <3>3. language.defs[n] \in Nat
        BY <2>4, RecoveryAssumption DEF Units
      <3>4. QED BY <2>1, <2>4, <3>1, <3>2, <3>3 DEF Holds, LanguageAt
    <2>5. DoubtWithoutInputs
      BY <2>4 DEF DoubtWithoutInputs, ProgramsLeaveDoubt
    <2>6. QED BY <2>3, <2>5 DEF UndoneIsUndone
  <1>2. QED BY <1>1, InvHolds, PTL
==============================================================================
