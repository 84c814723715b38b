------------------------------ MODULE Publication ------------------------------
(***************************************************************************)
(* prepare/publication.py with the attempt of prepare/pipeline.py: each    *)
(* call of preprocess_paper builds a payload in a staging directory and    *)
(* publishes it by renames, to the output directory and to an optional     *)
(* second file, while the event journal inside the output directory keeps  *)
(* a life of its own.  Any step may fail, the process may die at any       *)
(* point, and an asynchronous exception may arrive inside publish().       *)
(*                                                                         *)
(* A directory is [payload, manifest, kept]: the attempt whose master.tex  *)
(* it holds and the attempt whose manifest.json (0 for none), and its      *)
(* retained bookkeeping files (an empty sequence: no file).                *)
(***************************************************************************)
EXTENDS Naturals, Sequences, SequencesExt

CONSTANTS
  Secondary,    (* Whether the caller names an output file outside.      *)
  Interrupts,   (* Whether KeyboardInterrupt may arrive inside publish(). *)
  Missing,      (* What a place holds where there is no directory.       *)
  MaxAttempts   (* Bound on the calls of preprocess_paper.               *)

ASSUME PublicationAssumption ==
  /\ Secondary \in BOOLEAN /\ Interrupts \in BOOLEAN
  /\ MaxAttempts \in Nat \ {0}

JOURNAL == "preparation.jsonl"
RETAINED_HISTORY == <<JOURNAL, "preparation.log">>
Retained == ToSet(RETAINED_HISTORY)

Destination == [destination |-> "extracted", stage |-> "payload", backup |-> "previous"]
OutputFile == [destination |-> "copy", stage |-> "output", backup |-> "previous copy"]
Targets == IF Secondary THEN <<Destination, OutputFile>> ELSE <<Destination>>

Workspaces == {"payload", "previous", "output", "previous copy"}
Places == Workspaces \cup {"extracted", "copy"}

Events == [attempt: 0..MaxAttempts, preserved: BOOLEAN,
           code: {"foreign", "legacy", "attempt.started", "payload.prepared",
                  "publication.started", "attempt.published", "attempt.failed"}]
Event(attempt, code) == [attempt |-> attempt, code |-> code, preserved |-> FALSE]

Directories == [payload: 0..MaxAttempts, manifest: 0..MaxAttempts, kept: [Retained -> Seq(Events)]]
ASSUME MissingAssumption == Missing \notin Directories

Directory(payload, manifest) ==
  [payload |-> payload, manifest |-> manifest, kept |-> [name \in Retained |-> <<>>]]

Whole == ""   (* The file of a move that renames a directory, or the second output, whole. *)
Moves == [from: Places, to: Places, file: Retained \cup {Whole}]

VARIABLES
  fs,        (* What each place holds.                                       *)
  leaked,    (* The contents of workspaces nobody removed.                   *)
  pc,        (* Where the attempt stands.                                    *)
  attempt,   (* How many attempts have started.                              *)
  flags,     (* The attempt's locals: existed, previous, manifest, published,
                recovery_needed, poisoned (the logger refuses to write) and
                noted (a failure manifest could not be retained).            *)
  paths,     (* retained_paths: the place each retained file is found in.    *)
  index,     (* The target publish() is at.                                  *)
  moved,     (* A rename that has happened and is not recorded yet.          *)
  undo,      (* committed, displaced and carried.                            *)
  good,      (* History: the last attempt whose publish() returned.          *)
  stranded,  (* History: a crash, a failed rollback or an interrupt, and no
                publish since.                                               *)
  interrupted, (* History: an interrupt arrived inside some publish().       *)
  flushed    (* History: the events the sink has written, in order.          *)

vars == <<fs, leaked, pc, attempt, flags, paths, index, moved, undo, good, stranded, interrupted, flushed>>
publishing == <<paths, index, moved, undo>>

NoMove == [from |-> "extracted", to |-> "extracted", file |-> Whole]
Flags == [existed: BOOLEAN, previous: BOOLEAN, manifest: BOOLEAN, published: BOOLEAN,
          recovery_needed: BOOLEAN, poisoned: BOOLEAN, noted: BOOLEAN]
Undone == [committed |-> <<>>, displaced |-> <<>>, carried |-> <<>>]

TypeOK ==
  /\ fs \in [Places -> Directories \cup {Missing}]
  /\ leaked \subseteq Directories
  /\ pc \in {"idle", "begin", "build", "prepared", "secondary", "announce", "displace", "carry",
             "commit", "rollback", "returned", "complete", "failing", "report", "exit"}
  /\ attempt \in 0..MaxAttempts /\ good \in 0..attempt
  /\ flags \in Flags
  /\ paths \in [Retained -> Places]
  /\ index \in 1..Len(Targets)
  /\ moved \in Moves
  /\ undo \in [committed: Seq(Moves), displaced: Seq(Moves), carried: Seq(Moves)]
  /\ stranded \in BOOLEAN /\ interrupted \in BOOLEAN
  /\ flushed \in Seq(Events)

Payload(place) == IF fs[place] = Missing THEN 0 ELSE fs[place].payload
Idle == [existed |-> FALSE, previous |-> FALSE, manifest |-> FALSE, published |-> FALSE,
         recovery_needed |-> FALSE, poisoned |-> FALSE, noted |-> FALSE]

(* Either nothing has been prepared yet, or an earlier release has: its    *)
(* textual journal is evidence to carry along.                             *)
Earlier ==
  [[p \in Places |-> Missing] EXCEPT
     !["extracted"] = [Directory(1, 1) EXCEPT !.kept["preparation.log"] = <<Event(1, "legacy")>>],
     !["copy"] = IF Secondary THEN Directory(1, 1) ELSE Missing]

Init ==
  /\ \/ fs = [p \in Places |-> Missing] /\ attempt = 0
     \/ fs = Earlier /\ attempt = 1
  /\ good = attempt
  /\ leaked = {} /\ pc = "idle" /\ flags = Idle
  /\ paths = [name \in Retained |-> "extracted"]
  /\ index = 1 /\ moved = NoMove /\ undo = Undone
  /\ stranded = FALSE /\ interrupted = FALSE /\ flushed = <<>>

-----------------------------------------------------------------------------
(* The event journal.  A failed append poisons the logger. *)

Logged(place, e) ==
  LET home == IF fs[place] = Missing THEN Directory(0, 0) ELSE fs[place]
  IN  [fs EXCEPT ![place] = [home EXCEPT !.kept[JOURNAL] = Append(@, e)]]

Emit(at, code, next) ==
  /\ pc = at
  /\ \/ /\ fs' = Logged("extracted", Event(attempt, code))
        /\ flushed' = Append(flushed, Event(attempt, code))
        /\ pc' = next
        /\ UNCHANGED flags
     \/ /\ flags' = [flags EXCEPT !.poisoned = TRUE]
        /\ pc' = "failing"
        /\ UNCHANGED <<fs, flushed>>
  /\ UNCHANGED <<leaked, attempt, publishing, good, stranded, interrupted>>

-----------------------------------------------------------------------------
(* OutputTransaction.__enter__ and the build. *)

Start ==
  /\ pc = "idle" /\ attempt < MaxAttempts
  /\ attempt' = attempt + 1
  /\ flags' = [Idle EXCEPT !.existed = (fs["extracted"] # Missing),
                           !.previous = (Payload("extracted") # 0)]
  /\ fs' = [fs EXCEPT !["payload"] = Directory(0, 0)]
  /\ paths' = [name \in Retained |-> "extracted"]
  /\ index' = 1 /\ moved' = NoMove /\ undo' = Undone
  /\ pc' = "begin"
  /\ UNCHANGED <<leaked, good, stranded, flushed, interrupted>>

(* _prepare_paper fills the stage; a file of the paper may have the name   *)
(* of a retained journal.                                                  *)
Build(collides) ==
  /\ pc = "build"
  /\ fs' = [fs EXCEPT !["payload"] =
              [Directory(attempt, attempt) EXCEPT
                 !.kept[JOURNAL] = IF collides THEN <<Event(attempt, "foreign")>> ELSE <<>>]]
  /\ flags' = [flags EXCEPT !.manifest = TRUE]
  /\ pc' = "prepared"
  /\ UNCHANGED <<leaked, attempt, publishing, good, stranded, flushed, interrupted>>

(* The request is refused before a session exists, or the session fails    *)
(* and stages a failure manifest; the journal may have failed it.          *)
BuildFails(staged) ==
  /\ pc = "build"
  /\ fs' = [fs EXCEPT !["payload"] = Directory(0, staged)]
  /\ \E poisoned \in BOOLEAN : flags' = [flags EXCEPT !.poisoned = poisoned]
  /\ pc' = "failing"
  /\ UNCHANGED <<leaked, attempt, publishing, good, stranded, flushed, interrupted>>

(* recovery = "strict" refuses a partial result. *)
Reject ==
  /\ pc = "prepared"
  /\ pc' = "failing"
  /\ UNCHANGED <<fs, leaked, attempt, flags, publishing, good, stranded, flushed, interrupted>>

WriteSecondary ==
  /\ pc = "secondary"
  /\ \/ /\ fs' = [fs EXCEPT !["output"] = IF Secondary THEN Directory(attempt, attempt) ELSE @]
        /\ pc' = "announce"
     \/ /\ Secondary
        /\ fs' = fs
        /\ pc' = "failing"
  /\ UNCHANGED <<leaked, attempt, flags, publishing, good, stranded, flushed, interrupted>>

-----------------------------------------------------------------------------
(* OutputTransaction.publish(). *)

Target == Targets[index]
Move(from, to, file) == [from |-> from, to |-> to, file |-> file]
Reversed(m) == Move(m.to, m.from, m.file)
Displacement(target) == Move(target.destination, target.backup, Whole)
Commitment(target) == Move(target.stage, target.destination, Whole)

(* os.replace renames a directory only onto nothing, and a file onto       *)
(* anything in an existing directory.                                      *)
Renamable(m) ==
  /\ fs[m.from] # Missing
  /\ IF m.file = Whole THEN m.to = "copy" \/ fs[m.to] = Missing ELSE fs[m.to] # Missing

Renamed(m) ==
  IF m.file = Whole
    THEN [fs EXCEPT ![m.to] = fs[m.from], ![m.from] = Missing]
    ELSE [fs EXCEPT ![m.to].kept[m.file] = fs[m.from].kept[m.file], ![m.from].kept[m.file] = <<>>]

(* Mutant of Followed: the journals' paths keep their first place. *)
FollowedNot(m) == [name \in Retained |-> Missing]

(* _move: the retained files travel with what was renamed. *)
Followed(m) ==
  [name \in Retained |-> IF paths[name] = m.from /\ m.file \in {name, Whole} THEN m.to ELSE paths[name]]

NextCarried ==
  { n \in 1..Len(RETAINED_HISTORY) :
      /\ fs[Target.backup].kept[RETAINED_HISTORY[n]] # <<>>
      /\ \A k \in 1..(n - 1) : fs[Target.backup].kept[RETAINED_HISTORY[k]] = <<>> }

(* The rename publish() makes next, if there is one. *)
Steps ==
  CASE pc = "displace" ->
         IF fs[Target.destination] = Missing THEN {}
           ELSE { Displacement(Target) }
    [] pc = "carry" ->
         { Move(Target.backup, Target.stage, RETAINED_HISTORY[n]) : n \in NextCarried }
    [] pc = "commit" -> { Commitment(Target) }
    [] OTHER -> {}

Collides(m) == m.file # Whole /\ fs[m.to].kept[m.file] # <<>>

Rename ==
  /\ moved = NoMove
  /\ \E m \in Steps :
       /\ ~Collides(m) /\ Renamable(m)
       /\ fs' = Renamed(m)
       /\ moved' = m
  /\ UNCHANGED <<leaked, pc, attempt, flags, paths, index, undo, good, stranded, flushed, interrupted>>

(* The rest of _move, and the append to the matching list. *)
Record ==
  /\ moved # NoMove
  /\ paths' = Followed(moved)
  /\ moved' = NoMove
  /\ CASE pc = "displace" ->
            /\ undo' = [undo EXCEPT !.displaced = Append(@, moved)]
            /\ pc' = IF index = 1 THEN "carry" ELSE "commit"
            /\ UNCHANGED <<index, good, stranded>>
       [] pc = "carry" ->
            /\ undo' = [undo EXCEPT !.carried = Append(@, moved)]
            /\ UNCHANGED <<pc, index, good, stranded>>
       [] pc = "commit" ->
            /\ undo' = [undo EXCEPT !.committed = Append(@, moved)]
            /\ IF index < Len(Targets)
                 THEN pc' = "displace" /\ index' = index + 1 /\ UNCHANGED <<good, stranded>>
                 ELSE pc' = "returned" /\ good' = attempt /\ stranded' = FALSE /\ UNCHANGED index
  /\ UNCHANGED <<fs, leaked, attempt, flags, flushed, interrupted>>

(* There is nothing to displace, or nothing left to carry. *)
Skip ==
  /\ pc \in {"displace", "carry"} /\ moved = NoMove /\ Steps = {}
  /\ pc' = "commit"
  /\ UNCHANGED <<fs, leaked, attempt, flags, publishing, good, stranded, flushed, interrupted>>

(* A rename fails after its retries, or a payload collides with a journal. *)
PublishFails ==
  /\ moved = NoMove /\ Steps # {}
  /\ pc' = "rollback"
  /\ UNCHANGED <<fs, leaked, attempt, flags, publishing, good, stranded, flushed, interrupted>>

(* The interrupt arrives between two steps, or after a rename and before   *)
(* it is recorded; or when publish() has returned to its caller.           *)
Interrupt ==
  /\ Interrupts
  /\ \/ /\ pc \in {"displace", "carry", "commit"}
        /\ pc' = "rollback" /\ moved' = NoMove
     \/ /\ pc \in {"returned", "rollback"}
        /\ pc' = "failing" /\ UNCHANGED moved
  /\ stranded' = TRUE /\ interrupted' = TRUE
  /\ UNCHANGED <<fs, leaked, attempt, flags, paths, index, undo, good, flushed>>

Published ==
  /\ pc = "returned"
  /\ flags' = [flags EXCEPT !.published = TRUE]
  /\ pc' = "complete"
  /\ UNCHANGED <<fs, leaked, attempt, publishing, good, stranded, flushed, interrupted>>

(* Mutants of Undo: the journals stay behind, or the old products do. *)
UndoWithoutJournals == IF undo.committed # <<>> THEN "committed" ELSE "displaced"
UndoCommitted == IF undo.committed # <<>> THEN "committed" ELSE "carried"

(* Newly published products first, then the journals, then the old ones. *)
Undo ==
  IF undo.committed # <<>> THEN "committed"
    ELSE IF undo.carried # <<>> THEN "carried" ELSE "displaced"

RollBack ==
  /\ pc = "rollback" /\ undo[Undo] # <<>>
  /\ LET m == Reversed(Last(undo[Undo]))
     IN  /\ Renamable(m)
         /\ fs' = Renamed(m)
         /\ paths' = Followed(m)
  /\ undo' = [undo EXCEPT ![Undo] = Front(@)]
  /\ UNCHANGED <<leaked, pc, attempt, flags, index, moved, good, stranded, flushed, interrupted>>

RolledBack ==
  /\ pc = "rollback" /\ undo[Undo] = <<>>
  /\ pc' = "failing"
  /\ UNCHANGED <<fs, leaked, attempt, flags, publishing, good, stranded, flushed, interrupted>>

(* An OSError during rollback: the workspaces are kept for recovery. *)
RollBackFails ==
  /\ pc = "rollback" /\ undo[Undo] # <<>>
  /\ flags' = [flags EXCEPT !.recovery_needed = TRUE]
  /\ stranded' = TRUE
  /\ pc' = "failing"
  /\ UNCHANGED <<fs, leaked, attempt, publishing, good, flushed, interrupted>>

-----------------------------------------------------------------------------
(* The failure path of preprocess_paper and OutputTransaction.__exit__. *)

(* Mutant of FailureManifest: a failed rerun leaves its manifest too. *)
FailureManifestAlways ==
  IF flags.manifest /\ ~flags.recovery_needed /\ fs["extracted"] # Missing
    THEN [fs EXCEPT !["extracted"].manifest = attempt] ELSE fs

(* The failed attempt's manifest goes to the stage and, when the output    *)
(* directory did not exist on entry, from there to it.                     *)
FailureManifest ==
  LET failed == flags.manifest /\ ~flags.recovery_needed
      staged == IF failed THEN [fs EXCEPT !["payload"].manifest = attempt] ELSE fs
      home == IF staged["extracted"] = Missing THEN Directory(0, 0) ELSE staged["extracted"]
      source == IF staged["payload"] = Missing THEN 0 ELSE staged["payload"].manifest
  IN  IF flags.recovery_needed \/ flags.existed THEN staged
      ELSE IF source = 0 THEN [staged EXCEPT !["extracted"] = home]
      ELSE [staged EXCEPT !["extracted"] = [home EXCEPT !.manifest = source],
                          !["payload"].manifest = 0]

Diagnose ==
  /\ pc = "failing"
  /\ \/ flags.published /\ UNCHANGED <<fs, flags>>
     \/ /\ ~flags.published
        /\ flags.manifest /\ ~flags.recovery_needed => fs["payload"] # Missing
        /\ fs' = FailureManifest
        /\ UNCHANGED flags
     \/ /\ ~flags.published   (* The manifest cannot be written: a note on the error. *)
        /\ flags' = [flags EXCEPT !.noted = TRUE]
        /\ UNCHANGED fs
  /\ pc' = "report"
  /\ UNCHANGED <<leaked, attempt, publishing, good, stranded, flushed, interrupted>>

Failure ==
  [attempt |-> attempt, code |-> "attempt.failed",
   preserved |-> flags.previous /\ ~flags.published /\ ~flags.recovery_needed]

Report ==
  /\ pc = "report"
  /\ \/ /\ ~flags.poisoned
        /\ fs' = Logged(paths[JOURNAL], Failure)
        /\ flushed' = Append(flushed, Failure)
     \/ UNCHANGED <<fs, flushed>>   (* The sink fails, now or before. *)
  /\ pc' = "exit"
  /\ UNCHANGED <<leaked, attempt, flags, publishing, good, stranded, interrupted>>

Emptied == [p \in Places |-> IF p \in Workspaces THEN Missing ELSE fs[p]]
Held == { fs[p] : p \in Workspaces } \ {Missing}

(* Mutant of Exit: the workspaces are removed after a failed rollback. *)
ExitRemoving ==
  /\ pc = "exit"
  /\ fs' = Emptied
  /\ pc' = "idle"
  /\ UNCHANGED <<leaked, attempt, flags, publishing, good, stranded, flushed, interrupted>>

Exit ==
  /\ pc = "exit"
  /\ fs' = Emptied
  /\ leaked' = IF flags.recovery_needed THEN leaked \cup Held ELSE leaked
  /\ pc' = "idle"
  /\ UNCHANGED <<attempt, flags, publishing, good, stranded, flushed, interrupted>>

(* The process dies; its workspaces stay where they are. *)
Crash ==
  /\ pc # "idle"
  /\ fs' = Emptied
  /\ leaked' = leaked \cup Held
  /\ stranded' = TRUE
  /\ pc' = "idle" /\ moved' = NoMove
  /\ UNCHANGED <<attempt, flags, paths, index, undo, good, flushed, interrupted>>

Next ==
  \/ Start
  \/ Emit("begin", "attempt.started", "build")
  \/ \E collides \in BOOLEAN : Build(collides)
  \/ \E staged \in {0, attempt} : BuildFails(staged)
  \/ Reject
  \/ Emit("prepared", "payload.prepared", "secondary")
  \/ WriteSecondary
  \/ Emit("announce", "publication.started", "displace")
  \/ Rename \/ Record \/ Skip \/ PublishFails \/ Interrupt \/ Published
  \/ Emit("complete", "attempt.published", "exit")
  \/ RollBack \/ RolledBack \/ RollBackFails
  \/ Diagnose \/ Report \/ Exit \/ Crash

Spec == Init /\ [][Next]_vars

-----------------------------------------------------------------------------
Everything == ({ fs[p] : p \in Places } \ {Missing}) \cup leaked

(* "The previous complete directory is restored if any publication         *)
(* operation fails": an attempt delivers its payload to both outputs or    *)
(* leaves both alone.                                                      *)
Outputs == { Targets[t].destination : t \in DOMAIN Targets }
Promise == INSTANCE Delivery WITH
  Outputs <- Outputs, latest <- attempt, attempting <- (pc # "idle"), inPlace <- ~stranded,
  outputs <- [o \in Outputs |-> IF pc = "idle" /\ ~stranded THEN Payload(o) ELSE good]
Delivers == Promise!Spec

(* The last good payload is never deleted: however an attempt ends, it is  *)
(* at its destination or in a workspace left for recovery.  publish()      *)
(* catches BaseException, so that is meant of an interrupt as well.        *)
GoodAlwaysSurvives == good # 0 => \E d \in Everything : d.payload = good

(* The same of an attempt that fails at any step or dies, but in which no  *)
(* interrupt arrives between a rename and its record.                      *)
GoodSurvives == interrupted \/ GoodAlwaysSurvives

(* A failed rerun never replaces the last good manifest: the payload and   *)
(* the manifest readers find are of one attempt.                           *)
WholePackages == Payload("extracted") # 0 => fs["extracted"].manifest = Payload("extracted")

(* Journals have their own append-only lifetime: every event written is in *)
(* some journal, in the order of writing; an interrupt can lose the        *)
(* journal with the displaced directory, but never reorders it.            *)
HistoryKept ==
  /\ \A a \in DOMAIN flushed : interrupted \/ \E d \in Everything : flushed[a] \in ToSet(d.kept[JOURNAL])
  /\ \A d \in Everything : \A i, j \in DOMAIN d.kept[JOURNAL], a, b \in DOMAIN flushed :
       i < j /\ d.kept[JOURNAL][i] = flushed[a] /\ d.kept[JOURNAL][j] = flushed[b] => a < b

(* What the journal says of the last attempt is so: a published payload is *)
(* at its destination, a previous payload reported as preserved is too.    *)
JournalTellsTruth ==
  pc = "idle" /\ ~stranded /\ flushed # <<>> =>
    LET e == Last(flushed)
    IN  /\ e.code = "attempt.published" => Payload("extracted") = e.attempt
        /\ e.preserved => Payload("extracted") = good /\ good # e.attempt

(* The journals keep every event in the order of writing, and what they say *)
(* of the last attempt is so.                                              *)
HistoryIsTrue == HistoryKept /\ JournalTellsTruth

(* "Without an earlier payload, the failed attempt also leaves its         *)
(* manifest" (resource-recovery.md), when nothing stopped it.              *)
FailureLeavesManifest ==
  pc = "idle" /\ good = 0 /\ ~stranded /\ flags.manifest /\ ~flags.noted =>
    fs["extracted"] # Missing /\ fs["extracted"].manifest = attempt

-----------------------------------------------------------------------------
(* Why the promise is kept: publish() makes its renames in one order, what *)
(* it has undone is undone in the reverse order, and at each moment the    *)
(* two tell where the old and the new payload of a target are.             *)

Publishing == pc \in {"displace", "carry", "commit"}
Carriage == { Move("previous", "payload", name) : name \in Retained }

FirstOut == Displacement(Destination)
SecondOut == Displacement(OutputFile)
FirstIn == Commitment(Destination)
SecondIn == Commitment(OutputFile)

(* The renames of each moment, recorded ones and the one that is not yet.  *)
RenamesInOrder ==
  /\ pc \in {"begin", "build", "prepared", "secondary", "announce"} =>
       index = 1 /\ moved = NoMove /\ undo = Undone
  /\ pc = "displace" =>
       \/ index = 1 /\ undo = Undone /\ moved \in {NoMove, FirstOut}
       \/ /\ Secondary /\ index = 2 /\ undo.committed = <<FirstIn>>
          /\ undo.displaced \in {<<>>, <<FirstOut>>} /\ moved \in {NoMove, SecondOut}
  /\ pc = "carry" =>
       /\ index = 1 /\ undo.committed = <<>> /\ undo.displaced = <<FirstOut>>
       /\ moved \in {NoMove} \cup Carriage
  /\ pc = "commit" =>
       \/ /\ index = 1 /\ undo.committed = <<>>
          /\ undo.displaced \in {<<>>, <<FirstOut>>} /\ moved \in {NoMove, FirstIn}
       \/ /\ Secondary /\ index = 2 /\ undo.committed = <<FirstIn>>
          /\ undo.displaced \in {<<>>, <<FirstOut>>, <<SecondOut>>, <<FirstOut, SecondOut>>}
          /\ moved \in {NoMove, SecondIn}
  /\ pc = "rollback" =>
       /\ undo.committed \in {<<>>, <<FirstIn>>}
       /\ undo.displaced \in {<<>>, <<FirstOut>>, <<SecondOut>>, <<FirstOut, SecondOut>>}
  /\ Publishing \/ pc = "rollback" => undo.carried \in Seq(Carriage)
  /\ ~Publishing => moved = NoMove

(* The second output replaces no file that was not displaced first.        *)
CopyIsCleared ==
  (pc = "commit" /\ index = 2 /\ moved = NoMove) \/ (pc = "displace" /\ moved = SecondOut) =>
    fs["copy"] = Missing

RecoveryIsLast == flags.recovery_needed => pc \in {"failing", "report", "exit", "idle"}

FirstDisplaced == moved = FirstOut \/ undo.displaced \in {<<FirstOut>>, <<FirstOut, SecondOut>>}
SecondDisplaced == moved = SecondOut \/ undo.displaced \in {<<SecondOut>>, <<FirstOut, SecondOut>>}
FirstCommitted == moved = FirstIn \/ undo.committed # <<>>
SecondCommitted == moved = SecondIn   (* Recorded, it ends publish(). *)

(* The attempt's own payload: staged until it is committed. *)
HoldsNew(place) == fs[place] # Missing /\ fs[place].payload = attempt /\ fs[place].manifest = attempt

NewIsStaged ==
  /\ pc \in {"prepared", "secondary", "announce"} => HoldsNew("payload")
  /\ pc = "announce" /\ Secondary => HoldsNew("output")
  /\ Publishing => HoldsNew(IF FirstCommitted THEN "extracted" ELSE "payload")
  /\ Publishing /\ Secondary => HoldsNew(IF SecondCommitted THEN "copy" ELSE "output")
  /\ pc = "rollback" /\ undo.committed # <<>> => HoldsNew("extracted")

(* The last good payload: at its destination unless it was displaced.      *)
HoldsOld(target, displaced, committed) ==
  IF displaced THEN Payload(target.backup) = good
    ELSE IF committed THEN good = 0 ELSE Payload(target.destination) = good

FirstHeld == HoldsOld(Destination, FirstDisplaced, FirstCommitted)
SecondHeld == Secondary => HoldsOld(OutputFile, SecondDisplaced, SecondCommitted)

Unsettled == Publishing \/ pc = "rollback"
Abandoned == pc \in {"failing", "report", "exit"} /\ flags.recovery_needed

OldIsInPlace ==
  ~stranded =>
    /\ ~Abandoned
    /\ Unsettled => FirstHeld /\ SecondHeld
    /\ ~Unsettled => \A o \in Outputs : Payload(o) = good

OldIsHeld ==
  \/ interrupted \/ good = 0 \/ \E d \in leaked : d.payload = good
  \/ IF Unsettled THEN FirstHeld
       ELSE \/ Payload("extracted") = good
            \/ Abandoned /\ Payload("previous") = good

(* A payload never meets the manifest of another attempt.                  *)
WholeAt(place) == Payload(place) # 0 => fs[place].manifest = Payload(place)

PlacesAreWhole ==
  /\ WholeAt("extracted") /\ WholeAt("previous")
  /\ pc \notin {"report", "exit"} => WholeAt("payload")
  /\ pc = "idle" => \A p \in Workspaces : fs[p] = Missing
  /\ fs["payload"] # Missing =>
       fs["payload"].payload \in {0, attempt} /\ fs["payload"].manifest \in {0, attempt}
  /\ pc # "idle" /\ ~flags.existed =>
       Payload("extracted") \in {0, attempt} /\ Payload("previous") \in {0, attempt}

PromiseIsKept ==
  /\ RenamesInOrder /\ CopyIsCleared /\ RecoveryIsLast
  /\ NewIsStaged /\ OldIsInPlace /\ OldIsHeld /\ PlacesAreWhole

=============================================================================
