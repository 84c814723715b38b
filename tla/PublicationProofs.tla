-------------------------- MODULE PublicationProofs --------------------------
(* Publication keeps its promise, for any number of attempts and wherever   *)
(* they fail, die or are interrupted: the last good payload survives, no    *)
(* payload meets another's manifest, every call delivers all or nothing, and *)
(* the event journal keeps every event in order.                           *)
EXTENDS Publication, SequenceTheorems, TLAPS

(***************************************************************************)
(* The shape of the constants and of the renames.                          *)
(***************************************************************************)
LEMMA TargetShape ==
  /\ 1 \in 1..Len(Targets) /\ Targets[1] = Destination
  /\ IF Secondary THEN Len(Targets) = 2 /\ Targets[2] = OutputFile
                  ELSE Len(Targets) = 1
BY PublicationAssumption DEF Targets

LEMMA JournalIsRetained == JOURNAL \in Retained /\ Retained \subseteq {JOURNAL, "preparation.log"}
PROOF
  <1>1. RETAINED_HISTORY = <<JOURNAL, "preparation.log">>
    BY DEF RETAINED_HISTORY
  <1>2. DOMAIN RETAINED_HISTORY = {1, 2} /\ RETAINED_HISTORY[1] = JOURNAL
        /\ RETAINED_HISTORY[2] = "preparation.log"
    BY <1>1
  <1>3. QED BY <1>2 DEF Retained, ToSet

LEMMA RetainedIsNamed == \A n \in 1..Len(RETAINED_HISTORY) : RETAINED_HISTORY[n] \in Retained
PROOF
  <1>1. DOMAIN RETAINED_HISTORY = 1..Len(RETAINED_HISTORY)
    BY DEF RETAINED_HISTORY
  <1>2. QED BY <1>1 DEF Retained, ToSet

(* The renames, written out. *)
LEMMA MoveShape ==
  /\ FirstOut = [from |-> "extracted", to |-> "previous", file |-> ""]
  /\ SecondOut = [from |-> "copy", to |-> "previous copy", file |-> ""]
  /\ FirstIn = [from |-> "payload", to |-> "extracted", file |-> ""]
  /\ SecondIn = [from |-> "output", to |-> "copy", file |-> ""]
  /\ NoMove = [from |-> "extracted", to |-> "extracted", file |-> ""]
BY DEF FirstOut, SecondOut, FirstIn, SecondIn, NoMove, Displacement, Commitment, Move, Destination,
       OutputFile, Whole

LEMMA CarriageShape ==
  \A m \in Carriage : m.from = "previous" /\ m.to = "payload" /\ m.file \in Retained /\ m.file # ""
PROOF
  <1>1. "" \notin Retained
    BY JournalIsRetained DEF JOURNAL
  <1>2. ASSUME NEW m \in Carriage
        PROVE  m.from = "previous" /\ m.to = "payload" /\ m.file \in Retained
    <2>1. PICK name \in Retained : m = [from |-> "previous", to |-> "payload", file |-> name]
      BY DEF Carriage, Move
    <2>2. QED BY <2>1
  <1>3. QED BY <1>1, <1>2

LEMMA MovesAreMoves ==
  /\ {FirstOut, SecondOut, FirstIn, SecondIn, NoMove} \subseteq Moves
  /\ Carriage \subseteq Moves
PROOF
  <1>1. {"extracted", "copy", "payload", "previous", "output", "previous copy"} \subseteq Places
    BY DEF Places, Workspaces
  <1>2. Moves = [from: Places, to: Places, file: Retained \cup {""}]
    BY DEF Moves, Whole
  <1>3. /\ FirstOut \in Moves /\ SecondOut \in Moves /\ FirstIn \in Moves /\ SecondIn \in Moves
        /\ NoMove \in Moves
    BY <1>1, <1>2, MoveShape
  <1>4. ASSUME NEW m \in Carriage
        PROVE  m \in Moves
    <2>1. PICK name \in Retained : m = [from |-> "previous", to |-> "payload", file |-> name]
      BY DEF Carriage, Move
    <2>2. QED BY <1>1, <1>2, <2>1
  <1>5. QED BY <1>3, <1>4

LEMMA MovesDiffer ==
  /\ FirstOut # SecondOut /\ FirstOut # FirstIn /\ FirstOut # SecondIn /\ FirstOut # NoMove
  /\ SecondOut # FirstIn /\ SecondOut # SecondIn /\ SecondOut # NoMove
  /\ FirstIn # SecondIn /\ FirstIn # NoMove /\ SecondIn # NoMove
  /\ \A m \in Carriage : m \notin {FirstOut, SecondOut, FirstIn, SecondIn, NoMove}
PROOF
  <1>1. /\ FirstOut.to = "previous" /\ SecondOut.to = "previous copy"
        /\ FirstIn.to = "extracted" /\ FirstIn.from = "payload"
        /\ SecondIn.to = "copy" /\ NoMove.to = "extracted" /\ NoMove.from = "extracted"
    BY MoveShape
  <1>2. /\ FirstOut.file = "" /\ SecondOut.file = "" /\ FirstIn.file = "" /\ SecondIn.file = ""
        /\ NoMove.file = ""
    BY MoveShape
  <1>3. QED BY <1>1, <1>2, CarriageShape

LEMMA LastOfSeq ==
  ASSUME NEW S, NEW s \in Seq(S), s # <<>>
  PROVE  Last(s) \in S /\ Front(s) \in Seq(S)
PROOF
  <1>1. Len(s) \in Nat \ {0}
    BY EmptySeq
  <1>2. \A i \in 1..(Len(s) - 1) : s[i] \in S
    BY <1>1
  <1>3. SubSeq(s, 1, Len(s) - 1) \in Seq(S)
    BY <1>1, <1>2, SubSeqProperties
  <1>4. QED BY <1>1, <1>3 DEF Last, Front

(***************************************************************************)
(* What the steps do to the directories.                                   *)
(***************************************************************************)
FilesOK == fs \in [Places -> Directories \cup {Missing}]
Versions == 0..MaxAttempts

LEMMA DirectoryShape ==
  \A d \in Directories : /\ d.payload \in Versions /\ d.manifest \in Versions /\ d # Missing
                         /\ d.kept \in [Retained -> Seq(Events)]
BY MissingAssumption DEF Directories, Versions

LEMMA NewDirectory ==
  ASSUME NEW payload \in Versions, NEW manifest \in Versions
  PROVE  /\ Directory(payload, manifest) \in Directories
         /\ Directory(payload, manifest).payload = payload
         /\ Directory(payload, manifest).manifest = manifest
PROOF
  <1>1. <<>> \in Seq(Events)
    OBVIOUS
  <1>2. [name \in Retained |-> <<>>] \in [Retained -> Seq(Events)]
    BY <1>1
  <1>3. QED BY <1>2 DEF Directory, Directories, Versions

LEMMA KeptChanges ==
  ASSUME NEW d \in Directories, NEW name \in Retained, NEW s \in Seq(Events)
  PROVE  /\ [d EXCEPT !.kept[name] = s] \in Directories
         /\ [d EXCEPT !.kept[name] = s].payload = d.payload
         /\ [d EXCEPT !.kept[name] = s].manifest = d.manifest
PROOF
  <1>1. PICK payload \in Versions, manifest \in Versions, kept \in [Retained -> Seq(Events)] :
          d = [payload |-> payload, manifest |-> manifest, kept |-> kept]
    BY DEF Directories, Versions
  <1> DEFINE new == [kept EXCEPT ![name] = s]
  <1>2. new \in [Retained -> Seq(Events)]
    OBVIOUS
  <1>3. [d EXCEPT !.kept[name] = s] = [d EXCEPT !.kept = new]
    BY <1>1
  <1> HIDE DEF new
  <1>4. [d EXCEPT !.kept = new] = [payload |-> payload, manifest |-> manifest, kept |-> new]
    BY <1>1
  <1>5. QED BY <1>1, <1>2, <1>3, <1>4 DEF Directories, Versions

LEMMA ManifestChanges ==
  ASSUME NEW d \in Directories, NEW manifest \in Versions
  PROVE  /\ [d EXCEPT !.manifest = manifest] \in Directories
         /\ [d EXCEPT !.manifest = manifest].payload = d.payload
         /\ [d EXCEPT !.manifest = manifest].manifest = manifest
PROOF
  <1>1. PICK payload \in Versions, old \in Versions, kept \in [Retained -> Seq(Events)] :
          d = [payload |-> payload, manifest |-> old, kept |-> kept]
    BY DEF Directories, Versions
  <1>2. [d EXCEPT !.manifest = manifest] = [payload |-> payload, manifest |-> manifest, kept |-> kept]
    BY <1>1
  <1>3. QED BY <1>1, <1>2 DEF Directories, Versions

(* Writing a journal changes no payload and no manifest. *)
Version(place) == IF fs[place] = Missing THEN 0 ELSE fs[place].manifest
SameProducts ==
  \A p \in Places : /\ Payload(p)' = Payload(p) /\ Version(p)' = Version(p)
                    /\ fs'[p] = Missing => fs[p] = Missing

LEMMA LoggedShape ==
  ASSUME FilesOK, NEW place \in Places, NEW e \in Events, fs' = Logged(place, e)
  PROVE  FilesOK' /\ SameProducts /\ \A p \in Places : p # place => fs'[p] = fs[p]
PROOF
  <1> DEFINE home == IF fs[place] = Missing THEN Directory(0, 0) ELSE fs[place]
             new == [home EXCEPT !.kept[JOURNAL] = Append(home.kept[JOURNAL], e)]
  <1>1. 0 \in Versions
    BY PublicationAssumption DEF Versions
  <1>2. /\ home \in Directories /\ home.payload = Payload(place) /\ home.manifest = Version(place)
    BY <1>1, NewDirectory DEF FilesOK, Payload, Version
  <1>3. fs' = [fs EXCEPT ![place] = new]
    BY DEF Logged
  <1> HIDE DEF home
  <1>4. Append(home.kept[JOURNAL], e) \in Seq(Events)
    BY <1>2, JournalIsRetained, DirectoryShape
  <1>5. new \in Directories /\ new.payload = Payload(place) /\ new.manifest = Version(place)
    BY <1>2, <1>4, JournalIsRetained, KeptChanges
  <1> HIDE DEF new
  <1>6. fs'[place] = new /\ new # Missing /\ \A p \in Places : p # place => fs'[p] = fs[p]
    BY <1>3, <1>5, DirectoryShape DEF FilesOK
  <1>7. FilesOK'
    BY <1>3, <1>5 DEF FilesOK
  <1>8. SameProducts
    BY <1>5, <1>6 DEF SameProducts, Payload, Version
  <1>9. QED BY <1>6, <1>7, <1>8

(* A rename of a directory. *)
LEMMA RenamedWhole ==
  ASSUME FilesOK, NEW m, m.from \in Places, m.to \in Places, m.from # m.to, m.file = "",
         fs[m.from] # Missing, fs' = Renamed(m)
  PROVE  /\ FilesOK'
         /\ \A p \in Places : fs'[p] = IF p = m.to THEN fs[m.from]
                                       ELSE IF p = m.from THEN Missing ELSE fs[p]
PROOF
  <1>1. fs' = [fs EXCEPT ![m.to] = fs[m.from], ![m.from] = Missing]
    BY DEF Renamed, Whole
  <1>2. QED BY <1>1 DEF FilesOK

(* A rename of a retained file. *)
LEMMA RenamedFile ==
  ASSUME FilesOK, NEW m, m.from \in Places, m.to \in Places, m.from # m.to, m.file \in Retained,
         m.file # "", fs[m.from] # Missing, fs[m.to] # Missing, fs' = Renamed(m)
  PROVE  FilesOK' /\ SameProducts /\ \A p \in Places : fs'[p] = Missing <=> fs[p] = Missing
PROOF
  <1> DEFINE source == [fs[m.from] EXCEPT !.kept[m.file] = <<>>]
             target == [fs[m.to] EXCEPT !.kept[m.file] = fs[m.from].kept[m.file]]
  <1>1. fs[m.from] \in Directories /\ fs[m.to] \in Directories
    BY DEF FilesOK
  <1>2. <<>> \in Seq(Events)
    BY EmptySeq
  <1>12. fs[m.from].kept[m.file] \in Seq(Events)
    BY <1>1, DirectoryShape
  <1>3. source \in Directories /\ source.payload = fs[m.from].payload /\ source.manifest = fs[m.from].manifest
    BY <1>1, <1>2, KeptChanges
  <1>4. target \in Directories /\ target.payload = fs[m.to].payload /\ target.manifest = fs[m.to].manifest
    BY <1>1, <1>12, KeptChanges
  <1>5. fs' = [fs EXCEPT ![m.to].kept[m.file] = fs[m.from].kept[m.file], ![m.from].kept[m.file] = <<>>]
    BY DEF Renamed, Whole
  <1>6. fs' = [fs EXCEPT ![m.to] = target, ![m.from] = source]
    BY <1>5 DEF FilesOK
  <1> HIDE DEF source, target
  <1>7. /\ fs'[m.from] = source /\ fs'[m.to] = target
        /\ \A p \in Places : p \notin {m.from, m.to} => fs'[p] = fs[p]
    BY <1>6 DEF FilesOK
  <1>8. FilesOK'
    BY <1>3, <1>4, <1>6 DEF FilesOK
  <1>9. source # Missing /\ target # Missing
    BY <1>3, <1>4, DirectoryShape
  <1>10. SameProducts
    BY <1>3, <1>4, <1>7, <1>9 DEF SameProducts, Payload, Version
  <1>11. QED BY <1>7, <1>8, <1>9, <1>10

(***************************************************************************)
(* The steps of publish(), one rename at a time.                           *)
(***************************************************************************)
DirectoryMoves(from, to) ==
  /\ fs[from] # Missing
  /\ \A p \in Places : fs'[p] = IF p = to THEN fs[from] ELSE IF p = from THEN Missing ELSE fs[p]

FileMoves == SameProducts /\ \A p \in Places : fs'[p] = Missing <=> fs[p] = Missing

LEMMA PlacesNamed ==
  Places = {"extracted", "copy", "payload", "previous", "output", "previous copy"}
BY DEF Places, Workspaces

LEMMA DirectoryRenamed ==
  ASSUME FilesOK, NEW from \in Places, NEW to \in Places, from # to,
         Renamable(Move(from, to, "")), fs' = Renamed(Move(from, to, ""))
  PROVE  FilesOK' /\ DirectoryMoves(from, to) /\ (to # "copy" => fs[to] = Missing)
PROOF
  <1> DEFINE m == Move(from, to, "")
  <1>1. m.from = from /\ m.to = to /\ m.file = ""
    BY DEF Move
  <1>2. fs[m.from] # Missing /\ (m.to = "copy" \/ fs[m.to] = Missing)
    BY <1>1 DEF Renamable, Whole
  <1>3. fs' = Renamed(m)
    OBVIOUS
  <1> HIDE DEF m
  <1>4. FilesOK' /\ \A p \in Places : fs'[p] = IF p = m.to THEN fs[m.from]
                                               ELSE IF p = m.from THEN Missing ELSE fs[p]
    BY <1>1, <1>2, <1>3, RenamedWhole
  <1>5. QED BY <1>1, <1>2, <1>4 DEF DirectoryMoves

LEMMA FileRenamed ==
  ASSUME FilesOK, NEW from \in Places, NEW to \in Places, from # to, NEW file \in Retained,
         Renamable(Move(from, to, file)), fs' = Renamed(Move(from, to, file))
  PROVE  FilesOK' /\ FileMoves
PROOF
  <1> DEFINE m == Move(from, to, file)
  <1>1. m.from = from /\ m.to = to /\ m.file = file
    BY DEF Move
  <1>2. file # ""
    BY JournalIsRetained DEF JOURNAL
  <1>3. fs[m.from] # Missing /\ fs[m.to] # Missing
    BY <1>1, <1>2 DEF Renamable, Whole
  <1>4. fs' = Renamed(m)
    OBVIOUS
  <1> HIDE DEF m
  <1>5. QED BY <1>1, <1>2, <1>3, <1>4, RenamedFile DEF FileMoves

LEMMA MovesBuilt ==
  /\ FirstOut = Move("extracted", "previous", "") /\ SecondOut = Move("copy", "previous copy", "")
  /\ FirstIn = Move("payload", "extracted", "") /\ SecondIn = Move("output", "copy", "")
BY MoveShape DEF Move

(* Rename performs the next rename of the order. *)
RenamesFirstOut ==
  /\ pc = "displace" /\ index = 1 /\ undo = Undone /\ moved' = FirstOut
  /\ DirectoryMoves("extracted", "previous") /\ fs["previous"] = Missing
RenamesSecondOut ==
  /\ pc = "displace" /\ Secondary /\ index = 2 /\ undo.committed = <<FirstIn>>
  /\ undo.displaced \in {<<>>, <<FirstOut>>} /\ moved' = SecondOut
  /\ DirectoryMoves("copy", "previous copy") /\ fs["previous copy"] = Missing
RenamesFile ==
  /\ pc = "carry" /\ index = 1 /\ undo.committed = <<>> /\ undo.displaced = <<FirstOut>>
  /\ moved' \in Carriage /\ FileMoves
RenamesFirstIn ==
  /\ pc = "commit" /\ index = 1 /\ undo.committed = <<>> /\ undo.displaced \in {<<>>, <<FirstOut>>}
  /\ moved' = FirstIn /\ DirectoryMoves("payload", "extracted") /\ fs["extracted"] = Missing
RenamesSecondIn ==
  /\ pc = "commit" /\ Secondary /\ index = 2 /\ undo.committed = <<FirstIn>>
  /\ undo.displaced \in {<<>>, <<FirstOut>>, <<SecondOut>>, <<FirstOut, SecondOut>>}
  /\ moved' = SecondIn /\ DirectoryMoves("output", "copy")

LEMMA RenameSteps ==
  ASSUME TypeOK, RenamesInOrder, Rename
  PROVE  /\ moved = NoMove /\ FilesOK'
         /\ RenamesFirstOut \/ RenamesSecondOut \/ RenamesFile \/ RenamesFirstIn \/ RenamesSecondIn
PROOF
  <1>1. PICK m \in Steps : Renamable(m) /\ fs' = Renamed(m) /\ moved' = m
    BY DEF Rename
  <1>2. moved = NoMove /\ FilesOK
    BY DEF Rename, TypeOK, FilesOK
  <1>3. pc \in {"displace", "carry", "commit"}
    BY DEF Steps
  <1>4. index = 1 => Target = Destination
    BY TargetShape DEF Target
  <1>5. Secondary /\ index = 2 => Target = OutputFile
    BY TargetShape DEF Target
  <1>6. CASE pc = "displace"
    <2>1. m = Displacement(Target)
      BY <1>6 DEF Steps
    <2>2. \/ index = 1 /\ undo = Undone
          \/ /\ Secondary /\ index = 2 /\ undo.committed = <<FirstIn>>
             /\ undo.displaced \in {<<>>, <<FirstOut>>}
      BY <1>6 DEF RenamesInOrder
    <2>3. CASE index = 1 /\ undo = Undone
      <3>1. m = Move("extracted", "previous", "")
        BY <1>4, <2>1, <2>3, MovesBuilt DEF FirstOut
      <3>2. FilesOK' /\ DirectoryMoves("extracted", "previous") /\ fs["previous"] = Missing
        BY <1>1, <1>2, <3>1, PlacesNamed, DirectoryRenamed
      <3>3. QED BY <1>1, <1>2, <1>6, <2>3, <3>1, <3>2, MovesBuilt DEF RenamesFirstOut
    <2>4. CASE /\ Secondary /\ index = 2 /\ undo.committed = <<FirstIn>>
               /\ undo.displaced \in {<<>>, <<FirstOut>>}
      <3>1. m = Move("copy", "previous copy", "")
        BY <1>5, <2>1, <2>4, MovesBuilt DEF SecondOut
      <3>2. FilesOK' /\ DirectoryMoves("copy", "previous copy") /\ fs["previous copy"] = Missing
        BY <1>1, <1>2, <3>1, PlacesNamed, DirectoryRenamed
      <3>3. QED BY <1>1, <1>2, <1>6, <2>4, <3>1, <3>2, MovesBuilt DEF RenamesSecondOut
    <2>5. QED BY <2>2, <2>3, <2>4
  <1>7. CASE pc = "carry"
    <2>1. index = 1 /\ undo.committed = <<>> /\ undo.displaced = <<FirstOut>>
      BY <1>7 DEF RenamesInOrder
    <2>2. PICK n \in NextCarried : m = Move(Target.backup, Target.stage, RETAINED_HISTORY[n])
      BY <1>7 DEF Steps
    <2>3. Target.backup = "previous" /\ Target.stage = "payload"
      BY <1>4, <2>1 DEF Destination
    <2>4. RETAINED_HISTORY[n] \in Retained
      BY RetainedIsNamed DEF NextCarried
    <2>5. m \in Carriage
      BY <2>2, <2>3, <2>4 DEF Carriage
    <2>6. FilesOK' /\ FileMoves
      BY <1>1, <1>2, <2>2, <2>3, <2>4, PlacesNamed, FileRenamed
    <2>7. QED BY <1>1, <1>2, <1>7, <2>1, <2>5, <2>6 DEF RenamesFile
  <1>8. CASE pc = "commit"
    <2>1. m = Commitment(Target)
      BY <1>8 DEF Steps
    <2>2. \/ index = 1 /\ undo.committed = <<>> /\ undo.displaced \in {<<>>, <<FirstOut>>}
          \/ /\ Secondary /\ index = 2 /\ undo.committed = <<FirstIn>>
             /\ undo.displaced \in {<<>>, <<FirstOut>>, <<SecondOut>>, <<FirstOut, SecondOut>>}
      BY <1>8 DEF RenamesInOrder
    <2>3. CASE index = 1 /\ undo.committed = <<>> /\ undo.displaced \in {<<>>, <<FirstOut>>}
      <3>1. m = Move("payload", "extracted", "")
        BY <1>4, <2>1, <2>3, MovesBuilt DEF FirstIn
      <3>2. FilesOK' /\ DirectoryMoves("payload", "extracted") /\ fs["extracted"] = Missing
        BY <1>1, <1>2, <3>1, PlacesNamed, DirectoryRenamed
      <3>3. QED BY <1>1, <1>2, <1>8, <2>3, <3>1, <3>2, MovesBuilt DEF RenamesFirstIn
    <2>4. CASE /\ Secondary /\ index = 2 /\ undo.committed = <<FirstIn>>
               /\ undo.displaced \in {<<>>, <<FirstOut>>, <<SecondOut>>, <<FirstOut, SecondOut>>}
      <3>1. m = Move("output", "copy", "")
        BY <1>5, <2>1, <2>4, MovesBuilt DEF SecondIn
      <3>2. FilesOK' /\ DirectoryMoves("output", "copy")
        BY <1>1, <1>2, <3>1, PlacesNamed, DirectoryRenamed
      <3>3. QED BY <1>1, <1>2, <1>8, <2>4, <3>1, <3>2, MovesBuilt DEF RenamesSecondIn
    <2>5. QED BY <2>2, <2>3, <2>4
  <1>9. QED BY <1>3, <1>6, <1>7, <1>8

(* Lists of one and two renames. *)
LEMMA ShortLists ==
  ASSUME NEW x, NEW y
  PROVE  /\ Append(<<>>, x) = <<x>> /\ Append(<<x>>, y) = <<x, y>>
         /\ Last(<<x>>) = x /\ Front(<<x>>) = <<>>
         /\ Last(<<x, y>>) = y /\ Front(<<x, y>>) = <<x>>
PROOF
  <1> DEFINE S == {x, y}
  <1>1. /\ <<>> \in Seq(S) /\ <<x>> \in Seq(S) /\ <<x, y>> \in Seq(S)
    OBVIOUS
  <1>2. /\ Len(<<>>) = 0 /\ Len(<<x>>) = 1 /\ Len(<<x, y>>) = 2
        /\ <<x>>[1] = x /\ <<x, y>>[1] = x /\ <<x, y>>[2] = y
    OBVIOUS
  <1>3. Append(<<>>, x) = <<x>>
    OBVIOUS
  <1>4. Append(<<x>>, y) = <<x, y>>
    <2>1. Append(<<x>>, y) \in Seq(S) /\ Len(Append(<<x>>, y)) = 2
          /\ Append(<<x>>, y)[1] = x /\ Append(<<x>>, y)[2] = y
      BY <1>1, <1>2, AppendProperties
    <2>2. \A i \in 1..2 : i = 1 \/ i = 2
      OBVIOUS
    <2>3. QED BY <1>1, <1>2, <2>1, <2>2, SeqEqual
  <1>5. Last(<<x>>) = x /\ Last(<<x, y>>) = y
    BY <1>2 DEF Last
  <1>6. Front(<<x>>) = <<>>
    BY <1>2, SubSeqEmpty DEF Front
  <1>7. Front(<<x, y>>) = <<x>>
    <2>1. Front(<<x, y>>) = SubSeq(<<x, y>>, 1, 1)
      BY <1>2 DEF Front
    <2>2. \A i \in 1..1 : <<x, y>>[i] \in S
      OBVIOUS
    <2>3. /\ SubSeq(<<x, y>>, 1, 1) \in Seq(S) /\ Len(SubSeq(<<x, y>>, 1, 1)) = 1
          /\ SubSeq(<<x, y>>, 1, 1)[1] = x
      BY <1>2, <2>2, SubSeqProperties
    <2>4. \A i \in 1..1 : i = 1
      OBVIOUS
    <2>5. QED BY <1>1, <1>2, <2>1, <2>3, <2>4, SeqEqual
  <1>8. QED BY <1>3, <1>4, <1>5, <1>6, <1>7

(* Record appends the rename to its list. *)
UndoOK == undo \in [committed: Seq(Moves), displaced: Seq(Moves), carried: Seq(Moves)]

LEMMA UndoShape ==
  ASSUME UndoOK
  PROVE  undo.committed \in Seq(Moves) /\ undo.displaced \in Seq(Moves) /\ undo.carried \in Seq(Moves)
BY DEF UndoOK

LEMMA UndoChanges ==
  ASSUME UndoOK, NEW s \in Seq(Moves)
  PROVE  /\ undo' = [undo EXCEPT !.displaced = s] =>
              UndoOK' /\ undo'.displaced = s /\ undo'.committed = undo.committed
                      /\ undo'.carried = undo.carried
         /\ undo' = [undo EXCEPT !.committed = s] =>
              UndoOK' /\ undo'.committed = s /\ undo'.displaced = undo.displaced
                      /\ undo'.carried = undo.carried
         /\ undo' = [undo EXCEPT !.carried = s] =>
              UndoOK' /\ undo'.carried = s /\ undo'.displaced = undo.displaced
                      /\ undo'.committed = undo.committed
PROOF
  <1>1. CASE undo' = [undo EXCEPT !.displaced = s]
    BY <1>1 DEF UndoOK
  <1>2. CASE undo' = [undo EXCEPT !.committed = s]
    BY <1>2 DEF UndoOK
  <1>3. CASE undo' = [undo EXCEPT !.carried = s]
    BY <1>3 DEF UndoOK
  <1>4. QED BY <1>1, <1>2, <1>3

RecordsFirstOut ==
  /\ pc = "displace" /\ index = 1 /\ undo = Undone /\ moved = FirstOut
  /\ pc' = "carry" /\ UNCHANGED <<index, good, stranded>>
  /\ undo'.committed = <<>> /\ undo'.displaced = <<FirstOut>> /\ undo'.carried = <<>>
RecordsSecondOut ==
  /\ pc = "displace" /\ Secondary /\ index = 2 /\ moved = SecondOut
  /\ undo.committed = <<FirstIn>> /\ undo.displaced \in {<<>>, <<FirstOut>>}
  /\ pc' = "commit" /\ UNCHANGED <<index, good, stranded>>
  /\ undo'.committed = <<FirstIn>> /\ undo'.carried = undo.carried
  /\ undo'.displaced = IF undo.displaced = <<>> THEN <<SecondOut>> ELSE <<FirstOut, SecondOut>>
RecordsFile ==
  /\ pc = "carry" /\ index = 1 /\ undo.committed = <<>> /\ undo.displaced = <<FirstOut>>
  /\ moved \in Carriage /\ UNCHANGED <<pc, index, good, stranded>>
  /\ undo'.committed = <<>> /\ undo'.displaced = <<FirstOut>>
  /\ undo'.carried = Append(undo.carried, moved)
RecordsFirstIn ==
  /\ pc = "commit" /\ Secondary /\ index = 1 /\ moved = FirstIn
  /\ undo.committed = <<>> /\ undo.displaced \in {<<>>, <<FirstOut>>}
  /\ pc' = "displace" /\ index' = 2 /\ UNCHANGED <<good, stranded>>
  /\ undo'.committed = <<FirstIn>> /\ undo'.displaced = undo.displaced /\ undo'.carried = undo.carried
RecordsLast ==
  /\ pc = "commit" /\ pc' = "returned" /\ good' = attempt /\ stranded' = FALSE
  /\ index = Len(Targets) /\ index' = index
  /\ IF Secondary THEN moved = SecondIn /\ undo.committed = <<FirstIn>> ELSE moved = FirstIn

LEMMA RecordSteps ==
  ASSUME TypeOK, RenamesInOrder, Record
  PROVE  /\ moved' = NoMove /\ UNCHANGED <<fs, leaked, attempt, flags, flushed, interrupted>>
         /\ paths' = Followed(moved) /\ UndoOK' /\ index' \in 1..Len(Targets)
         /\ RecordsFirstOut \/ RecordsSecondOut \/ RecordsFile \/ RecordsFirstIn \/ RecordsLast
PROOF
  <1>1. /\ moved # NoMove /\ moved' = NoMove /\ paths' = Followed(moved)
        /\ UNCHANGED <<fs, leaked, attempt, flags, flushed, interrupted>>
    BY DEF Record
  <1>2. UndoOK /\ index \in 1..Len(Targets) /\ moved \in Moves
    BY DEF TypeOK, UndoOK
  <1>3. pc \in {"displace", "carry", "commit"}
    BY <1>1 DEF RenamesInOrder, Publishing
  <1>4. /\ undo.committed \in Seq(Moves) /\ undo.displaced \in Seq(Moves) /\ undo.carried \in Seq(Moves)
    BY <1>2, UndoShape
  <1>5. /\ Append(undo.committed, moved) \in Seq(Moves) /\ Append(undo.displaced, moved) \in Seq(Moves)
        /\ Append(undo.carried, moved) \in Seq(Moves)
    BY <1>2, <1>4
  <1>6. /\ Append(<<>>, FirstOut) = <<FirstOut>> /\ Append(<<>>, SecondOut) = <<SecondOut>>
        /\ Append(<<>>, FirstIn) = <<FirstIn>>
        /\ Append(<<FirstOut>>, SecondOut) = <<FirstOut, SecondOut>>
    BY ShortLists
  <1>7. CASE pc = "displace"
    <2>1. /\ undo' = [undo EXCEPT !.displaced = Append(undo.displaced, moved)]
          /\ pc' = IF index = 1 THEN "carry" ELSE "commit"
          /\ UNCHANGED <<index, good, stranded>>
      BY <1>7 DEF Record
    <2>2. /\ UndoOK' /\ undo'.displaced = Append(undo.displaced, moved)
          /\ undo'.committed = undo.committed /\ undo'.carried = undo.carried
      BY <1>2, <1>5, <2>1, UndoChanges
    <2>3. \/ index = 1 /\ undo = Undone /\ moved = FirstOut
          \/ /\ Secondary /\ index = 2 /\ undo.committed = <<FirstIn>>
             /\ undo.displaced \in {<<>>, <<FirstOut>>} /\ moved = SecondOut
      BY <1>1, <1>7 DEF RenamesInOrder
    <2>4. CASE index = 1 /\ undo = Undone /\ moved = FirstOut
      <3>1. undo.committed = <<>> /\ undo.displaced = <<>> /\ undo.carried = <<>>
        BY <2>4 DEF Undone
      <3>2. RecordsFirstOut
        BY <1>6, <1>7, <2>1, <2>2, <2>4, <3>1 DEF RecordsFirstOut
      <3>3. QED BY <1>1, <1>2, <2>1, <2>2, <3>2
    <2>5. CASE /\ Secondary /\ index = 2 /\ undo.committed = <<FirstIn>>
               /\ undo.displaced \in {<<>>, <<FirstOut>>} /\ moved = SecondOut
      <3>1. <<FirstOut>> # <<>> /\ index # 1
        BY <2>5
      <3>2. /\ undo'.displaced = IF undo.displaced = <<>> THEN <<SecondOut>> ELSE <<FirstOut, SecondOut>>
            /\ pc' = "commit"
        BY <1>6, <2>1, <2>2, <2>5, <3>1
      <3>4. RecordsSecondOut
        BY <1>7, <2>1, <2>2, <2>5, <3>2 DEF RecordsSecondOut
      <3>5. QED BY <1>1, <1>2, <2>1, <2>2, <3>4
    <2>6. QED BY <2>3, <2>4, <2>5
  <1>8. CASE pc = "carry"
    <2>1. /\ undo' = [undo EXCEPT !.carried = Append(undo.carried, moved)]
          /\ UNCHANGED <<pc, index, good, stranded>>
      BY <1>8 DEF Record
    <2>2. /\ UndoOK' /\ undo'.carried = Append(undo.carried, moved)
          /\ undo'.committed = undo.committed /\ undo'.displaced = undo.displaced
      BY <1>2, <1>5, <2>1, UndoChanges
    <2>3. index = 1 /\ undo.committed = <<>> /\ undo.displaced = <<FirstOut>> /\ moved \in Carriage
      BY <1>1, <1>8 DEF RenamesInOrder
    <2>4. RecordsFile
      BY <1>8, <2>1, <2>2, <2>3 DEF RecordsFile
    <2>5. QED BY <1>1, <1>2, <2>1, <2>2, <2>4
  <1>9. CASE pc = "commit"
    <2>1. /\ undo' = [undo EXCEPT !.committed = Append(undo.committed, moved)]
          /\ IF index < Len(Targets)
               THEN pc' = "displace" /\ index' = index + 1 /\ UNCHANGED <<good, stranded>>
               ELSE pc' = "returned" /\ good' = attempt /\ stranded' = FALSE /\ UNCHANGED index
      BY <1>9 DEF Record
    <2>2. /\ UndoOK' /\ undo'.committed = Append(undo.committed, moved)
          /\ undo'.displaced = undo.displaced /\ undo'.carried = undo.carried
      BY <1>2, <1>5, <2>1, UndoChanges
    <2>3. \/ /\ index = 1 /\ undo.committed = <<>>
             /\ undo.displaced \in {<<>>, <<FirstOut>>} /\ moved = FirstIn
          \/ Secondary /\ index = 2 /\ undo.committed = <<FirstIn>> /\ moved = SecondIn
      BY <1>1, <1>9 DEF RenamesInOrder
    <2>4. CASE Secondary /\ index = 1 /\ undo.committed = <<>>
               /\ undo.displaced \in {<<>>, <<FirstOut>>} /\ moved = FirstIn
      <3>1. Len(Targets) = 2
        BY <2>4, TargetShape
      <3>2. index < Len(Targets) /\ index + 1 = 2 /\ 2 \in 1..Len(Targets)
        BY <2>4, <3>1
      <3>3. RecordsFirstIn /\ index' \in 1..Len(Targets)
        BY <1>6, <1>9, <2>1, <2>2, <2>4, <3>2 DEF RecordsFirstIn
      <3>4. QED BY <1>1, <2>2, <3>3
    <2>5. CASE ~Secondary /\ index = 1 /\ moved = FirstIn
      <3>1. Len(Targets) = 1
        BY <2>5, TargetShape
      <3>2. ~(index < Len(Targets)) /\ index = Len(Targets)
        BY <2>5, <3>1
      <3>3. RecordsLast
        BY <1>9, <2>1, <2>5, <3>2 DEF RecordsLast
      <3>4. QED BY <1>1, <1>2, <2>1, <2>2, <3>2, <3>3
    <2>6. CASE Secondary /\ index = 2 /\ undo.committed = <<FirstIn>> /\ moved = SecondIn
      <3>1. Len(Targets) = 2
        BY <2>6, TargetShape
      <3>2. ~(index < Len(Targets)) /\ index = Len(Targets)
        BY <2>6, <3>1
      <3>3. RecordsLast
        BY <1>9, <2>1, <2>6, <3>2 DEF RecordsLast
      <3>4. QED BY <1>1, <1>2, <2>1, <2>2, <3>2, <3>3
    <2>7. QED BY <2>3, <2>4, <2>5, <2>6, PublicationAssumption
  <1>10. QED BY <1>3, <1>7, <1>8, <1>9

(* RollBack takes the last rename back. *)
UnwindsFirstIn ==
  /\ undo.committed = <<FirstIn>> /\ undo'.committed = <<>>
  /\ undo'.displaced = undo.displaced /\ undo'.carried = undo.carried
  /\ DirectoryMoves("extracted", "payload") /\ fs["payload"] = Missing
UnwindsFile ==
  /\ undo.committed = <<>> /\ undo'.committed = <<>> /\ undo'.displaced = undo.displaced
  /\ undo.carried # <<>> /\ undo'.carried = Front(undo.carried) /\ FileMoves
UnwindsFirstOut ==
  /\ undo.committed = <<>> /\ undo'.committed = <<>> /\ undo.displaced = <<FirstOut>>
  /\ undo'.displaced = <<>> /\ undo.carried = <<>> /\ undo'.carried = undo.carried
  /\ DirectoryMoves("previous", "extracted") /\ fs["extracted"] = Missing
UnwindsSecondOut ==
  /\ undo.committed = <<>> /\ undo'.committed = <<>>
  /\ \/ undo.displaced = <<SecondOut>> /\ undo'.displaced = <<>>
     \/ undo.displaced = <<FirstOut, SecondOut>> /\ undo'.displaced = <<FirstOut>>
  /\ undo.carried = <<>> /\ undo'.carried = undo.carried
  /\ DirectoryMoves("previous copy", "copy")

LEMMA RollBackSteps ==
  ASSUME TypeOK, RenamesInOrder, RollBack
  PROVE  /\ pc = "rollback" /\ FilesOK' /\ UndoOK'
         /\ \E m : paths' = Followed(m) /\ m.to \in Places
         /\ UNCHANGED <<leaked, pc, attempt, flags, index, moved, good, stranded, flushed, interrupted>>
         /\ UnwindsFirstIn \/ UnwindsFile \/ UnwindsFirstOut \/ UnwindsSecondOut
PROOF
  <1> DEFINE last == Last(undo[Undo])
             m == Reversed(last)
  <1>1. /\ pc = "rollback" /\ undo[Undo] # <<>> /\ Renamable(m) /\ fs' = Renamed(m)
        /\ paths' = Followed(m) /\ undo' = [undo EXCEPT ![Undo] = Front(undo[Undo])]
        /\ UNCHANGED <<leaked, pc, attempt, flags, index, moved, good, stranded, flushed, interrupted>>
    BY DEF RollBack
  <1>2. FilesOK /\ UndoOK
    BY DEF TypeOK, FilesOK, UndoOK
  <1>3. /\ undo.committed \in {<<>>, <<FirstIn>>} /\ undo.carried \in Seq(Carriage)
        /\ undo.displaced \in {<<>>, <<FirstOut>>, <<SecondOut>>, <<FirstOut, SecondOut>>}
    BY <1>1 DEF RenamesInOrder
  <1>4. /\ <<>> \in Seq(Moves) /\ <<FirstOut>> \in Seq(Moves)
        /\ <<>> # <<FirstIn>> /\ <<>> # <<FirstOut>>
    BY MovesAreMoves
  <1>5. m = Move(last.to, last.from, last.file)
    BY DEF Reversed
  <1>10. last = Last(undo[Undo])
    OBVIOUS
  <1> HIDE DEF m, last
  <1>14. /\ FirstIn.from = "payload" /\ FirstIn.to = "extracted" /\ FirstIn.file = ""
         /\ FirstOut.from = "extracted" /\ FirstOut.to = "previous" /\ FirstOut.file = ""
         /\ SecondOut.from = "copy" /\ SecondOut.to = "previous copy" /\ SecondOut.file = ""
    BY MoveShape
  <1>11. last = FirstIn => m = Move("extracted", "payload", "")
    BY <1>5, <1>14
  <1>12. last = FirstOut => m = Move("previous", "extracted", "")
    BY <1>5, <1>14
  <1>13. last = SecondOut => m = Move("previous copy", "copy", "")
    BY <1>5, <1>14
  <1>6. CASE undo.committed = <<FirstIn>>
    <2>1. Undo = "committed"
      BY <1>4, <1>6 DEF Undo
    <2>2. /\ last = FirstIn /\ Front(undo[Undo]) = <<>>
      BY <1>6, <1>10, <2>1, ShortLists
    <2>3. m = Move("extracted", "payload", "")
      BY <1>11, <2>2
    <2>4. undo' = [undo EXCEPT !.committed = <<>>]
      BY <1>1, <2>1, <2>2
    <2>5. UndoOK' /\ undo'.committed = <<>> /\ undo'.displaced = undo.displaced
                  /\ undo'.carried = undo.carried
      BY <1>2, <1>4, <2>4, UndoChanges
    <2>6. FilesOK' /\ DirectoryMoves("extracted", "payload") /\ fs["payload"] = Missing
      BY <1>1, <1>2, <2>3, PlacesNamed, DirectoryRenamed
    <2>7. m.to \in Places
      BY <2>3, PlacesNamed DEF Move
    <2>8. QED BY <1>1, <1>6, <2>5, <2>6, <2>7 DEF UnwindsFirstIn
  <1>7. CASE undo.committed = <<>> /\ undo.carried # <<>>
    <2>1. Undo = "carried"
      BY <1>7 DEF Undo
    <2>2. last \in Carriage /\ Front(undo.carried) \in Seq(Carriage)
      BY <1>3, <1>7, <1>10, <2>1, LastOfSeq
    <2>3. last.from = "previous" /\ last.to = "payload" /\ last.file \in Retained
      BY <2>2, CarriageShape
    <2>4. m = Move("payload", "previous", last.file)
      BY <1>5, <2>3
    <2>5. undo' = [undo EXCEPT !.carried = Front(undo.carried)] /\ Front(undo.carried) \in Seq(Moves)
      BY <1>1, <2>1, <2>2, MovesAreMoves, SeqMonotonic
    <2>6. UndoOK' /\ undo'.committed = <<>> /\ undo'.displaced = undo.displaced
                  /\ undo'.carried = Front(undo.carried)
      BY <1>2, <1>7, <2>5, UndoChanges
    <2>7. FilesOK' /\ FileMoves
      BY <1>1, <1>2, <2>3, <2>4, PlacesNamed, FileRenamed
    <2>8. m.to \in Places
      BY <2>4, PlacesNamed DEF Move
    <2>9. QED BY <1>1, <1>7, <2>6, <2>7, <2>8 DEF UnwindsFile
  <1>8. CASE undo.committed = <<>> /\ undo.carried = <<>>
    <2>1. Undo = "displaced"
      BY <1>8 DEF Undo
    <2>2. undo.displaced # <<>> /\ undo' = [undo EXCEPT !.displaced = Front(undo.displaced)]
      BY <1>1, <2>1
    <2>3. CASE undo.displaced = <<FirstOut>>
      <3>1. last = FirstOut /\ Front(undo.displaced) = <<>>
        BY <1>10, <2>1, <2>3, ShortLists
      <3>2. m = Move("previous", "extracted", "")
        BY <1>12, <3>1
      <3>3. UndoOK' /\ undo'.committed = <<>> /\ undo'.displaced = <<>> /\ undo'.carried = undo.carried
        BY <1>2, <1>4, <1>8, <2>2, <3>1, UndoChanges
      <3>4. FilesOK' /\ DirectoryMoves("previous", "extracted") /\ fs["extracted"] = Missing
        BY <1>1, <1>2, <3>2, PlacesNamed, DirectoryRenamed
      <3>5. m.to \in Places
        BY <3>2, PlacesNamed DEF Move
      <3>6. QED BY <1>1, <1>8, <2>3, <3>3, <3>4, <3>5 DEF UnwindsFirstOut
    <2>4. CASE undo.displaced \in {<<SecondOut>>, <<FirstOut, SecondOut>>}
      <3>1. /\ last = SecondOut
            /\ Front(undo.displaced) = IF undo.displaced = <<SecondOut>> THEN <<>> ELSE <<FirstOut>>
        BY <1>10, <2>1, <2>4, ShortLists
      <3>2. m = Move("previous copy", "copy", "")
        BY <1>13, <3>1
      <3>3. UndoOK' /\ undo'.committed = <<>> /\ undo'.displaced = Front(undo.displaced)
                    /\ undo'.carried = undo.carried
        BY <1>2, <1>4, <1>8, <2>2, <3>1, UndoChanges
      <3>4. FilesOK' /\ DirectoryMoves("previous copy", "copy")
        BY <1>1, <1>2, <3>2, PlacesNamed, DirectoryRenamed
      <3>5. m.to \in Places
        BY <3>2, PlacesNamed DEF Move
      <3>6. QED BY <1>1, <1>8, <2>4, <3>1, <3>3, <3>4, <3>5 DEF UnwindsSecondOut
    <2>5. QED BY <1>3, <2>2, <2>3, <2>4
  <1>9. QED BY <1>3, <1>6, <1>7, <1>8

(* A failure manifest changes no payload, and the output directory's        *)
(* manifest only when the attempt found no output directory.               *)
LEMMA Diagnosed ==
  ASSUME TypeOK, flags.manifest /\ ~flags.recovery_needed => fs["payload"] # Missing,
         fs' = FailureManifest
  PROVE  /\ FilesOK'
         /\ \A p \in Places : Payload(p)' = Payload(p) /\ (fs'[p] = Missing => fs[p] = Missing)
         /\ \A p \in Places : p \notin {"extracted", "payload"} => fs'[p] = fs[p]
         /\ Version("payload")' \in {0, attempt, Version("payload")}
         /\ \/ Version("extracted")' = Version("extracted")
            \/ ~flags.existed /\ Version("extracted")' \in {attempt, Version("payload")} \ {0}
PROOF
  <1> DEFINE failed == flags.manifest /\ ~flags.recovery_needed
             staged == IF failed THEN [fs EXCEPT !["payload"].manifest = attempt] ELSE fs
             home == IF staged["extracted"] = Missing THEN Directory(0, 0) ELSE staged["extracted"]
             source == IF staged["payload"] = Missing THEN 0 ELSE staged["payload"].manifest
             marked == [fs["payload"] EXCEPT !.manifest = attempt]
             delivered == [home EXCEPT !.manifest = source]
             cleared == [staged["payload"] EXCEPT !.manifest = 0]
  <1>1. FilesOK /\ attempt \in Versions /\ 0 \in Versions
    BY PublicationAssumption DEF TypeOK, FilesOK, Versions
  <1>2. "payload" \in Places /\ "extracted" \in Places
    BY PlacesNamed
  <1>3. failed => /\ marked \in Directories /\ marked.payload = Payload("payload")
                  /\ marked.manifest = attempt
    BY <1>1, <1>2, ManifestChanges DEF FilesOK, Payload
  <1>4. staged = IF failed THEN [fs EXCEPT !["payload"] = marked] ELSE fs
    BY <1>1, <1>2 DEF FilesOK
  <1>5. fs' = IF flags.recovery_needed \/ flags.existed THEN staged
              ELSE IF source = 0 THEN [staged EXCEPT !["extracted"] = home]
              ELSE [staged EXCEPT !["extracted"] = delivered, !["payload"].manifest = 0]
    BY DEF FailureManifest
  <1>6. /\ staged \in [Places -> Directories \cup {Missing}]
        /\ \A p \in Places : p # "payload" => staged[p] = fs[p]
        /\ staged["payload"] = IF failed THEN marked ELSE fs["payload"]
    <2> HIDE DEF marked
    <2>1. QED BY <1>1, <1>2, <1>3, <1>4 DEF FilesOK
  <1>7. marked # Missing \/ ~failed
    BY <1>3, DirectoryShape
  <1>8. /\ source \in {0, attempt, Version("payload")} /\ source \in Versions
        /\ source # 0 => staged["payload"] # Missing
        /\ staged["payload"] # Missing => /\ staged["payload"].payload = Payload("payload")
                                          /\ staged["payload"].manifest = source
                                          /\ staged["payload"] \in Directories
        /\ staged["payload"] = Missing <=> fs["payload"] = Missing
    <2> HIDE DEF marked, staged
    <2>1. fs["payload"] # Missing => fs["payload"].manifest \in Versions
      BY <1>1, <1>2, DirectoryShape DEF FilesOK
    <2>2. QED BY <1>1, <1>2, <1>3, <1>6, <1>7, <2>1 DEF Payload, Version
  <1>9. home \in Directories /\ home.payload = Payload("extracted") /\ home.manifest = Version("extracted")
    <2> HIDE DEF staged
    <2>1. staged["extracted"] = fs["extracted"]
      BY <1>2, <1>6
    <2>2. QED BY <1>1, <1>2, <2>1, NewDirectory DEF Payload, Version, FilesOK
  <1>10. delivered \in Directories /\ delivered.payload = Payload("extracted") /\ delivered.manifest = source
    <2> HIDE DEF home, source
    <2>1. QED BY <1>8, <1>9, ManifestChanges
  <1>11. source # 0 => /\ cleared \in Directories /\ cleared.payload = Payload("payload")
                       /\ cleared.manifest = 0
    <2> HIDE DEF source, staged
    <2>1. QED BY <1>1, <1>8, ManifestChanges
  <1>12. /\ home # Missing /\ delivered # Missing /\ (source # 0 => cleared # Missing)
    BY <1>9, <1>10, <1>11, DirectoryShape
  <1> HIDE DEF failed, home, source, marked, delivered
  <1>13. CASE flags.recovery_needed \/ flags.existed
    <2>1. fs' = staged
      BY <1>5, <1>13
    <2> HIDE DEF staged, cleared
    <2>2. QED BY <1>1, <1>2, <1>6, <1>8, <2>1 DEF FilesOK, Payload, Version
  <1>14. CASE ~flags.recovery_needed /\ ~flags.existed /\ source = 0
    <2>1. fs' = [staged EXCEPT !["extracted"] = home]
      BY <1>5, <1>14
    <2> HIDE DEF staged, cleared
    <2>2. FilesOK'
      BY <1>2, <1>6, <1>9, <2>1 DEF FilesOK
    <2>3. fs'["extracted"] = home /\ \A p \in Places : p # "extracted" => fs'[p] = staged[p]
      BY <1>2, <1>6, <2>1
    <2>4. QED BY <1>1, <1>2, <1>6, <1>8, <1>9, <1>12, <2>2, <2>3 DEF Payload, Version
  <1>15. CASE ~flags.recovery_needed /\ ~flags.existed /\ source # 0
    <2>1. fs' = [staged EXCEPT !["extracted"] = delivered, !["payload"] = cleared]
      BY <1>2, <1>5, <1>6, <1>15
    <2> HIDE DEF staged, cleared
    <2>2. FilesOK'
      BY <1>2, <1>6, <1>10, <1>11, <1>15, <2>1 DEF FilesOK
    <2>3. /\ fs'["extracted"] = delivered /\ fs'["payload"] = cleared
          /\ \A p \in Places : p \notin {"extracted", "payload"} => fs'[p] = staged[p]
      BY <1>2, <1>6, <2>1
    <2>4. QED BY <1>1, <1>2, <1>6, <1>8, <1>10, <1>11, <1>12, <1>15, <2>2, <2>3 DEF Payload, Version
  <1>16. flags.recovery_needed \in BOOLEAN /\ flags.existed \in BOOLEAN
    BY DEF TypeOK, Flags
  <1>17. QED BY <1>13, <1>14, <1>15, <1>16

LEMMA EmptiedShape ==
  ASSUME FilesOK, fs' = Emptied
  PROVE  /\ FilesOK' /\ Held \subseteq Directories
         /\ \A p \in Places : fs'[p] = IF p \in Workspaces THEN Missing ELSE fs[p]
         /\ \A p \in Workspaces : fs[p] # Missing => fs[p] \in Held
PROOF
  <1>1. Workspaces \subseteq Places
    BY DEF Places
  <1>2. QED BY <1>1 DEF FilesOK, Emptied, Held

LEMMA PlaceChanges ==
  ASSUME FilesOK, NEW place \in Places, NEW d \in Directories, fs' = [fs EXCEPT ![place] = d]
  PROVE  FilesOK' /\ fs'[place] = d /\ \A p \in Places : p # place => fs'[p] = fs[p]
BY DEF FilesOK

LEMMA EventShape ==
  ASSUME TypeOK
  PROVE  /\ \A code \in {"foreign", "legacy", "attempt.started", "payload.prepared",
                        "publication.started", "attempt.published", "attempt.failed"} :
              Event(attempt, code) \in Events
         /\ Failure \in Events
PROOF
  <1>1. attempt \in 0..MaxAttempts /\ flags.previous \in BOOLEAN /\ flags.published \in BOOLEAN
        /\ flags.recovery_needed \in BOOLEAN
    BY DEF TypeOK, Flags
  <1>2. QED BY <1>1 DEF Event, Failure, Events

(* What each step makes of the places, for the steps outside publish().    *)
Holds(place, payload, manifest) ==
  fs[place] # Missing /\ fs[place].payload = payload /\ fs[place].manifest = manifest
OthersSame(place) == \A p \in Places : p # place => fs'[p] = fs[p]

LEMMA EmitShape ==
  ASSUME TypeOK, NEW at, NEW code \in {"attempt.started", "payload.prepared", "publication.started",
                                       "attempt.published"}, NEW next, Emit(at, code, next)
  PROVE  /\ FilesOK' /\ SameProducts /\ OthersSame("extracted")
         /\ flags' \in Flags /\ flushed' \in Seq(Events)
         /\ flags'.existed = flags.existed /\ flags'.recovery_needed = flags.recovery_needed
         /\ pc = at /\ pc' \in {next, "failing"}
         /\ UNCHANGED <<leaked, attempt, publishing, good, stranded, interrupted>>
PROOF
  <1>1. Event(attempt, code) \in Events /\ "extracted" \in Places /\ FilesOK
    BY EventShape, PlacesNamed DEF TypeOK, FilesOK
  <1>2. flags \in Flags /\ flushed \in Seq(Events)
    BY DEF TypeOK
  <1>3. pc = at /\ UNCHANGED <<leaked, attempt, publishing, good, stranded, interrupted>>
    BY DEF Emit
  <1>4. CASE /\ fs' = Logged("extracted", Event(attempt, code))
             /\ flushed' = Append(flushed, Event(attempt, code))
             /\ pc' = next /\ UNCHANGED flags
    <2>1. FilesOK' /\ SameProducts /\ OthersSame("extracted")
      BY <1>1, <1>4, LoggedShape DEF OthersSame
    <2>2. flushed' \in Seq(Events)
      BY <1>1, <1>2, <1>4
    <2>3. QED BY <1>2, <1>3, <1>4, <2>1, <2>2
  <1>5. CASE /\ flags' = [flags EXCEPT !.poisoned = TRUE]
             /\ pc' = "failing" /\ UNCHANGED <<fs, flushed>>
    <2>1. /\ flags' \in Flags /\ flags'.existed = flags.existed
          /\ flags'.recovery_needed = flags.recovery_needed
      BY <1>2, <1>5 DEF Flags
    <2>2. FilesOK' /\ SameProducts /\ OthersSame("extracted")
      BY <1>1, <1>5 DEF FilesOK, SameProducts, OthersSame, Payload, Version
    <2>3. QED BY <1>2, <1>3, <1>5, <2>1, <2>2
  <1>6. QED BY <1>4, <1>5 DEF Emit

LEMMA StartShape ==
  ASSUME TypeOK, Start
  PROVE  /\ FilesOK' /\ Holds("payload", 0, 0)' /\ OthersSame("payload")
         /\ flags' \in Flags /\ flags'.existed = (fs["extracted"] # Missing)
         /\ flags'.recovery_needed = FALSE
         /\ attempt' = attempt + 1 /\ attempt + 1 \in 0..MaxAttempts /\ attempt \in Nat
PROOF
  <1>1. /\ FilesOK /\ attempt \in 0..MaxAttempts /\ attempt < MaxAttempts
        /\ MaxAttempts \in Nat
        /\ fs' = [fs EXCEPT !["payload"] = Directory(0, 0)] /\ attempt' = attempt + 1
    BY PublicationAssumption DEF Start, TypeOK, FilesOK
  <1>2. Directory(0, 0) \in Directories /\ Directory(0, 0).payload = 0 /\ Directory(0, 0).manifest = 0
        /\ Directory(0, 0) # Missing
    BY <1>1, NewDirectory, DirectoryShape DEF Versions
  <1>3. FilesOK' /\ fs'["payload"] = Directory(0, 0) /\ OthersSame("payload")
    BY <1>1, <1>2, PlacesNamed, PlaceChanges DEF OthersSame
  <1>4. Holds("payload", 0, 0)'
    BY <1>2, <1>3 DEF Holds
  <1>5. flags' = [Idle EXCEPT !.existed = (fs["extracted"] # Missing),
                              !.previous = (Payload("extracted") # 0)]
    BY DEF Start
  <1>6. /\ flags' \in Flags /\ flags'.existed = (fs["extracted"] # Missing)
        /\ flags'.recovery_needed = FALSE
    BY <1>5 DEF Idle, Flags
  <1>7. attempt + 1 \in 0..MaxAttempts /\ attempt \in Nat
    BY <1>1
  <1>8. QED BY <1>1, <1>3, <1>4, <1>6, <1>7

LEMMA BuildShape ==
  ASSUME TypeOK, NEW collides \in BOOLEAN, Build(collides)
  PROVE  /\ FilesOK' /\ Holds("payload", attempt, attempt)' /\ OthersSame("payload")
         /\ flags' \in Flags /\ flags'.existed = flags.existed
         /\ flags'.recovery_needed = flags.recovery_needed
PROOF
  <1> DEFINE foreign == IF collides THEN <<Event(attempt, "foreign")>> ELSE <<>>
             d == [Directory(attempt, attempt) EXCEPT !.kept[JOURNAL] = foreign]
  <1>1. FilesOK /\ attempt \in Versions /\ flags \in Flags
    BY DEF TypeOK, FilesOK, Versions
  <1>2. foreign \in Seq(Events)
    <2>1. Event(attempt, "foreign") \in Events
      BY EventShape
    <2>2. QED BY <2>1
  <1> HIDE DEF foreign
  <1>3. d \in Directories /\ d.payload = attempt /\ d.manifest = attempt
    BY <1>1, <1>2, NewDirectory, KeptChanges, JournalIsRetained
  <1>4. d # Missing
    BY <1>3, DirectoryShape
  <1>5. fs' = [fs EXCEPT !["payload"] = d] /\ flags' = [flags EXCEPT !.manifest = TRUE]
        /\ attempt' = attempt
    BY DEF Build, foreign
  <1> HIDE DEF d
  <1>6. FilesOK' /\ fs'["payload"] = d /\ OthersSame("payload")
    BY <1>1, <1>3, <1>5, PlacesNamed, PlaceChanges DEF OthersSame
  <1>7. Holds("payload", attempt, attempt)'
    BY <1>3, <1>4, <1>5, <1>6 DEF Holds
  <1>8. /\ flags' \in Flags /\ flags'.existed = flags.existed
        /\ flags'.recovery_needed = flags.recovery_needed
    BY <1>1, <1>5 DEF Flags
  <1>9. QED BY <1>6, <1>7, <1>8

LEMMA BuildFailsShape ==
  ASSUME TypeOK, NEW staged \in {0, attempt}, BuildFails(staged)
  PROVE  /\ FilesOK' /\ Holds("payload", 0, staged)' /\ OthersSame("payload")
         /\ flags' \in Flags /\ flags'.existed = flags.existed
         /\ flags'.recovery_needed = flags.recovery_needed
PROOF
  <1>1. FilesOK /\ staged \in Versions /\ 0 \in Versions /\ flags \in Flags
    BY PublicationAssumption DEF TypeOK, FilesOK, Versions
  <1>2. /\ Directory(0, staged) \in Directories /\ Directory(0, staged).payload = 0
        /\ Directory(0, staged).manifest = staged /\ Directory(0, staged) # Missing
    BY <1>1, NewDirectory, DirectoryShape
  <1>3. /\ fs' = [fs EXCEPT !["payload"] = Directory(0, staged)]
        /\ \E poisoned \in BOOLEAN : flags' = [flags EXCEPT !.poisoned = poisoned]
    BY DEF BuildFails
  <1>4. FilesOK' /\ fs'["payload"] = Directory(0, staged) /\ OthersSame("payload")
    BY <1>1, <1>2, <1>3, PlacesNamed, PlaceChanges DEF OthersSame
  <1>5. fs'["payload"].payload = 0 /\ fs'["payload"].manifest = staged /\ fs'["payload"] # Missing
    BY <1>2, <1>4
  <1>6. /\ flags' \in Flags /\ flags'.existed = flags.existed
        /\ flags'.recovery_needed = flags.recovery_needed
    BY <1>1, <1>3 DEF Flags
  <1>7. QED BY <1>4, <1>5, <1>6 DEF Holds

LEMMA WriteSecondaryShape ==
  ASSUME TypeOK, WriteSecondary
  PROVE  /\ FilesOK' /\ OthersSame("output")
         /\ pc' = "announce" /\ Secondary => Holds("output", attempt, attempt)'
         /\ pc' \in {"announce", "failing"}
PROOF
  <1>1. FilesOK /\ attempt \in Versions
    BY DEF TypeOK, FilesOK, Versions
  <1>2. /\ Directory(attempt, attempt) \in Directories /\ Directory(attempt, attempt).payload = attempt
        /\ Directory(attempt, attempt).manifest = attempt /\ Directory(attempt, attempt) # Missing
    BY <1>1, NewDirectory, DirectoryShape
  <1>3. CASE Secondary /\ fs' = [fs EXCEPT !["output"] = Directory(attempt, attempt)] /\ pc' = "announce"
    <2>1. FilesOK' /\ fs'["output"] = Directory(attempt, attempt) /\ OthersSame("output")
      BY <1>1, <1>2, <1>3, PlacesNamed, PlaceChanges DEF OthersSame
    <2>2. attempt' = attempt
      BY DEF WriteSecondary
    <2>3. Holds("output", attempt, attempt)'
      BY <1>2, <2>1, <2>2 DEF Holds
    <2>4. QED BY <1>3, <2>1, <2>3
  <1>4. CASE ~Secondary /\ fs' = [fs EXCEPT !["output"] = fs["output"]] /\ pc' = "announce"
    BY <1>1, <1>4, PlacesNamed DEF FilesOK, OthersSame
  <1>5. CASE fs' = fs /\ pc' = "failing"
    BY <1>1, <1>5 DEF FilesOK, OthersSame
  <1>6. QED BY <1>3, <1>4, <1>5, PublicationAssumption DEF WriteSecondary

(* Diagnose and Report leave every payload where it is. *)
Products ==
  \A p \in Places : Payload(p)' = Payload(p) /\ (fs'[p] = Missing => fs[p] = Missing)

LEMMA DiagnoseShape ==
  ASSUME TypeOK, Diagnose
  PROVE  /\ FilesOK' /\ Products
         /\ \A p \in Places : p \notin {"extracted", "payload"} => fs'[p] = fs[p]
         /\ Version("payload")' \in {0, attempt, Version("payload")}
         /\ \/ Version("extracted")' = Version("extracted")
            \/ ~flags.existed /\ Version("extracted")' \in {attempt, Version("payload")} \ {0}
         /\ flags' \in Flags /\ flags'.existed = flags.existed
         /\ flags'.recovery_needed = flags.recovery_needed
PROOF
  <1>1. FilesOK /\ flags \in Flags
    BY DEF TypeOK, FilesOK
  <1>2. ASSUME fs' = fs
        PROVE  /\ FilesOK' /\ Products /\ \A p \in Places : fs'[p] = fs[p]
               /\ Version("payload")' = Version("payload")
               /\ Version("extracted")' = Version("extracted")
    BY <1>1, <1>2 DEF FilesOK, Products, Payload, Version
  <1>3. CASE flags.published /\ UNCHANGED <<fs, flags>>
    BY <1>1, <1>2, <1>3
  <1>4. CASE /\ ~flags.published /\ (flags.manifest /\ ~flags.recovery_needed => fs["payload"] # Missing)
             /\ fs' = FailureManifest /\ UNCHANGED flags
    BY <1>1, <1>4, Diagnosed DEF Products
  <1>5. CASE ~flags.published /\ flags' = [flags EXCEPT !.noted = TRUE] /\ UNCHANGED fs
    <2>1. /\ flags' \in Flags /\ flags'.existed = flags.existed
          /\ flags'.recovery_needed = flags.recovery_needed
      BY <1>1, <1>5 DEF Flags
    <2>2. QED BY <1>2, <1>5, <2>1
  <1>6. QED BY <1>3, <1>4, <1>5 DEF Diagnose

LEMMA ReportShape ==
  ASSUME TypeOK, Report
  PROVE  FilesOK' /\ SameProducts /\ flushed' \in Seq(Events)
PROOF
  <1>1. FilesOK /\ Failure \in Events /\ flushed \in Seq(Events) /\ paths[JOURNAL] \in Places
    BY EventShape, JournalIsRetained DEF TypeOK, FilesOK
  <1>2. CASE fs' = Logged(paths[JOURNAL], Failure) /\ flushed' = Append(flushed, Failure)
    <2>1. FilesOK' /\ SameProducts
      BY <1>1, <1>2, LoggedShape
    <2>2. QED BY <1>1, <1>2, <2>1
  <1>3. CASE UNCHANGED <<fs, flushed>>
    BY <1>1, <1>3 DEF FilesOK, SameProducts, Payload, Version
  <1>4. QED BY <1>2, <1>3 DEF Report

(***************************************************************************)
(* Types.                                                                  *)
(***************************************************************************)
(* An earlier release's output: its textual journal is all it kept. *)
Legacy == [Directory(1, 1) EXCEPT !.kept["preparation.log"] = <<Event(1, "legacy")>>]

LEMMA LegacyShape ==
  ASSUME 1 \in Versions
  PROVE  Legacy \in Directories /\ Legacy.payload = 1 /\ Legacy.manifest = 1 /\ Legacy # Missing
PROOF
  <1>1. "preparation.log" \in Retained
    <2>1. RETAINED_HISTORY[2] = "preparation.log" /\ 2 \in DOMAIN RETAINED_HISTORY
      BY DEF RETAINED_HISTORY
    <2>2. QED BY <2>1 DEF Retained, ToSet
  <1>2. Event(1, "legacy") \in Events
    BY DEF Event, Events, Versions
  <1>3. <<Event(1, "legacy")>> \in Seq(Events)
    BY <1>2
  <1>4. Directory(1, 1) \in Directories
    BY NewDirectory
  <1>5. Legacy \in Directories
    BY <1>1, <1>3, <1>4, KeptChanges DEF Legacy
  <1>6. Legacy.payload = 1 /\ Legacy.manifest = 1
    BY DEF Legacy, Directory
  <1>7. QED BY <1>5, <1>6, DirectoryShape

LEMMA InitType == Init => TypeOK
PROOF
  <1> SUFFICES ASSUME Init
               PROVE  TypeOK
    OBVIOUS
  <1>1. 0 \in Versions /\ 1 \in Versions /\ attempt \in Versions /\ attempt \in Nat
    BY PublicationAssumption DEF Init, Versions
  <1>2. FilesOK
    <2> DEFINE release == IF Secondary THEN Directory(1, 1) ELSE Missing
    <2>1. CASE fs = [p \in Places |-> Missing]
      BY <2>1 DEF FilesOK
    <2>2. CASE fs = Earlier
      <3>1. Legacy \in Directories
        BY <1>1, LegacyShape
      <3>2. release \in Directories \cup {Missing}
        BY <1>1, NewDirectory
      <3>3. fs = [[p \in Places |-> Missing] EXCEPT !["extracted"] = Legacy, !["copy"] = release]
        BY <2>2 DEF Earlier, Legacy
      <3> HIDE DEF release
      <3>4. QED BY <3>1, <3>2, <3>3 DEF FilesOK
    <2>3. QED BY <2>1, <2>2 DEF Init
  <1>3. flags \in Flags
    BY DEF Init, Idle, Flags
  <1>4. paths \in [Retained -> Places]
    BY PlacesNamed DEF Init
  <1>5. index \in 1..Len(Targets) /\ moved \in Moves
    BY TargetShape, MovesAreMoves DEF Init
  <1>6. UndoOK
    <2>1. <<>> \in Seq(Moves)
      OBVIOUS
    <2>2. QED BY <2>1 DEF Init, Undone, UndoOK
  <1>7. flushed \in Seq(Events)
    BY DEF Init
  <1>10. good = attempt /\ leaked = {} /\ pc = "idle" /\ stranded = FALSE /\ interrupted = FALSE
    BY DEF Init
  <1>8. good \in 0..attempt
    BY <1>1, <1>10
  <1>11. leaked \subseteq Directories /\ stranded \in BOOLEAN /\ interrupted \in BOOLEAN
    BY <1>10
  <1>9. QED BY <1>1, <1>2, <1>3, <1>4, <1>5, <1>6, <1>7, <1>8, <1>10, <1>11 DEF TypeOK, FilesOK, UndoOK, Versions

LEMMA FollowedType ==
  ASSUME TypeOK, NEW m, m.to \in Places
  PROVE  Followed(m) \in [Retained -> Places]
BY DEF TypeOK, Followed

LEMMA TypeStep ==
  ASSUME TypeOK, RenamesInOrder, [Next]_vars
  PROVE  TypeOK'
PROOF
  <1>1. FilesOK /\ UndoOK /\ attempt \in Nat /\ good \in Nat /\ good <= attempt
    BY DEF TypeOK, FilesOK, UndoOK
  <1> USE DEF TypeOK, FilesOK, UndoOK, publishing
  <1>2. CASE Start
    <2>1. paths' \in [Retained -> Places]
      BY <1>2, PlacesNamed DEF Start
    <2>2. index' \in 1..Len(Targets) /\ moved' \in Moves
      BY <1>2, TargetShape, MovesAreMoves DEF Start
    <2>3. UndoOK'
      <3>1. <<>> \in Seq(Moves)
        OBVIOUS
      <3>2. QED BY <1>2, <3>1 DEF Start, Undone
    <2>4. good' = good /\ good \in 0..attempt'
      BY <1>1, <1>2, StartShape DEF Start
    <2>5. QED BY <1>2, <2>1, <2>2, <2>3, <2>4, StartShape DEF Start
  <1>3. CASE Emit("begin", "attempt.started", "build")
    BY <1>3, EmitShape
  <1>4. CASE Emit("prepared", "payload.prepared", "secondary")
    BY <1>4, EmitShape
  <1>5. CASE Emit("announce", "publication.started", "displace")
    BY <1>5, EmitShape
  <1>6. CASE Emit("complete", "attempt.published", "exit")
    BY <1>6, EmitShape
  <1>7. ASSUME NEW collides \in BOOLEAN, Build(collides)
        PROVE  TypeOK'
    BY <1>7, BuildShape DEF Build
  <1>8. ASSUME NEW staged \in {0, attempt}, BuildFails(staged)
        PROVE  TypeOK'
    BY <1>8, BuildFailsShape DEF BuildFails
  <1>9. CASE Reject
    BY <1>9 DEF Reject
  <1>10. CASE WriteSecondary
    BY <1>10, WriteSecondaryShape DEF WriteSecondary
  <1>11. CASE Rename
    <2>1. moved' \in Moves
      BY <1>11, RenameSteps, MovesAreMoves
         DEF RenamesFirstOut, RenamesSecondOut, RenamesFile, RenamesFirstIn, RenamesSecondIn
    <2>2. FilesOK'
      BY <1>11, RenameSteps
    <2>3. QED BY <1>11, <2>1, <2>2 DEF Rename
  <1>12. CASE Record
    <2>1. /\ moved' = NoMove /\ UNCHANGED <<fs, leaked, attempt, flags, flushed, interrupted>>
          /\ paths' = Followed(moved) /\ UndoOK' /\ index' \in 1..Len(Targets)
      BY <1>12, RecordSteps
    <2>2. /\ pc' \in {"carry", "commit", "displace", "returned"}
          /\ good' \in {good, attempt} /\ stranded' \in {stranded, FALSE}
      BY <1>12, RecordSteps
         DEF RecordsFirstOut, RecordsSecondOut, RecordsFile, RecordsFirstIn, RecordsLast
    <2>3. paths' \in [Retained -> Places]
      BY <2>1, FollowedType DEF Moves
    <2>4. good' \in 0..attempt'
      BY <1>1, <2>1, <2>2
    <2>5. QED BY <2>1, <2>2, <2>3, <2>4, MovesAreMoves
  <1>13. CASE Skip
    BY <1>13 DEF Skip
  <1>14. CASE PublishFails
    BY <1>14 DEF PublishFails
  <1>15. CASE Interrupt
    BY <1>15, MovesAreMoves DEF Interrupt
  <1>16. CASE Published
    <2>1. flags' \in Flags
      BY <1>16 DEF Published, Flags
    <2>2. QED BY <1>16, <2>1 DEF Published
  <1>17. CASE RollBack
    <2>1. paths' \in [Retained -> Places]
      BY <1>17, RollBackSteps, FollowedType
    <2>2. /\ FilesOK' /\ UndoOK'
          /\ UNCHANGED <<leaked, pc, attempt, flags, index, moved, good, stranded, flushed, interrupted>>
      BY <1>17, RollBackSteps
    <2>3. QED BY <2>1, <2>2
  <1>18. CASE RolledBack
    BY <1>18 DEF RolledBack
  <1>19. CASE RollBackFails
    <2>1. flags' \in Flags
      BY <1>19 DEF RollBackFails, Flags
    <2>2. QED BY <1>19, <2>1 DEF RollBackFails
  <1>20. CASE Diagnose
    BY <1>20, DiagnoseShape DEF Diagnose
  <1>21. CASE Report
    BY <1>21, ReportShape DEF Report
  <1>22. CASE Exit
    BY <1>22, EmptiedShape DEF Exit
  <1>23. CASE Crash
    BY <1>23, EmptiedShape, MovesAreMoves DEF Crash
  <1>24. CASE UNCHANGED vars
    BY <1>24 DEF vars
  <1>25. QED BY <1>2, <1>3, <1>4, <1>5, <1>6, <1>7, <1>8, <1>9, <1>10, <1>11, <1>12, <1>13, <1>14,
                <1>15, <1>16, <1>17, <1>18, <1>19, <1>20, <1>21, <1>22, <1>23, <1>24 DEF Next

(***************************************************************************)
(* The order of the renames.                                               *)
(***************************************************************************)
LEMMA OrderStep ==
  ASSUME TypeOK, RenamesInOrder, [Next]_vars
  PROVE  RenamesInOrder'
PROOF
  <1> USE DEF RenamesInOrder, Publishing
  <1>1. CASE Start
    BY <1>1 DEF Start
  <1>2. CASE Emit("begin", "attempt.started", "build")
    BY <1>2 DEF Emit, publishing
  <1>23. CASE Emit("prepared", "payload.prepared", "secondary")
    BY <1>23 DEF Emit, publishing
  <1>24. CASE Emit("announce", "publication.started", "displace")
    <2>1. pc = "announce" /\ pc' \in {"displace", "failing"} /\ UNCHANGED <<index, moved, undo>>
      BY <1>24 DEF Emit, publishing
    <2>2. undo'.carried \in Seq(Carriage)
      <3>1. <<>> \in Seq(Carriage)
        OBVIOUS
      <3>2. undo'.carried = <<>>
        BY <1>24, <2>1 DEF Undone
      <3>3. QED BY <3>1, <3>2
    <2>3. QED BY <2>1, <2>2
  <1>25. CASE Emit("complete", "attempt.published", "exit")
    BY <1>25 DEF Emit, publishing
  <1>3. ASSUME NEW collides \in BOOLEAN, Build(collides)
        PROVE  RenamesInOrder'
    BY <1>3 DEF Build, publishing
  <1>4. ASSUME NEW staged \in {0, attempt}, BuildFails(staged)
        PROVE  RenamesInOrder'
    BY <1>4 DEF BuildFails, publishing
  <1>5. CASE Reject
    BY <1>5 DEF Reject, publishing
  <1>6. CASE WriteSecondary
    BY <1>6 DEF WriteSecondary, publishing
  <1>7. CASE Rename
    <2>1. UNCHANGED <<pc, index, undo>>
      BY <1>7 DEF Rename
    <2>2. RenamesFirstOut \/ RenamesSecondOut \/ RenamesFile \/ RenamesFirstIn \/ RenamesSecondIn
      BY <1>7, RenameSteps
    <2>3. QED BY <2>1, <2>2
                 DEF RenamesFirstOut, RenamesSecondOut, RenamesFile, RenamesFirstIn, RenamesSecondIn
  <1>8. CASE Record
    <2>1. /\ moved' = NoMove
          /\ RecordsFirstOut \/ RecordsSecondOut \/ RecordsFile \/ RecordsFirstIn \/ RecordsLast
      BY <1>8, RecordSteps
    <2>2. CASE RecordsFirstOut
      <3>1. <<>> \in Seq(Carriage)
        OBVIOUS
      <3>2. QED BY <2>1, <2>2, <3>1 DEF RecordsFirstOut, Undone
    <2>3. CASE RecordsSecondOut
      BY <2>1, <2>3 DEF RecordsSecondOut
    <2>4. CASE RecordsFile
      <3>1. undo'.carried \in Seq(Carriage)
        BY <2>4, AppendProperties DEF RecordsFile
      <3>2. QED BY <2>1, <2>4, <3>1 DEF RecordsFile
    <2>5. CASE RecordsFirstIn
      BY <2>1, <2>5 DEF RecordsFirstIn
    <2>6. CASE RecordsLast
      BY <2>1, <2>6 DEF RecordsLast
    <2>7. QED BY <2>1, <2>2, <2>3, <2>4, <2>5, <2>6
  <1>9. CASE Skip
    <2>1. pc \in {"displace", "carry"} /\ moved = NoMove /\ pc' = "commit" /\ UNCHANGED <<index, moved, undo>>
      BY <1>9 DEF Skip, publishing
    <2>2. undo = Undone => undo.committed = <<>> /\ undo.displaced = <<>> /\ undo.carried = <<>>
      BY DEF Undone
    <2>3. QED BY <2>1, <2>2
  <1>10. CASE PublishFails
    <2>1. moved = NoMove /\ pc' = "rollback" /\ UNCHANGED <<index, moved, undo>>
      BY <1>10 DEF PublishFails, publishing
    <2>2. pc \in {"displace", "carry", "commit"}
      BY <1>10 DEF PublishFails, Steps
    <2>3. undo = Undone => undo.committed = <<>> /\ undo.displaced = <<>> /\ undo.carried = <<>>
      BY DEF Undone
    <2>4. QED BY <2>1, <2>2, <2>3
  <1>11. CASE Interrupt
    <2>1. UNCHANGED undo
      BY <1>11 DEF Interrupt
    <2>2. CASE pc \in {"displace", "carry", "commit"} /\ pc' = "rollback" /\ moved' = NoMove
      <3>1. undo = Undone => undo.committed = <<>> /\ undo.displaced = <<>> /\ undo.carried = <<>>
        BY DEF Undone
      <3>2. QED BY <2>1, <2>2, <3>1
    <2>3. CASE pc \in {"returned", "rollback"} /\ pc' = "failing" /\ UNCHANGED moved
      BY <2>1, <2>3
    <2>4. QED BY <1>11, <2>2, <2>3 DEF Interrupt
  <1>12. CASE Published
    BY <1>12 DEF Published, publishing
  <1>13. CASE RollBack
    <2>1. /\ pc = "rollback" /\ UNCHANGED <<pc, moved>>
          /\ UnwindsFirstIn \/ UnwindsFile \/ UnwindsFirstOut \/ UnwindsSecondOut
      BY <1>13, RollBackSteps
    <2>2. CASE UnwindsFirstIn
      BY <2>1, <2>2 DEF UnwindsFirstIn
    <2>3. CASE UnwindsFile
      <3>1. undo.carried \in Seq(Carriage) /\ undo.carried # <<>>
        BY <2>1, <2>3 DEF UnwindsFile
      <3>2. undo'.carried \in Seq(Carriage)
        BY <2>3, <3>1, LastOfSeq DEF UnwindsFile
      <3>3. QED BY <2>1, <2>3, <3>2 DEF UnwindsFile
    <2>4. CASE UnwindsFirstOut
      BY <2>1, <2>4 DEF UnwindsFirstOut
    <2>5. CASE UnwindsSecondOut
      BY <2>1, <2>5 DEF UnwindsSecondOut
    <2>6. QED BY <2>1, <2>2, <2>3, <2>4, <2>5
  <1>14. CASE RolledBack
    BY <1>14 DEF RolledBack, publishing
  <1>15. CASE RollBackFails
    BY <1>15 DEF RollBackFails, publishing
  <1>16. CASE Diagnose
    BY <1>16 DEF Diagnose, publishing
  <1>17. CASE Report
    BY <1>17 DEF Report, publishing
  <1>18. CASE Exit
    BY <1>18 DEF Exit, publishing
  <1>19. CASE Crash
    BY <1>19 DEF Crash
  <1>20. CASE UNCHANGED vars
    BY <1>20 DEF vars
  <1> HIDE DEF RenamesInOrder
  <1>21. QED BY <1>1, <1>2, <1>23, <1>24, <1>25, <1>3, <1>4, <1>5, <1>6, <1>7, <1>8, <1>9, <1>10, <1>11, <1>12, <1>13,
                <1>14, <1>15, <1>16, <1>17, <1>18, <1>19, <1>20 DEF Next

(***************************************************************************)
(* Payloads and their manifests.                                           *)
(***************************************************************************)
WholeIn(place) == Payload(place) # 0 => Version(place) = Payload(place)
OwnIn(place) == Payload(place) \in {0, attempt}

LEMMA WholeShape ==
  ASSUME PlacesAreWhole
  PROVE  /\ WholeIn("extracted") /\ WholeIn("previous")
         /\ pc \notin {"report", "exit"} => WholeIn("payload")
         /\ pc = "idle" => \A p \in Workspaces : fs[p] = Missing
         /\ OwnIn("payload") /\ Version("payload") \in {0, attempt}
         /\ pc # "idle" /\ ~flags.existed => OwnIn("extracted") /\ OwnIn("previous")
BY DEF PlacesAreWhole, WholeAt, WholeIn, OwnIn, Payload, Version

LEMMA WholeNext ==
  ASSUME WholeIn("extracted")', WholeIn("previous")',
         (pc \notin {"report", "exit"} => WholeIn("payload"))',
         (pc = "idle" => \A p \in Workspaces : fs[p] = Missing)',
         OwnIn("payload")', Version("payload")' \in {0, attempt'},
         (pc # "idle" /\ ~flags.existed => OwnIn("extracted") /\ OwnIn("previous"))'
  PROVE  PlacesAreWhole'
BY DEF PlacesAreWhole, WholeAt, WholeIn, OwnIn, Payload, Version

(* Steps that leave payloads and manifests alone. *)
LEMMA WholeSame ==
  ASSUME PlacesAreWhole, SameProducts, pc' # "idle", pc # "idle", attempt' = attempt,
         flags'.existed = flags.existed, pc \in {"report", "exit"} => pc' \in {"report", "exit"}
  PROVE  PlacesAreWhole'
PROOF
  <1>1. \A p \in {"extracted", "previous", "payload"} :
          Payload(p)' = Payload(p) /\ Version(p)' = Version(p)
    BY PlacesNamed DEF SameProducts
  <1>2. /\ Payload("extracted")' = Payload("extracted") /\ Version("extracted")' = Version("extracted")
        /\ Payload("previous")' = Payload("previous") /\ Version("previous")' = Version("previous")
        /\ Payload("payload")' = Payload("payload") /\ Version("payload")' = Version("payload")
    BY <1>1
  <1>3. QED BY <1>2, WholeShape, WholeNext DEF WholeIn, OwnIn

LEMMA SameFiles == ASSUME fs' = fs PROVE SameProducts
BY DEF SameProducts, Payload, Version

(* The products of a place that takes another's, or that nobody touches. *)
LEMMA MovedProducts ==
  ASSUME NEW from \in Places, NEW to \in Places, from # to, DirectoryMoves(from, to)
  PROVE  /\ Payload(to)' = Payload(from) /\ Version(to)' = Version(from)
         /\ Payload(from)' = 0 /\ Version(from)' = 0 /\ fs'[from] = Missing /\ fs'[to] # Missing
         /\ \A p \in Places : p \notin {from, to} =>
              Payload(p)' = Payload(p) /\ Version(p)' = Version(p) /\ fs'[p] = fs[p]
BY DEF DirectoryMoves, Payload, Version

LEMMA WholeStep ==
  ASSUME TypeOK, RenamesInOrder, NewIsStaged, PlacesAreWhole, [Next]_vars
  PROVE  PlacesAreWhole'
PROOF
  <1>1. /\ WholeIn("extracted") /\ WholeIn("previous")
        /\ pc \notin {"report", "exit"} => WholeIn("payload")
        /\ pc = "idle" => \A p \in Workspaces : fs[p] = Missing
        /\ OwnIn("payload") /\ Version("payload") \in {0, attempt}
        /\ pc # "idle" /\ ~flags.existed => OwnIn("extracted") /\ OwnIn("previous")
    BY WholeShape
  <1>2. CASE Start
    <2>1. /\ Holds("payload", 0, 0)' /\ OthersSame("payload")
          /\ flags'.existed = (fs["extracted"] # Missing) /\ pc = "idle" /\ pc' = "begin"
      BY <1>2, StartShape DEF Start
    <2>2. fs'["extracted"] = fs["extracted"] /\ fs'["previous"] = fs["previous"]
          /\ fs["previous"] = Missing
      BY <1>1, <2>1, PlacesNamed DEF OthersSame, Workspaces
    <2>3. WholeIn("extracted")' /\ WholeIn("previous")'
      BY <1>1, <2>2 DEF WholeIn, Payload, Version
    <2>4. WholeIn("payload")' /\ OwnIn("payload")' /\ Version("payload")' = 0
      BY <2>1 DEF Holds, WholeIn, OwnIn, Payload, Version
    <2>5. ~flags'.existed => OwnIn("extracted")' /\ OwnIn("previous")'
      BY <2>1, <2>2 DEF OwnIn, Payload
    <2>6. QED BY <2>1, <2>3, <2>4, <2>5, WholeNext
  <1>3. ASSUME NEW at \in {"begin", "prepared", "announce", "complete"},
               NEW code \in {"attempt.started", "payload.prepared", "publication.started", "attempt.published"},
               NEW next \in {"build", "secondary", "displace", "exit"}, Emit(at, code, next)
        PROVE  PlacesAreWhole'
    <2>1. /\ SameProducts /\ pc = at /\ pc' \in {next, "failing"} /\ attempt' = attempt
          /\ flags'.existed = flags.existed
      BY <1>3, EmitShape
    <2>2. QED BY <2>1, WholeSame
  <1>4. CASE \/ Emit("begin", "attempt.started", "build") \/ Emit("prepared", "payload.prepared", "secondary")
             \/ Emit("announce", "publication.started", "displace") \/ Emit("complete", "attempt.published", "exit")
    BY <1>3, <1>4
  <1>5. ASSUME NEW payload \in {0, attempt}, NEW manifest \in {0, attempt}, payload # 0 => manifest = payload,
               Holds("payload", payload, manifest)', OthersSame("payload"), pc = "build", pc' # "idle",
               attempt' = attempt, flags'.existed = flags.existed
        PROVE  PlacesAreWhole'
    <2>1. fs'["extracted"] = fs["extracted"] /\ fs'["previous"] = fs["previous"]
      BY <1>5, PlacesNamed DEF OthersSame
    <2>2. WholeIn("extracted")' /\ WholeIn("previous")'
      BY <1>1, <2>1 DEF WholeIn, Payload, Version
    <2>3. WholeIn("payload")' /\ OwnIn("payload")' /\ Version("payload")' \in {0, attempt'}
      BY <1>5 DEF Holds, WholeIn, OwnIn, Payload, Version
    <2>4. ~flags'.existed => OwnIn("extracted")' /\ OwnIn("previous")'
      BY <1>1, <1>5, <2>1 DEF OwnIn, Payload
    <2>5. QED BY <1>5, <2>2, <2>3, <2>4, WholeNext
  <1>6. ASSUME NEW collides \in BOOLEAN, Build(collides)
        PROVE  PlacesAreWhole'
    <2>1. pc = "build" /\ pc' = "prepared" /\ attempt' = attempt
      BY <1>6 DEF Build
    <2>2. QED BY <1>5, <1>6, <2>1, BuildShape
  <1>7. ASSUME NEW staged \in {0, attempt}, BuildFails(staged)
        PROVE  PlacesAreWhole'
    <2>1. pc = "build" /\ pc' = "failing" /\ attempt' = attempt
      BY <1>7 DEF BuildFails
    <2>2. QED BY <1>5, <1>7, <2>1, BuildFailsShape
  <1>8. CASE Reject
    BY <1>8, SameFiles, WholeSame DEF Reject
  <1>9. CASE WriteSecondary
    <2>1. OthersSame("output") /\ pc = "secondary" /\ pc' \in {"announce", "failing"}
          /\ UNCHANGED <<attempt, flags>>
      BY <1>9, WriteSecondaryShape DEF WriteSecondary
    <2>2. /\ fs'["extracted"] = fs["extracted"] /\ fs'["previous"] = fs["previous"]
          /\ fs'["payload"] = fs["payload"]
      BY <2>1, PlacesNamed DEF OthersSame
    <2>3. QED BY <1>1, <2>1, <2>2, WholeNext DEF WholeIn, OwnIn, Payload, Version
  <1>10. CASE Rename
    <2>1. /\ UNCHANGED <<pc, attempt, flags>> /\ pc \in {"displace", "carry", "commit"}
      BY <1>10, RenameSteps DEF Rename, RenamesFirstOut, RenamesSecondOut, RenamesFile, RenamesFirstIn,
                                RenamesSecondIn
    <2>2. CASE RenamesFirstOut
      <3>1. /\ Payload("previous")' = Payload("extracted") /\ Version("previous")' = Version("extracted")
            /\ Payload("extracted")' = 0 /\ Payload("payload")' = Payload("payload")
            /\ Version("payload")' = Version("payload")
        BY <2>2, PlacesNamed, MovedProducts DEF RenamesFirstOut
      <3>2. QED BY <1>1, <2>1, <3>1, WholeNext DEF WholeIn, OwnIn
    <2>3. CASE RenamesFirstIn
      <3>1. /\ Payload("extracted")' = Payload("payload") /\ Version("extracted")' = Version("payload")
            /\ Payload("payload")' = 0 /\ Version("payload")' = 0
            /\ Payload("previous")' = Payload("previous") /\ Version("previous")' = Version("previous")
        BY <2>3, PlacesNamed, MovedProducts DEF RenamesFirstIn
      <3>2. QED BY <1>1, <2>1, <3>1, WholeNext DEF WholeIn, OwnIn
    <2>4. CASE RenamesFile
      BY <2>1, <2>4, WholeSame DEF RenamesFile, FileMoves
    <2>5. CASE RenamesSecondOut \/ RenamesSecondIn
      <3>1. /\ Payload("extracted")' = Payload("extracted") /\ Version("extracted")' = Version("extracted")
            /\ Payload("previous")' = Payload("previous") /\ Version("previous")' = Version("previous")
            /\ Payload("payload")' = Payload("payload") /\ Version("payload")' = Version("payload")
        BY <2>5, PlacesNamed, MovedProducts DEF RenamesSecondOut, RenamesSecondIn
      <3>2. QED BY <1>1, <2>1, <3>1, WholeNext DEF WholeIn, OwnIn
    <2>6. QED BY <1>10, <2>2, <2>3, <2>4, <2>5, RenameSteps
  <1>11. CASE Record
    <2>1. UNCHANGED <<fs, attempt, flags>>
      BY <1>11, RecordSteps
    <2>2. pc \in {"displace", "carry", "commit"} /\ pc' \in {"displace", "carry", "commit", "returned"}
      BY <1>11, RecordSteps
         DEF RecordsFirstOut, RecordsSecondOut, RecordsFile, RecordsFirstIn, RecordsLast
    <2>3. QED BY <2>1, <2>2, SameFiles, WholeSame
  <1>12. CASE Skip
    BY <1>12, SameFiles, WholeSame DEF Skip
  <1>13. CASE PublishFails
    <2>1. pc \in {"displace", "carry", "commit"}
      BY <1>13 DEF PublishFails, Steps
    <2>2. QED BY <1>13, <2>1, SameFiles, WholeSame DEF PublishFails
  <1>14. CASE Interrupt
    BY <1>14, SameFiles, WholeSame DEF Interrupt
  <1>15. CASE Published
    <2>1. flags'.existed = flags.existed
      BY <1>15 DEF Published, TypeOK, Flags
    <2>2. QED BY <1>15, <2>1, SameFiles, WholeSame DEF Published
  <1>16. CASE RollBack
    <2>1. pc = "rollback" /\ UNCHANGED <<pc, attempt, flags>>
      BY <1>16, RollBackSteps
    <2>2. CASE UnwindsFirstIn
      <3>1. /\ Payload("payload")' = Payload("extracted") /\ Version("payload")' = Version("extracted")
            /\ Payload("extracted")' = 0
            /\ Payload("previous")' = Payload("previous") /\ Version("previous")' = Version("previous")
        BY <2>2, PlacesNamed, MovedProducts DEF UnwindsFirstIn
      <3>2. HoldsNew("extracted")
        BY <2>1, <2>2 DEF UnwindsFirstIn, NewIsStaged
      <3>3. Payload("extracted") = attempt /\ Version("extracted") = attempt
        BY <3>2 DEF HoldsNew, Payload, Version
      <3>4. QED BY <1>1, <2>1, <3>1, <3>3, WholeNext DEF WholeIn, OwnIn
    <2>3. CASE UnwindsFile
      BY <2>1, <2>3, WholeSame DEF UnwindsFile, FileMoves
    <2>4. CASE UnwindsFirstOut
      <3>1. /\ Payload("extracted")' = Payload("previous") /\ Version("extracted")' = Version("previous")
            /\ Payload("previous")' = 0 /\ Payload("payload")' = Payload("payload")
            /\ Version("payload")' = Version("payload")
        BY <2>4, PlacesNamed, MovedProducts DEF UnwindsFirstOut
      <3>2. QED BY <1>1, <2>1, <3>1, WholeNext DEF WholeIn, OwnIn
    <2>5. CASE UnwindsSecondOut
      <3>1. /\ Payload("extracted")' = Payload("extracted") /\ Version("extracted")' = Version("extracted")
            /\ Payload("previous")' = Payload("previous") /\ Version("previous")' = Version("previous")
            /\ Payload("payload")' = Payload("payload") /\ Version("payload")' = Version("payload")
        BY <2>5, PlacesNamed, MovedProducts DEF UnwindsSecondOut
      <3>2. QED BY <1>1, <2>1, <3>1, WholeNext DEF WholeIn, OwnIn
    <2>6. QED BY <1>16, <2>2, <2>3, <2>4, <2>5, RollBackSteps
  <1>17. CASE RolledBack
    BY <1>17, SameFiles, WholeSame DEF RolledBack
  <1>18. CASE RollBackFails
    <2>1. flags'.existed = flags.existed
      BY <1>18 DEF RollBackFails, TypeOK, Flags
    <2>2. QED BY <1>18, <2>1, SameFiles, WholeSame DEF RollBackFails
  <1>19. CASE Diagnose
    <2>1. pc = "failing" /\ pc' = "report" /\ attempt' = attempt
      BY <1>19 DEF Diagnose
    <2>2. /\ Payload("extracted")' = Payload("extracted") /\ Payload("previous")' = Payload("previous")
          /\ Payload("payload")' = Payload("payload") /\ fs'["previous"] = fs["previous"]
      BY <1>19, DiagnoseShape, PlacesNamed DEF Products
    <2>3. /\ Version("payload")' \in {0, attempt, Version("payload")}
          /\ \/ Version("extracted")' = Version("extracted")
             \/ ~flags.existed /\ Version("extracted")' \in {attempt, Version("payload")} \ {0}
          /\ flags'.existed = flags.existed
      BY <1>19, DiagnoseShape
    <2>4. Version("previous")' = Version("previous")
      BY <2>2 DEF Version
    <2>5. WholeIn("extracted")'
      BY <1>1, <2>1, <2>2, <2>3 DEF WholeIn, OwnIn
    <2>6. QED BY <1>1, <2>1, <2>2, <2>3, <2>4, <2>5, WholeNext DEF WholeIn, OwnIn
  <1>20. CASE Report
    <2>1. pc = "report" /\ pc' = "exit" /\ UNCHANGED <<attempt, flags>> /\ SameProducts
      BY <1>20, ReportShape DEF Report
    <2>2. QED BY <2>1, WholeSame
  <1>21. ASSUME fs' = Emptied, pc' = "idle", UNCHANGED <<attempt, flags>>
         PROVE  PlacesAreWhole'
    <2>1. /\ \A p \in Places : fs'[p] = IF p \in Workspaces THEN Missing ELSE fs[p]
      BY <1>21, EmptiedShape DEF TypeOK, FilesOK
    <2>2. /\ "extracted" \notin Workspaces /\ "previous" \in Workspaces /\ "payload" \in Workspaces
          /\ Workspaces \subseteq Places /\ "extracted" \in Places
      BY DEF Workspaces, Places
    <2>3. /\ fs'["extracted"] = fs["extracted"] /\ fs'["previous"] = Missing /\ fs'["payload"] = Missing
          /\ \A p \in Workspaces : fs'[p] = Missing
      BY <2>1, <2>2
    <2>4. QED BY <1>1, <1>21, <2>3, WholeNext DEF WholeIn, OwnIn, Payload, Version
  <1>22. CASE Exit
    BY <1>21, <1>22 DEF Exit
  <1>23. CASE Crash
    BY <1>21, <1>23 DEF Crash
  <1>24. CASE UNCHANGED vars
    BY <1>24 DEF vars, PlacesAreWhole, WholeAt, Payload
  <1>25. QED BY <1>2, <1>4, <1>6, <1>7, <1>8, <1>9, <1>10, <1>11, <1>12, <1>13, <1>14, <1>15, <1>16,
                <1>17, <1>18, <1>19, <1>20, <1>22, <1>23, <1>24 DEF Next

(***************************************************************************)
(* Where the payloads are, rename by rename.                               *)
(***************************************************************************)
LEMMA StacksDiffer ==
  /\ <<>> # <<FirstOut>> /\ <<>> # <<SecondOut>> /\ <<>> # <<FirstOut, SecondOut>>
  /\ <<FirstOut>> # <<SecondOut>> /\ <<FirstOut>> # <<FirstOut, SecondOut>>
  /\ <<SecondOut>> # <<FirstOut, SecondOut>> /\ <<>> # <<FirstIn>>
BY MovesDiffer

LEMMA RenamePositions ==
  ASSUME moved = NoMove, undo' = undo
  PROVE  /\ RenamesFirstOut => /\ ~FirstDisplaced /\ ~SecondDisplaced /\ ~FirstCommitted /\ ~SecondCommitted
                               /\ (FirstDisplaced /\ ~SecondDisplaced /\ ~FirstCommitted /\ ~SecondCommitted)'
         /\ RenamesSecondOut => /\ ~SecondDisplaced /\ FirstCommitted /\ ~SecondCommitted
                                /\ (SecondDisplaced /\ FirstCommitted /\ ~SecondCommitted)'
                                /\ (FirstDisplaced' <=> FirstDisplaced)
         /\ RenamesFile => /\ (FirstDisplaced' <=> FirstDisplaced) /\ (SecondDisplaced' <=> SecondDisplaced)
                           /\ (FirstCommitted' <=> FirstCommitted) /\ (SecondCommitted' <=> SecondCommitted)
         /\ RenamesFirstIn => /\ ~FirstCommitted /\ ~SecondCommitted /\ ~SecondDisplaced
                              /\ (FirstCommitted /\ ~SecondCommitted /\ ~SecondDisplaced)'
                              /\ (FirstDisplaced' <=> FirstDisplaced)
         /\ RenamesSecondIn => /\ FirstCommitted /\ ~SecondCommitted /\ (FirstCommitted /\ SecondCommitted)'
                               /\ (FirstDisplaced' <=> FirstDisplaced) /\ (SecondDisplaced' <=> SecondDisplaced)
PROOF
  <1>1. undo = Undone => undo.committed = <<>> /\ undo.displaced = <<>>
    BY DEF Undone
  <1> USE MovesDiffer, StacksDiffer DEF FirstDisplaced, SecondDisplaced, FirstCommitted, SecondCommitted
  <1>2. RenamesFirstOut =>
          /\ ~FirstDisplaced /\ ~SecondDisplaced /\ ~FirstCommitted /\ ~SecondCommitted
          /\ (FirstDisplaced /\ ~SecondDisplaced /\ ~FirstCommitted /\ ~SecondCommitted)'
    BY <1>1 DEF RenamesFirstOut
  <1>3. RenamesSecondOut =>
          /\ ~SecondDisplaced /\ FirstCommitted /\ ~SecondCommitted
          /\ (SecondDisplaced /\ FirstCommitted /\ ~SecondCommitted)'
          /\ (FirstDisplaced' <=> FirstDisplaced)
    BY DEF RenamesSecondOut
  <1>4. RenamesFile => /\ (FirstDisplaced' <=> FirstDisplaced) /\ (SecondDisplaced' <=> SecondDisplaced)
                           /\ (FirstCommitted' <=> FirstCommitted) /\ (SecondCommitted' <=> SecondCommitted)
    BY DEF RenamesFile
  <1>5. RenamesFirstIn =>
          /\ ~FirstCommitted /\ ~SecondCommitted /\ ~SecondDisplaced
          /\ (FirstCommitted /\ ~SecondCommitted /\ ~SecondDisplaced)'
          /\ (FirstDisplaced' <=> FirstDisplaced)
    BY DEF RenamesFirstIn
  <1>6. RenamesSecondIn =>
          /\ FirstCommitted /\ ~SecondCommitted /\ (FirstCommitted /\ SecondCommitted)'
          /\ (FirstDisplaced' <=> FirstDisplaced) /\ (SecondDisplaced' <=> SecondDisplaced)
    BY DEF RenamesSecondIn
  <1> HIDE DEF FirstDisplaced, SecondDisplaced, FirstCommitted, SecondCommitted
  <1>7. QED BY <1>2, <1>3, <1>4, <1>5, <1>6

LEMMA RecordPositions ==
  ASSUME moved' = NoMove, RecordsFirstOut \/ RecordsSecondOut \/ RecordsFile \/ RecordsFirstIn
  PROVE  /\ (FirstDisplaced' <=> FirstDisplaced) /\ (SecondDisplaced' <=> SecondDisplaced)
         /\ (FirstCommitted' <=> FirstCommitted) /\ (SecondCommitted' <=> SecondCommitted)
PROOF
  <1>1. undo = Undone => undo.committed = <<>> /\ undo.displaced = <<>>
    BY DEF Undone
  <1> USE MovesDiffer, StacksDiffer DEF FirstDisplaced, SecondDisplaced, FirstCommitted, SecondCommitted
  <1>2. CASE RecordsFirstOut
    BY <1>1, <1>2 DEF RecordsFirstOut
  <1>3. CASE RecordsSecondOut
    BY <1>3 DEF RecordsSecondOut
  <1>4. CASE RecordsFile
    BY <1>4 DEF RecordsFile
  <1>5. CASE RecordsFirstIn
    BY <1>5 DEF RecordsFirstIn
  <1>6. QED BY <1>2, <1>3, <1>4, <1>5

LEMMA UnwindPositions ==
  ASSUME moved = NoMove, moved' = NoMove
  PROVE  /\ UnwindsFirstIn => /\ FirstCommitted /\ ~FirstCommitted'
                              /\ (FirstDisplaced' <=> FirstDisplaced) /\ (SecondDisplaced' <=> SecondDisplaced)
         /\ UnwindsFile => /\ (FirstDisplaced' <=> FirstDisplaced) /\ (SecondDisplaced' <=> SecondDisplaced)
                           /\ (FirstCommitted' <=> FirstCommitted)
         /\ UnwindsFirstOut => /\ FirstDisplaced /\ ~FirstCommitted /\ ~SecondDisplaced
                               /\ (~FirstDisplaced /\ ~FirstCommitted /\ ~SecondDisplaced)'
         /\ UnwindsSecondOut => /\ SecondDisplaced /\ ~SecondDisplaced' /\ (FirstDisplaced' <=> FirstDisplaced)
                                /\ (FirstCommitted' <=> FirstCommitted)
         /\ ~SecondCommitted /\ ~SecondCommitted'
PROOF
  <1> USE MovesDiffer, StacksDiffer DEF FirstDisplaced, SecondDisplaced, FirstCommitted, SecondCommitted
  <1>1. UnwindsFirstIn =>
          /\ FirstCommitted /\ ~FirstCommitted'
          /\ (FirstDisplaced' <=> FirstDisplaced) /\ (SecondDisplaced' <=> SecondDisplaced)
    BY DEF UnwindsFirstIn
  <1>2. UnwindsFile =>
          /\ (FirstDisplaced' <=> FirstDisplaced) /\ (SecondDisplaced' <=> SecondDisplaced)
          /\ (FirstCommitted' <=> FirstCommitted)
    BY DEF UnwindsFile
  <1>3. UnwindsFirstOut =>
          /\ FirstDisplaced /\ ~FirstCommitted /\ ~SecondDisplaced
          /\ (~FirstDisplaced /\ ~FirstCommitted /\ ~SecondDisplaced)'
    BY DEF UnwindsFirstOut
  <1>4. UnwindsSecondOut =>
          /\ SecondDisplaced /\ ~SecondDisplaced' /\ (FirstDisplaced' <=> FirstDisplaced)
          /\ (FirstCommitted' <=> FirstCommitted)
    BY DEF UnwindsSecondOut
  <1>5. ~SecondCommitted /\ ~SecondCommitted'
    OBVIOUS
  <1> HIDE DEF FirstDisplaced, SecondDisplaced, FirstCommitted, SecondCommitted
  <1>6. QED BY <1>1, <1>2, <1>3, <1>4, <1>5

(***************************************************************************)
(* The attempt's own payload.                                              *)
(***************************************************************************)
LEMMA NewSame ==
  ASSUME SameProducts, attempt' = attempt, NEW place \in Places, HoldsNew(place)
  PROVE  HoldsNew(place)'
BY DEF SameProducts, HoldsNew, Payload, Version

LEMMA NewUntouched ==
  ASSUME NEW place, fs'[place] = fs[place], attempt' = attempt, HoldsNew(place)
  PROVE  HoldsNew(place)'
BY DEF HoldsNew

LEMMA NewMoved ==
  ASSUME NEW from \in Places, NEW to \in Places, from # to, DirectoryMoves(from, to), attempt' = attempt
  PROVE  /\ HoldsNew(from) => HoldsNew(to)'
         /\ \A p \in Places : p \notin {from, to} /\ HoldsNew(p) => HoldsNew(p)'
BY DEF DirectoryMoves, HoldsNew

LEMMA StagedStep ==
  ASSUME TypeOK, RenamesInOrder, NewIsStaged, [Next]_vars
  PROVE  NewIsStaged'
PROOF
  <1> USE DEF NewIsStaged, Publishing
  <1>1. CASE Start
    BY <1>1 DEF Start
  <1>2. CASE Emit("begin", "attempt.started", "build") \/ Emit("complete", "attempt.published", "exit")
    BY <1>2 DEF Emit
  <1>3. CASE Emit("prepared", "payload.prepared", "secondary")
    <2>1. SameProducts /\ pc = "prepared" /\ pc' \in {"secondary", "failing"} /\ attempt' = attempt
      BY <1>3, EmitShape
    <2>2. HoldsNew("payload")'
      BY <2>1, NewSame, PlacesNamed
    <2>3. QED BY <2>1, <2>2
  <1>4. CASE Emit("announce", "publication.started", "displace")
    <2>1. /\ SameProducts /\ pc = "announce" /\ pc' \in {"displace", "failing"} /\ attempt' = attempt
          /\ UNCHANGED <<moved, undo>>
      BY <1>4, EmitShape DEF publishing
    <2>2. HoldsNew("payload")' /\ (Secondary => HoldsNew("output")')
      BY <2>1, NewSame, PlacesNamed
    <2>3. moved = NoMove /\ undo.committed = <<>>
      BY <2>1 DEF RenamesInOrder, Undone
    <2>4. ~FirstCommitted' /\ ~SecondCommitted'
      BY <2>1, <2>3, MovesDiffer DEF FirstCommitted, SecondCommitted
    <2>5. QED BY <2>1, <2>2, <2>4
  <1>5. ASSUME NEW collides \in BOOLEAN, Build(collides)
        PROVE  NewIsStaged'
    <2>1. Holds("payload", attempt, attempt)' /\ pc' = "prepared"
      BY <1>5, BuildShape DEF Build
    <2>2. HoldsNew("payload")'
      BY <2>1 DEF Holds, HoldsNew
    <2>3. QED BY <2>1, <2>2
  <1>6. ASSUME NEW staged \in {0, attempt}, BuildFails(staged)
        PROVE  NewIsStaged'
    BY <1>6 DEF BuildFails
  <1>7. CASE Reject
    BY <1>7 DEF Reject
  <1>8. CASE WriteSecondary
    <2>1. /\ OthersSame("output") /\ pc = "secondary" /\ pc' \in {"announce", "failing"} /\ attempt' = attempt
          /\ pc' = "announce" /\ Secondary => Holds("output", attempt, attempt)'
      BY <1>8, WriteSecondaryShape DEF WriteSecondary
    <2>2. HoldsNew("payload")'
      BY <2>1, NewUntouched, PlacesNamed DEF OthersSame
    <2>3. pc' = "announce" /\ Secondary => HoldsNew("output")'
      BY <2>1 DEF Holds, HoldsNew
    <2>4. QED BY <2>1, <2>2, <2>3
  <1>9. CASE Rename
    <2>1. UNCHANGED <<pc, attempt, undo>> /\ moved = NoMove
      BY <1>9 DEF Rename
    <2>2. CASE RenamesFirstOut
      <3>1. /\ HoldsNew("payload") => HoldsNew("payload")'
            /\ HoldsNew("output") => HoldsNew("output")'
        BY <2>1, <2>2, NewMoved, PlacesNamed DEF RenamesFirstOut
      <3>2. QED BY <2>1, <2>2, <3>1, RenamePositions DEF RenamesFirstOut
    <2>3. CASE RenamesSecondOut
      <3>1. /\ HoldsNew("extracted") => HoldsNew("extracted")'
            /\ HoldsNew("output") => HoldsNew("output")'
        BY <2>1, <2>3, NewMoved, PlacesNamed DEF RenamesSecondOut
      <3>2. QED BY <2>1, <2>3, <3>1, RenamePositions DEF RenamesSecondOut
    <2>4. CASE RenamesFile
      <3>1. \A p \in Places : HoldsNew(p) => HoldsNew(p)'
        BY <2>1, <2>4, NewSame DEF RenamesFile, FileMoves
      <3>2. /\ HoldsNew("payload") => HoldsNew("payload")'
            /\ HoldsNew("extracted") => HoldsNew("extracted")'
            /\ HoldsNew("copy") => HoldsNew("copy")'
            /\ HoldsNew("output") => HoldsNew("output")'
        BY <3>1, PlacesNamed
      <3>3. (FirstCommitted' <=> FirstCommitted) /\ (SecondCommitted' <=> SecondCommitted)
        BY <2>1, <2>4, RenamePositions
      <3>4. QED BY <2>1, <2>4, <3>2, <3>3 DEF RenamesFile
    <2>5. CASE RenamesFirstIn
      <3>1. /\ HoldsNew("payload") => HoldsNew("extracted")'
            /\ HoldsNew("output") => HoldsNew("output")'
        BY <2>1, <2>5, NewMoved, PlacesNamed DEF RenamesFirstIn
      <3>2. QED BY <2>1, <2>5, <3>1, RenamePositions DEF RenamesFirstIn
    <2>6. CASE RenamesSecondIn
      <3>1. /\ HoldsNew("extracted") => HoldsNew("extracted")'
            /\ HoldsNew("output") => HoldsNew("copy")'
        BY <2>1, <2>6, NewMoved, PlacesNamed DEF RenamesSecondIn
      <3>2. QED BY <2>1, <2>6, <3>1, RenamePositions DEF RenamesSecondIn
    <2>7. QED BY <1>9, <2>2, <2>3, <2>4, <2>5, <2>6, RenameSteps
  <1>10. CASE Record
    <2>1. moved' = NoMove /\ UNCHANGED <<fs, attempt>>
      BY <1>10, RecordSteps
    <2>2. \A p : HoldsNew(p)' <=> HoldsNew(p)
      BY <2>1 DEF HoldsNew
    <2>3. CASE RecordsLast
      BY <2>3 DEF RecordsLast
    <2>4. CASE RecordsFirstOut \/ RecordsSecondOut \/ RecordsFile \/ RecordsFirstIn
      <3>1. (FirstCommitted' <=> FirstCommitted) /\ (SecondCommitted' <=> SecondCommitted)
        BY <2>1, <2>4, RecordPositions
      <3>2. Publishing /\ Publishing'
        BY <2>4 DEF RecordsFirstOut, RecordsSecondOut, RecordsFile, RecordsFirstIn
      <3>3. QED BY <2>2, <3>1, <3>2
    <2>5. QED BY <1>10, <2>3, <2>4, RecordSteps
  <1>11. CASE Skip
    BY <1>11 DEF Skip, publishing, HoldsNew, FirstCommitted, SecondCommitted
  <1>12. CASE PublishFails
    <2>1. pc \in {"displace", "carry", "commit"} /\ UNCHANGED <<fs, attempt, undo>> /\ pc' = "rollback"
      BY <1>12 DEF PublishFails, Steps, publishing
    <2>2. QED BY <2>1 DEF HoldsNew, FirstCommitted
  <1>13. CASE Interrupt
    BY <1>13 DEF Interrupt, HoldsNew, FirstCommitted
  <1>14. CASE Published
    BY <1>14 DEF Published
  <1>15. CASE RollBack
    <2>1. /\ pc = "rollback" /\ UNCHANGED <<pc, attempt>>
          /\ UnwindsFirstIn \/ UnwindsFile \/ UnwindsFirstOut \/ UnwindsSecondOut
      BY <1>15, RollBackSteps
    <2>2. undo'.committed = <<>>
      BY <2>1 DEF UnwindsFirstIn, UnwindsFile, UnwindsFirstOut, UnwindsSecondOut
    <2>3. QED BY <2>1, <2>2
  <1>16. CASE RolledBack
    BY <1>16 DEF RolledBack
  <1>17. CASE RollBackFails
    BY <1>17 DEF RollBackFails
  <1>18. CASE Diagnose
    BY <1>18 DEF Diagnose
  <1>19. CASE Report
    BY <1>19 DEF Report
  <1>20. CASE Exit
    BY <1>20 DEF Exit
  <1>21. CASE Crash
    BY <1>21 DEF Crash
  <1>22. CASE UNCHANGED vars
    BY <1>22 DEF vars, HoldsNew, FirstCommitted, SecondCommitted
  <1> HIDE DEF NewIsStaged, Publishing
  <1>23. QED BY <1>1, <1>2, <1>3, <1>4, <1>5, <1>6, <1>7, <1>8, <1>9, <1>10, <1>11, <1>12, <1>13,
                <1>14, <1>15, <1>16, <1>17, <1>18, <1>19, <1>20, <1>21, <1>22 DEF Next

(***************************************************************************)
(* The last good payload.                                                  *)
(***************************************************************************)
LEMMA CopyStep ==
  ASSUME TypeOK, RenamesInOrder, CopyIsCleared, [Next]_vars
  PROVE  CopyIsCleared'
PROOF
  <1> USE DEF CopyIsCleared
  <1>1. index = 1 \/ (Secondary /\ index = 2)
    <2>1. index \in 1..Len(Targets)
      BY DEF TypeOK
    <2>2. CASE Secondary
      <3>1. index \in 1..2
        BY <2>1, <2>2, TargetShape
      <3>2. QED BY <2>2, <3>1
    <2>3. CASE ~Secondary
      <3>1. index \in 1..1
        BY <2>1, <2>3, TargetShape
      <3>2. QED BY <3>1
    <2>4. QED BY <2>2, <2>3
  <1>2. Secondary /\ index = 2 => Target = OutputFile
    BY TargetShape DEF Target
  <1>3. CASE Rename
    <2>1. UNCHANGED <<pc, index, undo>> /\ moved = NoMove
      BY <1>3 DEF Rename
    <2>2. CASE RenamesSecondOut
      <3>1. fs'["copy"] = Missing
        BY <2>2, MovedProducts, PlacesNamed DEF RenamesSecondOut
      <3>2. QED BY <3>1
    <2>3. CASE RenamesFirstOut \/ RenamesFile \/ RenamesFirstIn \/ RenamesSecondIn
      <3>1. moved' # NoMove /\ moved' # SecondOut
        BY <2>3, MovesDiffer DEF RenamesFirstOut, RenamesFile, RenamesFirstIn, RenamesSecondIn
      <3>2. QED BY <3>1
    <2>4. QED BY <1>3, <2>2, <2>3, RenameSteps
  <1>4. CASE Record
    <2>1. moved' = NoMove /\ fs' = fs
      BY <1>4, RecordSteps
    <2>2. CASE pc' = "commit" /\ index' = 2
      <3>1. RecordsSecondOut
        BY <1>4, <2>2, RecordSteps DEF RecordsFirstOut, RecordsFile, RecordsFirstIn, RecordsLast
      <3>2. QED BY <2>1, <3>1 DEF RecordsSecondOut
    <2>3. QED BY <2>1, <2>2, MovesDiffer
  <1>5. CASE Skip
    <2>1. pc \in {"displace", "carry"} /\ Steps = {} /\ pc' = "commit" /\ UNCHANGED <<fs, index, moved>>
      BY <1>5 DEF Skip, publishing
    <2>2. CASE index = 2
      <3>1. pc = "displace" /\ Target = OutputFile
        BY <1>1, <1>2, <2>1, <2>2 DEF RenamesInOrder
      <3>2. fs[Target.destination] = Missing
        BY <2>1, <3>1 DEF Steps
      <3>3. fs["copy"] = Missing
        BY <3>1, <3>2 DEF OutputFile
      <3>4. QED BY <2>1, <3>3
    <2>3. QED BY <2>1, <2>2
  <1>6. CASE UNCHANGED vars
    BY <1>6 DEF vars
  <1>7. CASE Emit("announce", "publication.started", "displace")
    <2>1. pc = "announce" /\ pc' \in {"displace", "failing"} /\ moved' = moved
      BY <1>7 DEF Emit, publishing
    <2>2. moved = NoMove
      BY <2>1 DEF RenamesInOrder
    <2>3. QED BY <2>1, <2>2, MovesDiffer
  <1>8. CASE \/ Emit("begin", "attempt.started", "build") \/ Emit("prepared", "payload.prepared", "secondary")
             \/ Emit("complete", "attempt.published", "exit")
    BY <1>8 DEF Emit
  <1>9. CASE Start
    BY <1>9 DEF Start
  <1>10. ASSUME \/ \E collides \in BOOLEAN : Build(collides)
                \/ \E staged \in {0, attempt} : BuildFails(staged)
         PROVE  CopyIsCleared'
    BY <1>10 DEF Build, BuildFails
  <1>11. CASE Reject \/ WriteSecondary \/ Published \/ Diagnose \/ Report
    BY <1>11 DEF Reject, WriteSecondary, Published, Diagnose, Report
  <1>12. CASE PublishFails \/ Interrupt \/ RolledBack \/ RollBackFails \/ Exit \/ Crash
    BY <1>12 DEF PublishFails, Interrupt, RolledBack, RollBackFails, Exit, Crash
  <1>13. CASE RollBack
    BY <1>13 DEF RollBack
  <1> HIDE DEF CopyIsCleared
  <1>14. QED BY <1>3, <1>4, <1>5, <1>6, <1>7, <1>8, <1>9, <1>10, <1>11, <1>12, <1>13 DEF Next

LEMMA RecoveryStep ==
  ASSUME TypeOK, RenamesInOrder, RecoveryIsLast, [Next]_vars
  PROVE  RecoveryIsLast'
PROOF
  <1> USE DEF RecoveryIsLast
  <1>1. CASE Start
    BY <1>1, StartShape
  <1>2. ASSUME NEW at \in {"begin", "prepared", "announce", "complete"},
               NEW code \in {"attempt.started", "payload.prepared", "publication.started", "attempt.published"},
               NEW next \in {"build", "secondary", "displace", "exit"}, Emit(at, code, next)
        PROVE  RecoveryIsLast'
    BY <1>2, EmitShape
  <1>3. CASE \/ Emit("begin", "attempt.started", "build") \/ Emit("prepared", "payload.prepared", "secondary")
             \/ Emit("announce", "publication.started", "displace") \/ Emit("complete", "attempt.published", "exit")
    BY <1>2, <1>3
  <1>4. ASSUME NEW collides \in BOOLEAN, Build(collides)
        PROVE  RecoveryIsLast'
    BY <1>4, BuildShape DEF Build
  <1>5. ASSUME NEW staged \in {0, attempt}, BuildFails(staged)
        PROVE  RecoveryIsLast'
    BY <1>5, BuildFailsShape DEF BuildFails
  <1>6. CASE Rename
    BY <1>6 DEF Rename
  <1>7. CASE Record
    <2>1. pc \in {"displace", "carry", "commit"} /\ flags' = flags
      BY <1>7, RecordSteps
         DEF RecordsFirstOut, RecordsSecondOut, RecordsFile, RecordsFirstIn, RecordsLast
    <2>2. QED BY <2>1
  <1>8. CASE Reject \/ WriteSecondary \/ Skip \/ Interrupt
    BY <1>8 DEF Reject, WriteSecondary, Skip, Interrupt
  <1>9. CASE PublishFails
    BY <1>9 DEF PublishFails, Steps
  <1>10. CASE Published
    BY <1>10 DEF Published, TypeOK, Flags
  <1>11. CASE RollBack \/ RolledBack \/ RollBackFails
    BY <1>11 DEF RollBack, RolledBack, RollBackFails
  <1>12. CASE Diagnose
    BY <1>12, DiagnoseShape DEF Diagnose
  <1>13. CASE Report \/ Exit \/ Crash
    BY <1>13 DEF Report, Exit, Crash
  <1>14. CASE UNCHANGED vars
    BY <1>14 DEF vars
  <1> HIDE DEF RecoveryIsLast
  <1>15. QED BY <1>1, <1>3, <1>4, <1>5, <1>6, <1>7, <1>8, <1>9, <1>10, <1>11, <1>12, <1>13, <1>14 DEF Next

(* HoldsOld of each target, with its places written out. *)
LEMMA HeldShape ==
  /\ FirstHeld <=> IF FirstDisplaced THEN Payload("previous") = good
                   ELSE IF FirstCommitted THEN good = 0 ELSE Payload("extracted") = good
  /\ SecondHeld <=> (Secondary => IF SecondDisplaced THEN Payload("previous copy") = good
                                  ELSE IF SecondCommitted THEN good = 0 ELSE Payload("copy") = good)
BY DEF FirstHeld, SecondHeld, HoldsOld, Destination, OutputFile

LEMMA HeldNext ==
  /\ FirstHeld' <=> IF FirstDisplaced' THEN Payload("previous")' = good'
                    ELSE IF FirstCommitted' THEN good' = 0 ELSE Payload("extracted")' = good'
  /\ SecondHeld' <=> (Secondary => IF SecondDisplaced' THEN Payload("previous copy")' = good'
                                   ELSE IF SecondCommitted' THEN good' = 0 ELSE Payload("copy")' = good')
BY DEF FirstHeld, SecondHeld, HoldsOld, Destination, OutputFile

LEMMA SamePayloads ==
  ASSUME SameProducts
  PROVE  /\ Payload("extracted")' = Payload("extracted") /\ Payload("previous")' = Payload("previous")
         /\ Payload("copy")' = Payload("copy") /\ Payload("previous copy")' = Payload("previous copy")
BY PlacesNamed DEF SameProducts

LEMMA MissingIsEmpty == \A p : fs[p] = Missing => Payload(p) = 0
BY DEF Payload

LEMMA HeldByRename ==
  ASSUME TypeOK, RenamesInOrder, CopyIsCleared, Rename
  PROVE  (FirstHeld => FirstHeld') /\ (SecondHeld => SecondHeld')
PROOF
  <1>1. /\ UNCHANGED <<pc, undo, good>> /\ moved = NoMove
        /\ RenamesFirstOut \/ RenamesSecondOut \/ RenamesFile \/ RenamesFirstIn \/ RenamesSecondIn
    BY RenameSteps DEF Rename
  <1>2. CASE RenamesFirstOut
    <2>1. /\ Payload("previous")' = Payload("extracted")
          /\ Payload("copy")' = Payload("copy") /\ Payload("previous copy")' = Payload("previous copy")
      BY <1>2, MovedProducts, PlacesNamed DEF RenamesFirstOut
    <2>2. QED BY <1>1, <1>2, <2>1, RenamePositions, HeldShape, HeldNext
  <1>3. CASE RenamesSecondOut
    <2>1. /\ Payload("previous copy")' = Payload("copy")
          /\ Payload("extracted")' = Payload("extracted") /\ Payload("previous")' = Payload("previous")
      BY <1>3, MovedProducts, PlacesNamed DEF RenamesSecondOut
    <2>2. QED BY <1>1, <1>3, <2>1, RenamePositions, HeldShape, HeldNext
  <1>4. CASE RenamesFile
    <2>1. /\ (FirstDisplaced' <=> FirstDisplaced) /\ (SecondDisplaced' <=> SecondDisplaced)
          /\ (FirstCommitted' <=> FirstCommitted) /\ (SecondCommitted' <=> SecondCommitted)
      BY <1>1, <1>4, RenamePositions
    <2>2. QED BY <1>1, <1>4, <2>1, SamePayloads, HeldShape, HeldNext DEF RenamesFile, FileMoves
  <1>5. CASE RenamesFirstIn
    <2>1. /\ Payload("previous")' = Payload("previous") /\ Payload("extracted") = 0
          /\ Payload("copy")' = Payload("copy") /\ Payload("previous copy")' = Payload("previous copy")
      BY <1>5, MovedProducts, PlacesNamed, MissingIsEmpty DEF RenamesFirstIn
    <2>2. QED BY <1>1, <1>5, <2>1, RenamePositions, HeldShape, HeldNext
  <1>6. CASE RenamesSecondIn
    <2>1. /\ Payload("extracted")' = Payload("extracted") /\ Payload("previous")' = Payload("previous")
          /\ Payload("previous copy")' = Payload("previous copy")
      BY <1>6, MovedProducts, PlacesNamed DEF RenamesSecondIn
    <2>2. Payload("copy") = 0
      BY <1>1, <1>6, MissingIsEmpty DEF RenamesSecondIn, CopyIsCleared
    <2>3. QED BY <1>1, <1>6, <2>1, <2>2, RenamePositions, HeldShape, HeldNext
  <1>7. QED BY <1>1, <1>2, <1>3, <1>4, <1>5, <1>6

LEMMA HeldByRecord ==
  ASSUME TypeOK, RenamesInOrder, Record, ~RecordsLast
  PROVE  (FirstHeld => FirstHeld') /\ (SecondHeld => SecondHeld')
PROOF
  <1>1. /\ moved' = NoMove /\ fs' = fs
        /\ RecordsFirstOut \/ RecordsSecondOut \/ RecordsFile \/ RecordsFirstIn
    BY RecordSteps
  <1>2. good' = good
    BY <1>1 DEF RecordsFirstOut, RecordsSecondOut, RecordsFile, RecordsFirstIn
  <1>3. QED BY <1>1, <1>2, RecordPositions, SameFiles, SamePayloads, HeldShape, HeldNext

LEMMA HeldByRollBack ==
  ASSUME TypeOK, RenamesInOrder, RollBack
  PROVE  (FirstHeld => FirstHeld') /\ (SecondHeld => SecondHeld')
PROOF
  <1>1. /\ UNCHANGED <<pc, moved, good>> /\ pc = "rollback"
        /\ UnwindsFirstIn \/ UnwindsFile \/ UnwindsFirstOut \/ UnwindsSecondOut
    BY RollBackSteps
  <1>2. moved = NoMove /\ moved' = NoMove
    BY <1>1 DEF RenamesInOrder, Publishing
  <1>3. CASE UnwindsFirstIn
    <2>1. /\ Payload("previous")' = Payload("previous") /\ Payload("extracted")' = 0
          /\ Payload("copy")' = Payload("copy") /\ Payload("previous copy")' = Payload("previous copy")
      BY <1>3, MovedProducts, PlacesNamed DEF UnwindsFirstIn
    <2>2. QED BY <1>1, <1>2, <1>3, <2>1, UnwindPositions, HeldShape, HeldNext
  <1>4. CASE UnwindsFile
    BY <1>1, <1>2, <1>4, SamePayloads, UnwindPositions, HeldShape, HeldNext DEF UnwindsFile, FileMoves
  <1>5. CASE UnwindsFirstOut
    <2>1. /\ Payload("extracted")' = Payload("previous")
          /\ Payload("copy")' = Payload("copy") /\ Payload("previous copy")' = Payload("previous copy")
      BY <1>5, MovedProducts, PlacesNamed DEF UnwindsFirstOut
    <2>2. QED BY <1>1, <1>2, <1>5, <2>1, UnwindPositions, HeldShape, HeldNext
  <1>6. CASE UnwindsSecondOut
    <2>1. /\ Payload("extracted")' = Payload("extracted") /\ Payload("previous")' = Payload("previous")
          /\ Payload("copy")' = Payload("previous copy")
      BY <1>6, MovedProducts, PlacesNamed DEF UnwindsSecondOut
    <2>2. QED BY <1>1, <1>2, <1>6, <2>1, UnwindPositions, HeldShape, HeldNext
  <1>7. QED BY <1>1, <1>3, <1>4, <1>5, <1>6

(* Steps that touch neither the places nor the positions. *)
LEMMA HeldSame ==
  ASSUME SameProducts, UNCHANGED <<moved, undo, good>>
  PROVE  (FirstHeld => FirstHeld') /\ (SecondHeld => SecondHeld')
PROOF
  <1>1. /\ (FirstDisplaced' <=> FirstDisplaced) /\ (SecondDisplaced' <=> SecondDisplaced)
        /\ (FirstCommitted' <=> FirstCommitted) /\ (SecondCommitted' <=> SecondCommitted)
    BY DEF FirstDisplaced, SecondDisplaced, FirstCommitted, SecondCommitted
  <1>2. QED BY <1>1, SamePayloads, HeldShape, HeldNext

(* Before the first rename, and when everything has been taken back, the    *)
(* old payloads are at their destinations.                                 *)
LEMMA NothingMoved ==
  ASSUME moved = NoMove, undo.committed = <<>>, undo.displaced = <<>>
  PROVE  ~FirstDisplaced /\ ~SecondDisplaced /\ ~FirstCommitted /\ ~SecondCommitted
BY MovesDiffer, StacksDiffer DEF FirstDisplaced, SecondDisplaced, FirstCommitted, SecondCommitted

LEMMA OutputsShape ==
  Outputs = IF Secondary THEN {"extracted", "copy"} ELSE {"extracted"}
PROOF
  <1>1. DOMAIN Targets = 1..Len(Targets)
    BY DEF Targets
  <1>2. Destination.destination = "extracted" /\ OutputFile.destination = "copy"
    BY DEF Destination, OutputFile
  <1>3. CASE Secondary
    <2>1. DOMAIN Targets = {1, 2}
      <3>1. 1..2 = {1, 2}
        OBVIOUS
      <3>2. QED BY <1>1, <1>3, <3>1, TargetShape
    <2>2. QED BY <1>2, <1>3, <2>1, TargetShape DEF Outputs
  <1>4. CASE ~Secondary
    <2>1. DOMAIN Targets = {1}
      <3>1. 1..1 = {1}
        OBVIOUS
      <3>2. QED BY <1>1, <1>4, <3>1, TargetShape
    <2>2. QED BY <1>2, <1>4, <2>1, TargetShape DEF Outputs
  <1>5. QED BY <1>3, <1>4

(* Steps between two settled moments that keep the outputs' payloads. *)
LEMMA InPlaceSettled ==
  ASSUME OldIsInPlace, ~Unsettled, ~Unsettled', good' = good, stranded' = stranded,
         Payload("extracted")' = Payload("extracted"), Secondary => Payload("copy")' = Payload("copy"),
         Abandoned' => Abandoned
  PROVE  OldIsInPlace'
BY OutputsShape DEF OldIsInPlace

LEMMA InPlaceStranded == ASSUME stranded' = TRUE PROVE OldIsInPlace'
BY DEF OldIsInPlace

(* Steps between two moments of publish() or of its rollback. *)
LEMMA InPlaceUnsettled ==
  ASSUME OldIsInPlace, Unsettled, Unsettled', stranded' = stranded,
         FirstHeld => FirstHeld', SecondHeld => SecondHeld', ~Abandoned'
  PROVE  OldIsInPlace'
BY DEF OldIsInPlace

LEMMA HeldSettled ==
  ASSUME OldIsHeld, ~Unsettled, ~Unsettled', good' = good, leaked' = leaked, interrupted => interrupted',
         Payload("extracted")' = Payload("extracted"), Abandoned => Payload("previous")' = Payload("previous"),
         Abandoned => Abandoned'
  PROVE  OldIsHeld'
BY DEF OldIsHeld

LEMMA HeldUnsettled ==
  ASSUME OldIsHeld, Unsettled, Unsettled', good' = good, leaked' = leaked, interrupted' = interrupted,
         FirstHeld => FirstHeld'
  PROVE  OldIsHeld'
BY DEF OldIsHeld

OldStays == OldIsInPlace' /\ OldIsHeld'

LEMMA OldStep ==
  ASSUME TypeOK, RenamesInOrder, CopyIsCleared, RecoveryIsLast, NewIsStaged, OldIsInPlace, OldIsHeld,
         [Next]_vars
  PROVE  OldStays
PROOF
  <1> USE DEF Unsettled, Abandoned, Publishing
  <1>1. flags.recovery_needed => pc \in {"failing", "report", "exit", "idle"}
    BY DEF RecoveryIsLast
  <1>2. CASE Start
    <2>1. /\ OthersSame("payload") /\ pc = "idle" /\ pc' = "begin"
          /\ UNCHANGED <<leaked, good, stranded, interrupted>>
      BY <1>2, StartShape DEF Start
    <2>2. fs'["extracted"] = fs["extracted"] /\ fs'["copy"] = fs["copy"]
      BY <2>1, PlacesNamed DEF OthersSame
    <2>3. Payload("extracted")' = Payload("extracted") /\ Payload("copy")' = Payload("copy")
      BY <2>2 DEF Payload
    <2>4. QED BY <2>1, <2>3, InPlaceSettled, HeldSettled DEF OldStays
  <1>3. ASSUME NEW at \in {"begin", "prepared", "complete"},
               NEW code \in {"attempt.started", "payload.prepared", "publication.started", "attempt.published"},
               NEW next \in {"build", "secondary", "exit"}, Emit(at, code, next)
        PROVE  OldStays
    <2>1. /\ SameProducts /\ pc = at /\ pc' \in {next, "failing"}
          /\ UNCHANGED <<leaked, good, stranded, interrupted>>
          /\ flags'.recovery_needed = flags.recovery_needed
      BY <1>3, EmitShape
    <2>2. QED BY <1>1, <2>1, SamePayloads, InPlaceSettled, HeldSettled DEF OldStays
  <1>4. CASE \/ Emit("begin", "attempt.started", "build") \/ Emit("prepared", "payload.prepared", "secondary")
             \/ Emit("complete", "attempt.published", "exit")
    BY <1>3, <1>4
  <1>5. CASE Emit("announce", "publication.started", "displace")
    <2>1. /\ SameProducts /\ pc = "announce" /\ pc' \in {"displace", "failing"}
          /\ UNCHANGED <<leaked, good, stranded, interrupted, moved, undo>>
          /\ flags'.recovery_needed = flags.recovery_needed
      BY <1>5, EmitShape DEF publishing
    <2>2. CASE pc' = "failing"
      BY <1>1, <2>1, <2>2, SamePayloads, InPlaceSettled, HeldSettled DEF OldStays
    <2>3. CASE pc' = "displace"
      <3>1. moved = NoMove /\ undo.committed = <<>> /\ undo.displaced = <<>>
        BY <2>1 DEF RenamesInOrder, Undone
      <3>2. ~FirstDisplaced /\ ~SecondDisplaced /\ ~FirstCommitted /\ ~SecondCommitted
        BY <3>1, NothingMoved
      <3>3. /\ Payload("extracted") = good => FirstHeld /\ FirstHeld'
            /\ Payload("copy") = good => SecondHeld /\ SecondHeld'
        BY <2>1, <3>2, HeldShape, HeldSame
      <3>4. ~stranded => Payload("extracted") = good /\ (Secondary => Payload("copy") = good)
        BY <2>1, OutputsShape DEF OldIsInPlace
      <3>5. (~Secondary => SecondHeld)'
        BY HeldNext
      <3>6. OldIsInPlace'
        BY <2>1, <2>3, <3>3, <3>4, <3>5 DEF OldIsInPlace
      <3>7. OldIsHeld'
        BY <2>1, <2>3, <3>3 DEF OldIsHeld
      <3>8. QED BY <3>6, <3>7 DEF OldStays
    <2>4. QED BY <2>1, <2>2, <2>3
  <1>6. ASSUME OthersSame("payload") \/ OthersSame("output"), UNCHANGED <<leaked, good, stranded, interrupted>>,
               pc \in {"build", "secondary"}, pc' \in {"prepared", "failing", "announce"},
               flags'.recovery_needed = flags.recovery_needed
        PROVE  OldStays
    <2>1. fs'["extracted"] = fs["extracted"] /\ fs'["copy"] = fs["copy"]
      BY <1>6, PlacesNamed DEF OthersSame
    <2>2. Payload("extracted")' = Payload("extracted") /\ Payload("copy")' = Payload("copy")
      BY <2>1 DEF Payload
    <2>3. QED BY <1>1, <1>6, <2>2, InPlaceSettled, HeldSettled DEF OldStays
  <1>7. ASSUME NEW collides \in BOOLEAN, Build(collides)
        PROVE  OldStays
    BY <1>6, <1>7, BuildShape DEF Build
  <1>8. ASSUME NEW staged \in {0, attempt}, BuildFails(staged)
        PROVE  OldStays
    BY <1>6, <1>8, BuildFailsShape DEF BuildFails
  <1>9. CASE WriteSecondary
    BY <1>6, <1>9, WriteSecondaryShape DEF WriteSecondary
  <1>10. CASE Reject
    <2>1. SameProducts
      BY <1>10, SameFiles DEF Reject
    <2>2. QED BY <1>1, <1>10, <2>1, SamePayloads, InPlaceSettled, HeldSettled DEF OldStays, Reject
  <1>11. CASE Published
    <2>1. SameProducts /\ flags'.recovery_needed = flags.recovery_needed
      BY <1>11, SameFiles DEF Published, TypeOK, Flags
    <2>2. QED BY <1>1, <1>11, <2>1, SamePayloads, InPlaceSettled, HeldSettled DEF OldStays, Published
  <1>12. CASE Rename
    <2>1. pc \in {"displace", "carry", "commit"} /\ UNCHANGED <<pc, leaked, good, stranded, interrupted>>
      BY <1>12 DEF Rename, Steps
    <2>2. QED BY <1>12, <2>1, HeldByRename, InPlaceUnsettled, HeldUnsettled DEF OldStays
  <1>13. CASE Record /\ ~RecordsLast
    <2>1. /\ pc \in {"displace", "carry", "commit"} /\ pc' \in {"displace", "carry", "commit"}
          /\ UNCHANGED <<leaked, good, stranded, interrupted>>
      BY <1>13, RecordSteps DEF RecordsFirstOut, RecordsSecondOut, RecordsFile, RecordsFirstIn
    <2>2. QED BY <1>13, <2>1, HeldByRecord, InPlaceUnsettled, HeldUnsettled DEF OldStays
  <1>14. CASE Record /\ RecordsLast
    <2>1. /\ pc = "commit" /\ pc' = "returned" /\ good' = attempt /\ stranded' = FALSE
          /\ IF Secondary THEN moved = SecondIn /\ undo.committed = <<FirstIn>> ELSE moved = FirstIn
          /\ UNCHANGED <<fs, leaked, attempt, flags, interrupted>>
      BY <1>14, RecordSteps DEF RecordsLast
    <2>2. FirstCommitted /\ (Secondary => SecondCommitted)
      BY <2>1, StacksDiffer DEF FirstCommitted, SecondCommitted
    <2>3. HoldsNew("extracted") /\ (Secondary => HoldsNew("copy"))
      BY <2>1, <2>2 DEF NewIsStaged
    <2>4. Payload("extracted")' = good' /\ (Secondary => Payload("copy")' = good')
      BY <2>1, <2>3 DEF HoldsNew, Payload
    <2>5. QED BY <2>1, <2>4, OutputsShape DEF OldStays, OldIsInPlace, OldIsHeld
  <1>15. CASE Skip \/ PublishFails
    <2>1. /\ pc \in {"displace", "carry", "commit"} /\ pc' \in {"commit", "rollback"}
          /\ UNCHANGED <<fs, moved, undo, leaked, good, stranded, interrupted>>
      BY <1>15 DEF Skip, PublishFails, Steps, publishing
    <2>2. QED BY <2>1, SameFiles, HeldSame, InPlaceUnsettled, HeldUnsettled DEF OldStays
  <1>16. CASE Interrupt
    BY <1>16, InPlaceStranded DEF Interrupt, OldStays, OldIsHeld
  <1>17. CASE RollBack
    <2>1. pc = "rollback" /\ UNCHANGED <<pc, leaked, good, stranded, interrupted>>
      BY <1>17, RollBackSteps
    <2>2. QED BY <1>17, <2>1, HeldByRollBack, InPlaceUnsettled, HeldUnsettled DEF OldStays
  <1>18. CASE RolledBack
    <2>1. /\ pc = "rollback" /\ pc' = "failing" /\ undo[Undo] = <<>>
          /\ UNCHANGED <<fs, flags, leaked, good, stranded, interrupted>>
      BY <1>18 DEF RolledBack
    <2>2. undo.committed = <<>> /\ undo.displaced = <<>>
      BY <2>1 DEF Undo
    <2>3. ~FirstDisplaced /\ ~SecondDisplaced /\ ~FirstCommitted /\ ~SecondCommitted
      BY <2>1, <2>2, NothingMoved DEF RenamesInOrder
    <2>4. /\ FirstHeld => Payload("extracted")' = good'
          /\ SecondHeld /\ Secondary => Payload("copy")' = good'
      BY <2>1, <2>3, HeldShape DEF Payload
    <2>5. OldIsInPlace'
      BY <1>1, <2>1, <2>4, OutputsShape DEF OldIsInPlace
    <2>6. OldIsHeld'
      BY <2>1, <2>4 DEF OldIsHeld
    <2>7. QED BY <2>5, <2>6 DEF OldStays
  <1>19. CASE RollBackFails
    <2>1. /\ pc = "rollback" /\ pc' = "failing" /\ stranded' = TRUE
          /\ UNCHANGED <<fs, leaked, good, interrupted>>
      BY <1>19 DEF RollBackFails
    <2>2. flags'.recovery_needed
      BY <1>19 DEF RollBackFails, TypeOK, Flags
    <2>3. FirstHeld => \/ good' = 0 \/ Payload("extracted")' = good' \/ Payload("previous")' = good'
      BY <2>1, HeldShape DEF Payload
    <2>4. QED BY <2>1, <2>2, <2>3, InPlaceStranded DEF OldStays, OldIsHeld
  <1>20. CASE Diagnose
    <2>1. /\ pc = "failing" /\ pc' = "report" /\ UNCHANGED <<leaked, good, stranded, interrupted>>
          /\ flags'.recovery_needed = flags.recovery_needed
      BY <1>20, DiagnoseShape DEF Diagnose
    <2>2. /\ Payload("extracted")' = Payload("extracted") /\ Payload("previous")' = Payload("previous")
          /\ Payload("copy")' = Payload("copy")
      BY <1>20, DiagnoseShape, PlacesNamed DEF Products
    <2>3. QED BY <2>1, <2>2, InPlaceSettled, HeldSettled DEF OldStays
  <1>21. CASE Report
    <2>1. /\ pc = "report" /\ pc' = "exit" /\ UNCHANGED <<flags, leaked, good, stranded, interrupted>>
          /\ SameProducts
      BY <1>21, ReportShape DEF Report
    <2>2. QED BY <2>1, SamePayloads, InPlaceSettled, HeldSettled DEF OldStays
  <1>22. ASSUME fs' = Emptied
         PROVE  /\ Payload("extracted")' = Payload("extracted") /\ Payload("copy")' = Payload("copy")
                /\ fs["previous"] # Missing => fs["previous"] \in Held
    <2>1. /\ \A p \in Places : fs'[p] = IF p \in Workspaces THEN Missing ELSE fs[p]
          /\ \A p \in Workspaces : fs[p] # Missing => fs[p] \in Held
      BY <1>22, EmptiedShape DEF TypeOK, FilesOK
    <2>2. /\ "extracted" \notin Workspaces /\ "copy" \notin Workspaces /\ "previous" \in Workspaces
          /\ "extracted" \in Places /\ "copy" \in Places
      BY DEF Workspaces, Places
    <2>3. fs'["extracted"] = fs["extracted"] /\ fs'["copy"] = fs["copy"]
      BY <2>1, <2>2
    <2>4. QED BY <2>1, <2>2, <2>3 DEF Payload
  <1>23. Payload("previous") = good /\ good # 0 =>
           fs["previous"] # Missing /\ fs["previous"].payload = good
    BY DEF Payload
  <1>24. CASE Exit
    <2>1. /\ pc = "exit" /\ pc' = "idle" /\ fs' = Emptied
          /\ leaked' = IF flags.recovery_needed THEN leaked \cup Held ELSE leaked
          /\ UNCHANGED <<flags, good, stranded, interrupted>>
      BY <1>24 DEF Exit
    <2>2. OldIsInPlace'
      BY <1>22, <2>1, InPlaceSettled
    <2>3. OldIsHeld'
      BY <1>22, <1>23, <2>1 DEF OldIsHeld
    <2>4. QED BY <2>2, <2>3 DEF OldStays
  <1>25. CASE Crash
    <2>1. /\ pc' = "idle" /\ fs' = Emptied /\ leaked' = leaked \cup Held /\ stranded' = TRUE
          /\ UNCHANGED <<flags, good, interrupted>>
      BY <1>25 DEF Crash
    <2>2. OldIsHeld'
      <3>1. FirstHeld => \/ good = 0 \/ Payload("extracted") = good \/ Payload("previous") = good
        BY HeldShape
      <3>2. QED BY <1>22, <1>23, <2>1, <3>1 DEF OldIsHeld
    <2>3. QED BY <2>1, <2>2, InPlaceStranded DEF OldStays
  <1>26. CASE UNCHANGED vars
    BY <1>26 DEF vars, OldStays, OldIsInPlace, OldIsHeld, FirstHeld, SecondHeld, HoldsOld, Payload,
                 FirstDisplaced, SecondDisplaced, FirstCommitted, SecondCommitted
  <1> HIDE DEF Unsettled, Abandoned, Publishing
  <1>27. QED BY <1>2, <1>4, <1>5, <1>7, <1>8, <1>9, <1>10, <1>11, <1>12, <1>13, <1>14, <1>15, <1>16,
                <1>17, <1>18, <1>19, <1>20, <1>21, <1>24, <1>25, <1>26 DEF Next

(* Nothing has been displaced before the first call. *)
LEMMA InitPlaces ==
  ASSUME Init
  PROVE  /\ \A p \in Workspaces : fs[p] = Missing
         /\ \A p \in Outputs : Payload(p) = good
         /\ WholeAt("extracted")
PROOF
  <1>1. good = attempt
    BY DEF Init
  <1>2. \A p \in Outputs : p = "extracted" \/ (Secondary /\ p = "copy")
    BY OutputsShape
  <1>3. CASE fs = [p \in Places |-> Missing] /\ attempt = 0
    BY <1>1, <1>2, <1>3, PlacesNamed DEF Payload, WholeAt, Workspaces
  <1>4. CASE fs = Earlier /\ attempt = 1
    <2>1. 1 \in Versions
      BY <1>4, InitType DEF TypeOK, Versions
    <2>2. /\ Directory(1, 1) # Missing /\ Directory(1, 1).payload = 1
          /\ Legacy # Missing /\ Legacy.payload = 1 /\ Legacy.manifest = 1
      BY <2>1, NewDirectory, DirectoryShape, LegacyShape
    <2>3. /\ fs["extracted"] = Legacy /\ (Secondary => fs["copy"] = Directory(1, 1))
          /\ \A p \in Workspaces : fs[p] = Missing
      BY <1>4, PlacesNamed DEF Earlier, Workspaces, Legacy
    <2>4. QED BY <1>1, <1>2, <1>4, <2>2, <2>3 DEF Payload, WholeAt
  <1>5. QED BY <1>3, <1>4 DEF Init

LEMMA InitPromise == Init => PromiseIsKept
PROOF
  <1> SUFFICES ASSUME Init
               PROVE  PromiseIsKept
    OBVIOUS
  <1>1. pc = "idle" /\ moved = NoMove /\ stranded = FALSE /\ flags = Idle
    BY DEF Init
  <1>2. RenamesInOrder /\ CopyIsCleared /\ RecoveryIsLast /\ NewIsStaged
    BY <1>1 DEF RenamesInOrder, CopyIsCleared, RecoveryIsLast, NewIsStaged, Publishing, Idle
  <1>3. OldIsInPlace /\ OldIsHeld
    BY <1>1, InitPlaces, OutputsShape DEF OldIsInPlace, OldIsHeld, Unsettled, Abandoned, Publishing
  <1>4. fs["payload"] = Missing /\ fs["previous"] = Missing
    BY InitPlaces DEF Workspaces
  <1>5. PlacesAreWhole
    BY <1>1, <1>4, InitPlaces DEF PlacesAreWhole, WholeAt, Payload
  <1>6. QED BY <1>2, <1>3, <1>5 DEF PromiseIsKept

(***************************************************************************)
(* The invariant, and what it gives.                                       *)
(***************************************************************************)
Inv == TypeOK /\ PromiseIsKept

LEMMA InvHolds == Spec => []Inv
PROOF
  <1>1. Init => Inv
    BY InitType, InitPromise DEF Inv
  <1>2. Inv /\ [Next]_vars => Inv'
    BY TypeStep, OrderStep, CopyStep, RecoveryStep, StagedStep, OldStep, WholeStep
       DEF Inv, PromiseIsKept, OldStays
  <1>3. QED BY <1>1, <1>2, PTL DEF Spec

(* The state of an attempt has its type: the locals of the call, the lists *)
(* publish() keeps for its rollback and the directories on disk.           *)
THEOREM TypeStaysOK == Spec => []TypeOK
PROOF
  <1>1. Inv => TypeOK
    BY DEF Inv
  <1>2. QED BY <1>1, InvHolds, PTL

(* "The previous complete directory is restored if any publication         *)
(* operation fails": however many attempts are made and wherever each      *)
(* fails or dies, the last good payload is at its destination, or in a     *)
(* workspace left for recovery.                                            *)
THEOREM GoodStaysSafe == Spec => []GoodSurvives
PROOF
  <1>1. Inv => GoodSurvives
    <2> SUFFICES ASSUME TypeOK, OldIsHeld, ~interrupted, good # 0
                 PROVE  \E d \in Everything : d.payload = good
      BY DEF Inv, PromiseIsKept, GoodSurvives, GoodAlwaysSurvives
    <2>1. ASSUME NEW p \in Places, Payload(p) = good
          PROVE  \E d \in Everything : d.payload = good
      BY <2>1 DEF Payload, Everything
    <2>2. \/ \E d \in leaked : d.payload = good
          \/ Payload("extracted") = good \/ Payload("previous") = good
      BY HeldShape DEF OldIsHeld
    <2>3. QED BY <2>1, <2>2, PlacesNamed DEF Everything
  <1>2. QED BY <1>1, InvHolds, PTL

(* A failed rerun never replaces the last good manifest: what readers find *)
(* in the output directory is one attempt's payload and its own manifest.  *)
THEOREM PackagesStayWhole == Spec => []WholePackages
PROOF
  <1>1. Inv => WholePackages
    BY DEF Inv, PromiseIsKept, PlacesAreWhole, WholeAt, WholePackages
  <1>2. QED BY <1>1, InvHolds, PTL

(***************************************************************************)
(* All or nothing: each step of the attempt is a step of Delivery.         *)
(***************************************************************************)
Shown == [o \in Outputs |-> IF pc = "idle" /\ ~stranded THEN Payload(o) ELSE good]

Calling == pc # "idle"

LEMMA DeliveryVars ==
  /\ Promise!vars = <<Shown, attempt, Calling, ~stranded>>
  /\ Promise!vars' = <<Shown', attempt', Calling', ~stranded'>>
BY DEF Promise!vars, Shown, Calling

(* What readers see between calls is the last good payload, everywhere.    *)
LEMMA ShownIsGood ==
  /\ OldIsInPlace => Shown = [o \in Outputs |-> good]
  /\ OldIsInPlace' => Shown' = [o \in Outputs |-> good']
BY DEF OldIsInPlace, Unsettled, Publishing, Shown, Outputs

LEMMA DeliveryStep ==
  ASSUME Inv, Inv', [Next]_vars
  PROVE  [Promise!Next]_(Promise!vars)
PROOF
  <1>1. Shown = [o \in Outputs |-> good] /\ Shown' = [o \in Outputs |-> good']
    BY ShownIsGood DEF Inv, PromiseIsKept
  <1>2. TypeOK /\ RenamesInOrder
    BY DEF Inv, PromiseIsKept
  <1>3. ASSUME UNCHANGED <<good, attempt, stranded>>, Calling' = Calling
        PROVE  UNCHANGED Promise!vars
    BY <1>1, <1>3, DeliveryVars
  <1>4. CASE Start
    <2>1. ~Calling /\ Calling' /\ attempt' = attempt + 1 /\ UNCHANGED <<good, stranded>>
      BY <1>4 DEF Start, Calling
    <2>2. Promise!Begin
      BY <1>1, <2>1 DEF Promise!Begin, Shown, Calling
    <2>3. QED BY <2>2 DEF Promise!Next
  <1>5. CASE Record
    <2>1. /\ UNCHANGED <<attempt, stranded, good>> \/ (good' = attempt /\ attempt' = attempt /\ stranded' = FALSE)
          /\ Calling /\ Calling'
      BY <1>2, <1>5, RecordSteps
         DEF RecordsFirstOut, RecordsSecondOut, RecordsFile, RecordsFirstIn, RecordsLast, Calling
    <2>2. CASE UNCHANGED <<attempt, stranded, good>>
      BY <1>3, <2>1, <2>2
    <2>3. CASE good' = attempt /\ attempt' = attempt /\ stranded' = FALSE
      <3>1. Shown' = [o \in Outputs |-> attempt]
        BY <1>1, <2>3
      <3>2. Promise!Deliver
        BY <2>1, <2>3, <3>1 DEF Promise!Deliver, Shown, Calling
      <3>3. QED BY <3>2 DEF Promise!Next
    <2>4. QED BY <2>1, <2>2, <2>3
  <1>6. CASE Exit
    <2>1. Calling /\ ~Calling' /\ UNCHANGED <<attempt, good, stranded>>
      BY <1>6 DEF Exit, Calling
    <2>2. Promise!End
      BY <1>1, <2>1 DEF Promise!End, Shown, Calling
    <2>3. QED BY <2>2 DEF Promise!Next
  <1>7. CASE Crash \/ Interrupt \/ RollBackFails
    <2>1. Calling /\ Calling' \in BOOLEAN /\ stranded' = TRUE /\ UNCHANGED <<attempt, good>>
      BY <1>7 DEF Crash, Interrupt, RollBackFails, Calling
    <2>2. Promise!Strand
      BY <1>1, <2>1 DEF Promise!Strand, Shown, Calling
    <2>3. QED BY <2>2 DEF Promise!Next
  <1>8. ASSUME NEW at \in {"begin", "prepared", "announce", "complete"}, NEW code,
               NEW next \in {"build", "secondary", "displace", "exit"}, Emit(at, code, next)
        PROVE  UNCHANGED Promise!vars
    <2>1. UNCHANGED <<good, attempt, stranded>> /\ pc # "idle" /\ pc' # "idle"
      BY <1>8 DEF Emit
    <2>2. QED BY <1>3, <2>1 DEF Calling
  <1>9. CASE \/ Emit("begin", "attempt.started", "build") \/ Emit("prepared", "payload.prepared", "secondary")
             \/ Emit("announce", "publication.started", "displace")
             \/ Emit("complete", "attempt.published", "exit")
    BY <1>8, <1>9
  <1>10. CASE \/ \E collides \in BOOLEAN : Build(collides)
              \/ \E staged \in {0, attempt} : BuildFails(staged)
              \/ Reject \/ WriteSecondary
    <2>1. UNCHANGED <<good, attempt, stranded>> /\ pc # "idle" /\ pc' # "idle"
      BY <1>10 DEF Build, BuildFails, Reject, WriteSecondary
    <2>2. QED BY <1>3, <2>1 DEF Calling
  <1>11. CASE Rename \/ PublishFails
    <2>1. pc # "idle"
      BY <1>11 DEF Rename, PublishFails, Steps
    <2>2. UNCHANGED <<good, attempt, stranded>> /\ pc' # "idle"
      BY <1>11, <2>1 DEF Rename, PublishFails
    <2>3. QED BY <1>3, <2>1, <2>2 DEF Calling
  <1>12. CASE Skip \/ Published \/ RolledBack \/ Diagnose \/ Report
    <2>1. UNCHANGED <<good, attempt, stranded>> /\ pc # "idle" /\ pc' # "idle"
      BY <1>12 DEF Skip, Published, RolledBack, Diagnose, Report
    <2>2. QED BY <1>3, <2>1 DEF Calling
  <1>13. CASE RollBack
    BY <1>3, <1>13 DEF RollBack, Calling
  <1>14. CASE UNCHANGED vars
    BY <1>3, <1>14 DEF vars, Calling
  <1>15. QED BY <1>4, <1>5, <1>6, <1>7, <1>9, <1>10, <1>11, <1>12, <1>13, <1>14 DEF Next

(* preprocess_paper delivers a call's own payload to every output at once, *)
(* or leaves every output as it was; only a crash, an interrupt or a       *)
(* failed rollback suspends that, until the next delivery.                 *)
THEOREM DeliversAll == Spec => Delivers
PROOF
  <1>1. Init => Promise!Init
    <2> SUFFICES ASSUME Init
                 PROVE  Promise!Init
      OBVIOUS
    <2>1. attempt \in Nat /\ good = attempt /\ pc = "idle" /\ stranded = FALSE
      BY InitType, PublicationAssumption DEF Init, TypeOK
    <2>2. [o \in Outputs |-> IF pc = "idle" /\ ~stranded THEN Payload(o) ELSE good]
            = [o \in Outputs |-> attempt]
      BY <2>1, InitPlaces
    <2>3. QED BY <2>1, <2>2 DEF Promise!Init
  <1>2. Inv /\ Inv' /\ [Next]_vars => [Promise!Next]_(Promise!vars)
    BY DeliveryStep
  <1>3. QED BY <1>1, <1>2, InvHolds, PTL DEF Spec, Delivers, Promise!Spec

(***************************************************************************)
(* The event journal.  Its events are read at the end of an attempt from    *)
(* wherever the renames left it, so the invariant says at each moment where *)
(* the live journal is, that all events are in it or were left behind, and  *)
(* what the attempt can have said by then.                                 *)
(***************************************************************************)
Journal(place) == IF fs[place] = Missing THEN <<>> ELSE fs[place].kept[JOURNAL]

Preparing == pc \in {"begin", "build", "prepared", "secondary", "announce"}

(* What the current attempt may have said by now. *)
Said ==
  CASE pc = "begin" -> {}
    [] pc \in {"build", "prepared"} -> {"attempt.started"}
    [] pc \in {"secondary", "announce"} -> {"attempt.started", "payload.prepared"}
    [] pc \in {"exit", "idle"} -> {"attempt.started", "payload.prepared", "publication.started",
                                   "attempt.published", "attempt.failed"}
    [] OTHER -> {"attempt.started", "payload.prepared", "publication.started"}

SaidSoFar ==
  \A a \in DOMAIN flushed :
    /\ flushed[a].code \notin {"foreign", "legacy"} /\ flushed[a].attempt <= attempt
    /\ flushed[a].attempt = attempt => flushed[a].code \in Said

(* A journal holds what the paper or an earlier release put there, and     *)
(* events in the order of writing, each at most once.                      *)
Ordered(journal, events) ==
  /\ \A i \in DOMAIN journal : journal[i].code \in {"foreign", "legacy"} \/ journal[i] \in ToSet(events)
  /\ \A i, j \in DOMAIN journal, a, b \in DOMAIN events :
       i < j /\ journal[i] = events[a] /\ journal[j] = events[b] => a < b
InOrder(journal) == Ordered(journal, flushed)

JournalsInOrder ==
  /\ \A p \in Places : InOrder(Journal(p))
  /\ \A d \in leaked : InOrder(d.kept[JOURNAL])

(* Where the live journal is: its recorded path, but for the rename that    *)
(* has happened and is not recorded yet.                                   *)
Carrying == Move("previous", "payload", JOURNAL)
Carried == moved = Carrying \/ Carrying \in ToSet(undo.carried)
Home == Followed(moved)[JOURNAL]

HomeIsKnown ==
  /\ Unsettled => Home = IF FirstCommitted THEN "extracted" ELSE IF Carried THEN "payload"
                           ELSE IF FirstDisplaced THEN "previous" ELSE "extracted"
  /\ ~Unsettled /\ pc # "idle" =>
       IF Abandoned THEN paths[JOURNAL] \in {"extracted", "previous", "payload"}
         ELSE paths[JOURNAL] = "extracted"

(* The journal leaves the displaced directory once, before the new one is  *)
(* committed, and comes back before the old one does.                      *)
CarriedOnce ==
  Unsettled =>
    /\ pc = "commit" \/ FirstCommitted => Carried
    /\ Carried => FirstDisplaced
    /\ moved = Carrying => Carrying \notin ToSet(undo.carried)
    /\ \A i, j \in DOMAIN undo.carried : undo.carried[i] = Carrying /\ undo.carried[j] = Carrying => i = j
    /\ pc = "carry" /\ Carried => Journal("previous") = <<>>

(* Each event is in the live journal or in one that was left behind.       *)
IsLeaked(e) == \E d \in leaked : e \in ToSet(d.kept[JOURNAL])
Recorded(places) ==
  \A a \in DOMAIN flushed : IsLeaked(flushed[a]) \/ \E p \in places : flushed[a] \in ToSet(Journal(p))

Live ==
  IF pc = "idle" THEN {"extracted"}
    ELSE IF Abandoned THEN {"extracted", "previous", "payload"} ELSE {Home}

JournalIsLive ==
  /\ Recorded(Live)
  /\ (Preparing /\ pc # "begin") \/ Unsettled => Journal(Home) # <<>>

(* The last event tells of the last good payload.                          *)
LastIsTrue ==
  /\ flushed # <<>> /\ ~stranded =>
       /\ Last(flushed).code = "attempt.published" => good = Last(flushed).attempt
       /\ Last(flushed).preserved => good # Last(flushed).attempt
  /\ Unsettled \/ pc \in {"returned", "complete"} =>
       flushed # <<>> /\ Last(flushed) = Event(attempt, "publication.started")
  /\ Preparing \/ Unsettled => good # attempt
  /\ pc \in {"returned", "complete"} => good = attempt
  /\ pc = "complete" => flags.published
  /\ pc \in {"failing", "report"} /\ ~flags.published /\ ~stranded => good # attempt

HistoryStays ==
  /\ SaidSoFar /\ JournalsInOrder /\ LastIsTrue
  /\ interrupted \/ (HomeIsKnown /\ CarriedOnce /\ JournalIsLive)

(***************************************************************************)
(* What the steps do to the journals.                                      *)
(***************************************************************************)
JournalTravels(from, to) ==
  /\ Journal(to)' = Journal(from) /\ Journal(from)' = <<>>
  /\ \A p \in Places : p \notin {from, to} => Journal(p)' = Journal(p)
JournalsStay == \A p \in Places : Journal(p)' = Journal(p)
JournalGrows(place, e) ==
  Journal(place)' = Append(Journal(place), e) /\ \A p \in Places : p # place => Journal(p)' = Journal(p)
JournalReset(place, journal) ==
  Journal(place)' = journal /\ \A p \in Places : p # place => Journal(p)' = Journal(p)

LEMMA JournalShape == ASSUME FilesOK PROVE \A p \in Places : Journal(p) \in Seq(Events)
PROOF
  <1>1. <<>> \in Seq(Events)
    OBVIOUS
  <1>2. QED BY <1>1, DirectoryShape, JournalIsRetained DEF FilesOK, Journal

LEMMA JournalMoved ==
  ASSUME NEW from \in Places, NEW to \in Places, from # to, DirectoryMoves(from, to)
  PROVE  JournalTravels(from, to)
BY DEF DirectoryMoves, JournalTravels, Journal

LEMMA JournalLogged ==
  ASSUME FilesOK, NEW place \in Places, NEW e \in Events, fs' = Logged(place, e)
  PROVE  JournalGrows(place, e)
PROOF
  <1> DEFINE home == IF fs[place] = Missing THEN Directory(0, 0) ELSE fs[place]
             new == [home EXCEPT !.kept[JOURNAL] = Append(home.kept[JOURNAL], e)]
  <1>1. 0 \in Versions
    BY PublicationAssumption DEF Versions
  <1>2. home \in Directories
    BY <1>1, NewDirectory DEF FilesOK
  <1>3. home.kept[JOURNAL] = Journal(place)
    BY JournalIsRetained DEF Journal, Directory
  <1>4. fs' = [fs EXCEPT ![place] = new]
    BY DEF Logged
  <1> HIDE DEF home
  <1>5. Append(home.kept[JOURNAL], e) \in Seq(Events)
    BY <1>2, JournalIsRetained, DirectoryShape
  <1>6. new \in Directories /\ new # Missing
    BY <1>2, <1>5, JournalIsRetained, KeptChanges, DirectoryShape
  <1>7. new.kept[JOURNAL] = Append(Journal(place), e)
    BY <1>2, <1>3, JournalIsRetained DEF Directories
  <1> HIDE DEF new
  <1>8. fs'[place] = new /\ \A p \in Places : p # place => fs'[p] = fs[p]
    BY <1>4 DEF FilesOK
  <1>9. QED BY <1>6, <1>7, <1>8 DEF Journal, JournalGrows

LEMMA JournalFileMoved ==
  ASSUME FilesOK, NEW from \in Places, NEW to \in Places, from # to, NEW file \in Retained,
         Renamable(Move(from, to, file)), fs' = Renamed(Move(from, to, file))
  PROVE  IF file = JOURNAL THEN JournalTravels(from, to) ELSE JournalsStay
PROOF
  <1> DEFINE m == Move(from, to, file)
             source == [fs[from] EXCEPT !.kept[file] = <<>>]
             target == [fs[to] EXCEPT !.kept[file] = fs[from].kept[file]]
  <1>1. m.from = from /\ m.to = to /\ m.file = file
    BY DEF Move
  <1>2. file # ""
    BY JournalIsRetained DEF JOURNAL
  <1>3. fs[from] # Missing /\ fs[to] # Missing
    BY <1>1, <1>2 DEF Renamable, Whole
  <1>4. fs[from] \in Directories /\ fs[to] \in Directories
    BY <1>3 DEF FilesOK
  <1>5. fs' = [fs EXCEPT ![m.to].kept[m.file] = fs[m.from].kept[m.file], ![m.from].kept[m.file] = <<>>]
    BY <1>1, <1>2 DEF Renamed, Whole
  <1>6. fs' = [fs EXCEPT ![to] = target, ![from] = source]
    BY <1>1, <1>5 DEF FilesOK
  <1>7. fs[from].kept[file] \in Seq(Events) /\ <<>> \in Seq(Events)
    BY <1>4, DirectoryShape
  <1>8. source \in Directories /\ target \in Directories
    BY <1>4, <1>7, KeptChanges
  <1>9. source # Missing /\ target # Missing
    BY <1>8, DirectoryShape
  <1>10. /\ source.kept[JOURNAL] = IF file = JOURNAL THEN <<>> ELSE fs[from].kept[JOURNAL]
         /\ target.kept[JOURNAL] = IF file = JOURNAL THEN fs[from].kept[JOURNAL] ELSE fs[to].kept[JOURNAL]
    BY <1>4, JournalIsRetained DEF Directories
  <1> HIDE DEF source, target
  <1>11. /\ fs'[from] = source /\ fs'[to] = target
         /\ \A p \in Places : p \notin {from, to} => fs'[p] = fs[p]
    BY <1>6 DEF FilesOK
  <1>12. QED BY <1>3, <1>9, <1>10, <1>11 DEF Journal, JournalTravels, JournalsStay

LEMMA JournalPlaced ==
  ASSUME FilesOK, NEW place \in Places, NEW d \in Directories, fs' = [fs EXCEPT ![place] = d]
  PROVE  JournalReset(place, d.kept[JOURNAL])
PROOF
  <1>1. fs'[place] = d /\ \A p \in Places : p # place => fs'[p] = fs[p]
    BY DEF FilesOK
  <1>2. d # Missing
    BY DirectoryShape
  <1>3. QED BY <1>1, <1>2 DEF Journal, JournalReset

LEMMA StartJournals == ASSUME TypeOK, Start PROVE JournalReset("payload", <<>>)
PROOF
  <1>1. fs' = [fs EXCEPT !["payload"] = Directory(0, 0)]
    BY DEF Start
  <1>2. 0 \in Versions
    BY PublicationAssumption DEF Versions
  <1>3. Directory(0, 0) \in Directories /\ Directory(0, 0) # Missing
    BY <1>2, NewDirectory, DirectoryShape
  <1>4. Directory(0, 0).kept[JOURNAL] = <<>>
    BY JournalIsRetained DEF Directory
  <1>5. FilesOK
    BY DEF TypeOK, FilesOK
  <1>6. QED BY <1>1, <1>3, <1>4, <1>5, PlacesNamed, JournalPlaced

LEMMA BuildJournals ==
  ASSUME TypeOK, NEW collides \in BOOLEAN, Build(collides)
  PROVE  JournalReset("payload", IF collides THEN <<Event(attempt, "foreign")>> ELSE <<>>)
PROOF
  <1> DEFINE foreign == IF collides THEN <<Event(attempt, "foreign")>> ELSE <<>>
             d == [Directory(attempt, attempt) EXCEPT !.kept[JOURNAL] = foreign]
  <1>1. FilesOK /\ attempt \in Versions
    BY DEF TypeOK, FilesOK, Versions
  <1>2. foreign \in Seq(Events)
    <2>1. Event(attempt, "foreign") \in Events
      BY EventShape
    <2>2. QED BY <2>1
  <1>3. fs' = [fs EXCEPT !["payload"] = d]
    BY DEF Build
  <1> HIDE DEF foreign
  <1>4. d \in Directories /\ d # Missing
    BY <1>1, <1>2, NewDirectory, KeptChanges, JournalIsRetained, DirectoryShape
  <1>5. d.kept[JOURNAL] = foreign
    BY JournalIsRetained DEF Directory
  <1> HIDE DEF d
  <1>6. JournalReset("payload", foreign)
    BY <1>1, <1>3, <1>4, <1>5, PlacesNamed, JournalPlaced
  <1>7. QED BY <1>6 DEF foreign

LEMMA BuildFailsJournals ==
  ASSUME TypeOK, NEW staged \in {0, attempt}, BuildFails(staged)
  PROVE  JournalReset("payload", <<>>)
PROOF
  <1>1. FilesOK /\ staged \in Versions /\ 0 \in Versions
    BY PublicationAssumption DEF TypeOK, FilesOK, Versions
  <1>2. Directory(0, staged) \in Directories /\ Directory(0, staged) # Missing
    BY <1>1, NewDirectory, DirectoryShape
  <1>3. Directory(0, staged).kept[JOURNAL] = <<>>
    BY JournalIsRetained DEF Directory
  <1>4. fs' = [fs EXCEPT !["payload"] = Directory(0, staged)]
    BY DEF BuildFails
  <1>5. QED BY <1>1, <1>2, <1>3, <1>4, PlacesNamed, JournalPlaced

LEMMA WriteSecondaryJournals ==
  ASSUME TypeOK, WriteSecondary
  PROVE  JournalReset("output", <<>>) \/ JournalsStay
PROOF
  <1>1. FilesOK /\ attempt \in Versions
    BY DEF TypeOK, FilesOK, Versions
  <1>2. Directory(attempt, attempt) \in Directories /\ Directory(attempt, attempt) # Missing
    BY <1>1, NewDirectory, DirectoryShape
  <1>3. Directory(attempt, attempt).kept[JOURNAL] = <<>>
    BY JournalIsRetained DEF Directory
  <1>4. CASE fs' = [fs EXCEPT !["output"] = Directory(attempt, attempt)]
    BY <1>1, <1>2, <1>3, <1>4, PlacesNamed, JournalPlaced
  <1>5. CASE fs' = [fs EXCEPT !["output"] = fs["output"]] \/ fs' = fs
    BY <1>1, <1>5, PlacesNamed DEF FilesOK, Journal, JournalsStay
  <1>6. QED BY <1>4, <1>5, PublicationAssumption DEF WriteSecondary

LEMMA PlainFacts ==
  ASSUME TypeOK
  PROVE  /\ FilesOK /\ attempt \in Versions /\ 0 \in Versions
         /\ "payload" \in Places /\ "extracted" \in Places
PROOF
  <1>1. FilesOK /\ attempt \in Versions
    BY DEF TypeOK, FilesOK, Versions
  <1>2. 0 \in Versions
    BY PublicationAssumption DEF Versions
  <1>3. "payload" \in Places /\ "extracted" \in Places
    BY PlacesNamed
  <1>4. QED BY <1>1, <1>2, <1>3

LEMMA ManifestKept ==
  ASSUME NEW d \in Directories, NEW manifest
  PROVE  [d EXCEPT !.manifest = manifest].kept = d.kept
BY DEF Directories

(* A failure manifest touches no journal. *)
LEMMA DiagnoseJournals == ASSUME TypeOK, Diagnose PROVE JournalsStay
PROOF
  <1> DEFINE failed == flags.manifest /\ ~flags.recovery_needed
             staged == IF failed THEN [fs EXCEPT !["payload"].manifest = attempt] ELSE fs
             home == IF staged["extracted"] = Missing THEN Directory(0, 0) ELSE staged["extracted"]
             source == IF staged["payload"] = Missing THEN 0 ELSE staged["payload"].manifest
             marked == [fs["payload"] EXCEPT !.manifest = attempt]
             delivered == [home EXCEPT !.manifest = source]
             cleared == [staged["payload"] EXCEPT !.manifest = 0]
             Same(files) == \A p \in Places : (IF files[p] = Missing THEN <<>> ELSE files[p].kept[JOURNAL]) = Journal(p)
  <1>1. FilesOK /\ attempt \in Versions /\ 0 \in Versions /\ "payload" \in Places /\ "extracted" \in Places
    BY PlainFacts
  <1>2. ASSUME failed => fs["payload"] # Missing, fs' = FailureManifest
        PROVE  JournalsStay
    <2>1. failed => marked \in Directories /\ marked # Missing /\ marked.kept = fs["payload"].kept
      BY <1>1, <1>2, ManifestChanges, ManifestKept, DirectoryShape DEF FilesOK
    <2>2. staged = IF failed THEN [fs EXCEPT !["payload"] = marked] ELSE fs
      BY <1>1 DEF FilesOK
    <2>3. fs' = IF flags.recovery_needed \/ flags.existed THEN staged
                ELSE IF source = 0 THEN [staged EXCEPT !["extracted"] = home]
                ELSE [staged EXCEPT !["extracted"] = delivered, !["payload"].manifest = 0]
      BY <1>2 DEF FailureManifest
    <2> HIDE DEF failed, marked
    <2>4. staged \in [Places -> Directories \cup {Missing}]
      BY <1>1, <2>1, <2>2 DEF FilesOK
    <2>5. Same(staged)
      <3> HIDE DEF staged
      <3>1. CASE failed
        <4>1. /\ staged["payload"] = marked
              /\ \A p \in Places : p # "payload" => staged[p] = fs[p]
          BY <1>1, <2>2, <3>1 DEF FilesOK
        <4>2. fs["payload"] # Missing
          BY <1>2, <3>1
        <4>3. QED BY <1>1, <2>1, <3>1, <4>1, <4>2 DEF Journal
      <3>2. CASE ~failed
        BY <2>2, <3>2 DEF Journal
      <3>3. QED BY <3>1, <3>2
    <2>6. /\ home \in Directories /\ home # Missing
          /\ home.kept[JOURNAL] = Journal("extracted")
      <3>1. Directory(0, 0) \in Directories /\ Directory(0, 0).kept[JOURNAL] = <<>>
        BY <1>1, NewDirectory, JournalIsRetained DEF Directory
      <3> HIDE DEF staged
      <3>2. home \in Directories
        BY <1>1, <2>4, <3>1
      <3>3. home.kept[JOURNAL] = Journal("extracted")
        BY <1>1, <2>5, <3>1
      <3>4. QED BY <3>2, <3>3, DirectoryShape
    <2> HIDE DEF home
    <2>7. source # 0 => /\ staged["payload"] \in Directories /\ source \in Versions
      BY <1>1, <2>4, DirectoryShape DEF Versions
    <2>8. source # 0 => /\ delivered \in Directories /\ delivered # Missing /\ delivered.kept = home.kept
                        /\ cleared \in Directories /\ cleared # Missing /\ cleared.kept = staged["payload"].kept
                        /\ staged["payload"] # Missing
      BY <1>1, <2>6, <2>7, ManifestChanges, ManifestKept, DirectoryShape
    <2> HIDE DEF source, delivered, cleared
    <2>9. CASE flags.recovery_needed \/ flags.existed
      BY <2>3, <2>5, <2>9 DEF Journal, JournalsStay
    <2>10. CASE ~(flags.recovery_needed \/ flags.existed) /\ source = 0
      <3>1. fs' = [staged EXCEPT !["extracted"] = home]
        BY <2>3, <2>10
      <3> HIDE DEF staged
      <3>2. fs'["extracted"] = home /\ \A p \in Places : p # "extracted" => fs'[p] = staged[p]
        BY <1>1, <2>4, <3>1
      <3>3. QED BY <2>5, <2>6, <3>2 DEF Journal, JournalsStay
    <2>11. CASE ~(flags.recovery_needed \/ flags.existed) /\ source # 0
      <3>1. fs' = [staged EXCEPT !["extracted"] = delivered, !["payload"].manifest = 0]
        BY <2>3, <2>11
      <3>2. fs' = [staged EXCEPT !["extracted"] = delivered, !["payload"] = cleared]
        BY <1>1, <2>4, <3>1 DEF cleared
      <3> HIDE DEF staged
      <3>3. /\ fs'["extracted"] = delivered /\ fs'["payload"] = cleared
            /\ \A p \in Places : p \notin {"extracted", "payload"} => fs'[p] = staged[p]
        BY <1>1, <2>4, <3>2
      <3>4. QED BY <1>1, <2>5, <2>6, <2>8, <2>11, <3>3 DEF Journal, JournalsStay
    <2>12. QED BY <2>9, <2>10, <2>11
  <1>3. ASSUME fs' = fs
        PROVE  JournalsStay
    BY <1>3 DEF Journal, JournalsStay
  <1>4. QED BY <1>2, <1>3 DEF Diagnose

(***************************************************************************)
(* The live journal moves with its path.                                   *)
(***************************************************************************)
HomeOf(committed, carried, displaced) ==
  IF committed THEN "extracted" ELSE IF carried THEN "payload"
    ELSE IF displaced THEN "previous" ELSE "extracted"

LEMMA CarryingDiffers ==
  /\ Carrying \in Carriage
  /\ Carrying # NoMove /\ Carrying # FirstOut /\ Carrying # SecondOut /\ Carrying # FirstIn /\ Carrying # SecondIn
  /\ Carrying # Move("previous", "payload", "preparation.log")
PROOF
  <1>1. Carrying \in Carriage
    BY JournalIsRetained DEF Carrying, Carriage
  <1>2. Carrying.file = "preparation.jsonl" /\ Move("previous", "payload", "preparation.log").file = "preparation.log"
    BY DEF Carrying, Move, JOURNAL
  <1>3. QED BY <1>1, <1>2, MovesDiffer

LEMMA HomeUnmoved == ASSUME moved = NoMove PROVE Home = paths[JOURNAL]
BY MoveShape, JournalIsRetained DEF Home, Followed

LEMMA FollowedJournal ==
  ASSUME NEW from, NEW to, NEW file
  PROVE  Followed(Move(from, to, file))[JOURNAL] =
           IF paths[JOURNAL] = from /\ file \in {JOURNAL, ""} THEN to ELSE paths[JOURNAL]
BY JournalIsRetained DEF Followed, Move, Whole

LEMMA HomeMoved ==
  ASSUME NEW from, NEW to, NEW file, moved' = Move(from, to, file), paths' = paths
  PROVE  Home' = IF paths[JOURNAL] = from /\ file \in {JOURNAL, ""} THEN to ELSE paths[JOURNAL]
BY JournalIsRetained DEF Home, Followed, Move, Whole

(* Recorded events stay recorded when the journals that hold them move. *)
LEMMA RecordedMoves ==
  ASSUME NEW S, NEW T, Recorded(S), flushed' = flushed, leaked \subseteq leaked',
         \A p \in S : \E q \in T : Journal(q)' = Journal(p)
  PROVE  Recorded(T)'
PROOF
  <1> SUFFICES ASSUME NEW a \in DOMAIN flushed, ~IsLeaked(flushed[a])
               PROVE  \E q \in T : flushed[a] \in ToSet(Journal(q)')
    BY DEF Recorded, IsLeaked
  <1>1. PICK p \in S : flushed[a] \in ToSet(Journal(p))
    BY DEF Recorded
  <1>2. PICK q \in T : Journal(q)' = Journal(p)
    OBVIOUS
  <1>3. QED BY <1>1, <1>2

LEMMA CarryStep ==
  ASSUME TypeOK, RenamesInOrder, Rename, pc = "carry"
  PROVE  /\ moved' = Carrying => JournalTravels("previous", "payload") /\ Journal("previous") # <<>>
         /\ moved' # Carrying => JournalsStay /\ moved' = Move("previous", "payload", "preparation.log")
PROOF
  <1>1. PICK m \in Steps : Renamable(m) /\ fs' = Renamed(m) /\ moved' = m
    BY DEF Rename
  <1>2. FilesOK /\ index = 1
    BY DEF TypeOK, FilesOK, RenamesInOrder
  <1>3. Target.backup = "previous" /\ Target.stage = "payload"
    BY <1>2, TargetShape DEF Target, Destination
  <1>4. PICK n \in NextCarried : m = Move("previous", "payload", RETAINED_HISTORY[n])
    BY <1>3 DEF Steps
  <1>5. /\ RETAINED_HISTORY[n] \in Retained
        /\ fs["previous"].kept[RETAINED_HISTORY[n]] # <<>>
    BY <1>3, RetainedIsNamed DEF NextCarried
  <1>6. PICK file \in Retained : file = RETAINED_HISTORY[n]
    BY <1>5
  <1>7. m = Move("previous", "payload", file) /\ fs["previous"].kept[file] # <<>>
    BY <1>4, <1>5, <1>6
  <1>8. IF file = JOURNAL THEN JournalTravels("previous", "payload") ELSE JournalsStay
    BY <1>1, <1>2, <1>7, PlacesNamed, JournalFileMoved
  <1>9. file = JOURNAL \/ file = "preparation.log"
    BY JournalIsRetained
  <1>10. fs["previous"] # Missing
    <2>1. m.from = "previous"
      BY <1>7 DEF Move
    <2>2. QED BY <1>1, <2>1 DEF Renamable
  <1>11. CASE file = JOURNAL
    BY <1>1, <1>7, <1>8, <1>10, <1>11 DEF Carrying, Journal
  <1>12. CASE file # JOURNAL
    BY <1>1, <1>7, <1>8, <1>9, <1>12, CarryingDiffers
  <1>13. QED BY <1>11, <1>12

(* The three parts of the invariant, for a step inside publish().          *)
LEMMA RenameHome ==
  ASSUME TypeOK, RenamesInOrder, Rename, HomeIsKnown, CarriedOnce, JournalIsLive
  PROVE  /\ Unsettled /\ Unsettled'
         /\ Home' = HomeOf(FirstCommitted, Carried, FirstDisplaced)'
         /\ Home \in Places /\ Home' \in Places /\ Journal(Home)' = Journal(Home)
         /\ CarriedOnce'
PROOF
  <1>1. /\ moved = NoMove /\ pc \in {"displace", "carry", "commit"}
        /\ UNCHANGED <<leaked, pc, paths, undo, flushed>>
    BY DEF Rename, Steps
  <1>2. RenamesFirstOut \/ RenamesSecondOut \/ RenamesFile \/ RenamesFirstIn \/ RenamesSecondIn
    BY RenameSteps
  <1>3. Unsettled /\ Unsettled'
    BY <1>1 DEF Unsettled, Publishing
  <1>4. Home = paths[JOURNAL] /\ Journal(Home) # <<>>
    BY <1>1, <1>3, HomeUnmoved DEF JournalIsLive
  <1>5. Home = HomeOf(FirstCommitted, Carried, FirstDisplaced)
    BY <1>3 DEF HomeIsKnown, HomeOf
  <1>6. "extracted" \in Places /\ "payload" \in Places /\ "previous" \in Places
    BY PlacesNamed
  <1>7. Home \in {"extracted", "payload", "previous"} /\ Home \in Places
    BY <1>5, <1>6 DEF HomeOf
  <1>8. Carried <=> Carrying \in ToSet(undo.carried)
    BY <1>1, CarryingDiffers DEF Carried
  <1>9. Carried' <=> moved' = Carrying \/ Carrying \in ToSet(undo.carried)
    BY <1>1 DEF Carried
  <1>10. /\ pc = "commit" \/ FirstCommitted => Carried
         /\ Carried => FirstDisplaced
         /\ \A i, j \in DOMAIN undo.carried : undo.carried[i] = Carrying /\ undo.carried[j] = Carrying => i = j
         /\ pc = "carry" /\ Carried => Journal("previous") = <<>>
    BY <1>3 DEF CarriedOnce
  <1>11. /\ FirstOut = Move("extracted", "previous", "") /\ SecondOut = Move("copy", "previous copy", "")
         /\ FirstIn = Move("payload", "extracted", "") /\ SecondIn = Move("output", "copy", "")
    BY MovesBuilt
  <1>12. ASSUME moved' # Carrying, FirstDisplaced => FirstDisplaced',
                pc = "commit" \/ FirstCommitted' => Carried',
                pc = "carry" /\ Carried => Journal("previous")' = <<>>
         PROVE  CarriedOnce'
    <2>1. Carried' <=> Carried
      BY <1>8, <1>9, <1>12
    <2>2. undo' = undo /\ pc' = pc
      BY <1>1
    <2>3. QED BY <1>10, <1>12, <2>1, <2>2 DEF CarriedOnce
  <1>13. CASE RenamesFirstOut
    <2>1. undo.carried = <<>> /\ moved' = FirstOut /\ pc = "displace"
      BY <1>13 DEF RenamesFirstOut, Undone
    <2>2. ~Carried /\ ~Carried'
      BY <1>8, <1>9, <2>1, CarryingDiffers DEF ToSet
    <2>3. ~FirstCommitted /\ ~FirstDisplaced /\ ~FirstCommitted' /\ FirstDisplaced'
      BY <1>1, <1>13, RenamePositions
    <2>4. Home = "extracted"
      BY <1>5, <2>2, <2>3 DEF HomeOf
    <2>5. Home' = "previous"
      <3>1. moved' = Move("extracted", "previous", "")
        BY <1>11, <2>1
      <3>2. QED BY <1>1, <1>4, <2>4, <3>1, HomeMoved
    <2>6. JournalTravels("extracted", "previous")
      BY <1>6, <1>13, JournalMoved DEF RenamesFirstOut
    <2>7. Journal(Home)' = Journal(Home)
      BY <2>4, <2>5, <2>6 DEF JournalTravels, Journal
    <2>8. Home' = HomeOf(FirstCommitted, Carried, FirstDisplaced)'
      BY <2>2, <2>3, <2>5 DEF HomeOf
    <2>9. CarriedOnce'
      BY <1>12, <2>1, <2>2, <2>3, CarryingDiffers
    <2>10. QED BY <1>3, <1>6, <1>7, <2>5, <2>7, <2>8, <2>9
  <1>14. CASE RenamesSecondOut
    <2>1. moved' = SecondOut /\ pc = "displace"
      BY <1>14 DEF RenamesSecondOut
    <2>2. Carried' <=> Carried
      BY <1>8, <1>9, <2>1, CarryingDiffers
    <2>3. FirstCommitted /\ FirstCommitted' /\ (FirstDisplaced' <=> FirstDisplaced)
      BY <1>1, <1>14, RenamePositions
    <2>4. Home = "extracted"
      BY <1>5, <2>3 DEF HomeOf
    <2>5. Home' = "extracted"
      BY <1>1, <1>4, <1>11, <2>1, <2>4, HomeMoved
    <2>6. JournalTravels("copy", "previous copy")
      BY <1>14, PlacesNamed, JournalMoved DEF RenamesSecondOut
    <2>7. Journal(Home)' = Journal(Home)
      BY <1>6, <2>4, <2>5, <2>6 DEF JournalTravels, Journal
    <2>8. Home' = HomeOf(FirstCommitted, Carried, FirstDisplaced)'
      BY <2>3, <2>5 DEF HomeOf
    <2>9. CarriedOnce'
      BY <1>10, <1>12, <2>1, <2>2, <2>3, CarryingDiffers
    <2>10. QED BY <1>3, <1>6, <1>7, <2>5, <2>7, <2>8, <2>9
  <1>15. CASE RenamesFile
    <2>1. pc = "carry" /\ undo.committed = <<>> /\ undo.displaced = <<FirstOut>> /\ moved' \in Carriage
      BY <1>15 DEF RenamesFile
    <2>2. ~FirstCommitted /\ FirstDisplaced
      BY <1>1, <2>1, MovesDiffer DEF FirstCommitted, FirstDisplaced
    <2>3. ~FirstCommitted' /\ FirstDisplaced'
      BY <1>1, <1>15, <2>2, RenamePositions
    <2>4. CASE moved' = Carrying
      <3>1. JournalTravels("previous", "payload") /\ Journal("previous") # <<>>
        BY <2>1, <2>4, CarryStep
      <3>2. ~Carried /\ Carried' /\ Carrying \notin ToSet(undo.carried)
        BY <1>8, <1>9, <1>10, <2>1, <2>4, <3>1
      <3>3. Home = "previous"
        BY <1>5, <2>2, <3>2 DEF HomeOf
      <3>4. Home' = "payload"
        BY <1>1, <1>4, <2>4, <3>3, HomeMoved DEF Carrying
      <3>5. Home' = HomeOf(FirstCommitted, Carried, FirstDisplaced)'
        BY <2>3, <3>2, <3>4 DEF HomeOf
      <3>6. Journal(Home)' = Journal(Home) /\ Journal("previous")' = <<>>
        BY <3>1, <3>3, <3>4 DEF JournalTravels, Journal
      <3>7. CarriedOnce'
        BY <1>1, <1>10, <2>3, <3>2, <3>6 DEF CarriedOnce
      <3>8. QED BY <1>3, <1>6, <1>7, <3>4, <3>5, <3>6, <3>7
    <2>5. CASE moved' # Carrying
      <3>1. JournalsStay /\ moved' = Move("previous", "payload", "preparation.log")
        BY <2>1, <2>5, CarryStep
      <3>2. Carried' <=> Carried
        BY <1>8, <1>9, <2>5
      <3>3. "preparation.log" \notin {JOURNAL, ""}
        BY DEF JOURNAL
      <3>4. Home' = Home
        BY <1>1, <1>4, <3>1, <3>3, HomeMoved
      <3>5. Home' = HomeOf(FirstCommitted, Carried, FirstDisplaced)'
        BY <1>5, <2>2, <2>3, <3>2, <3>4 DEF HomeOf
      <3>6. Journal(Home)' = Journal(Home) /\ Journal("previous")' = Journal("previous")
        BY <1>6, <1>7, <3>1, <3>4 DEF JournalsStay, Journal
      <3>7. CarriedOnce'
        BY <1>10, <1>12, <2>1, <2>3, <2>5, <3>6
      <3>8. QED BY <1>3, <1>7, <3>4, <3>5, <3>6, <3>7
    <2>6. QED BY <2>4, <2>5
  <1>16. CASE RenamesFirstIn
    <2>1. moved' = FirstIn /\ pc = "commit"
      BY <1>16 DEF RenamesFirstIn
    <2>2. Carried /\ Carried'
      BY <1>8, <1>9, <1>10, <2>1
    <2>3. ~FirstCommitted /\ FirstCommitted' /\ (FirstDisplaced' <=> FirstDisplaced)
      BY <1>1, <1>16, RenamePositions
    <2>4. Home = "payload"
      BY <1>5, <2>2, <2>3 DEF HomeOf
    <2>5. Home' = "extracted"
      BY <1>1, <1>4, <1>11, <2>1, <2>4, HomeMoved
    <2>6. JournalTravels("payload", "extracted")
      BY <1>6, <1>16, JournalMoved DEF RenamesFirstIn
    <2>7. Journal(Home)' = Journal(Home)
      BY <2>4, <2>5, <2>6 DEF JournalTravels, Journal
    <2>8. Home' = HomeOf(FirstCommitted, Carried, FirstDisplaced)'
      BY <2>3, <2>5 DEF HomeOf
    <2>9. CarriedOnce'
      BY <1>12, <2>1, <2>2, <2>3, CarryingDiffers
    <2>10. QED BY <1>3, <1>6, <1>7, <2>5, <2>7, <2>8, <2>9
  <1>17. CASE RenamesSecondIn
    <2>1. moved' = SecondIn /\ pc = "commit"
      BY <1>17 DEF RenamesSecondIn
    <2>2. Carried /\ Carried'
      BY <1>8, <1>9, <1>10, <2>1
    <2>3. FirstCommitted /\ FirstCommitted' /\ (FirstDisplaced' <=> FirstDisplaced)
      BY <1>1, <1>17, RenamePositions
    <2>4. Home = "extracted"
      BY <1>5, <2>3 DEF HomeOf
    <2>5. Home' = "extracted"
      BY <1>1, <1>4, <1>11, <2>1, <2>4, HomeMoved
    <2>6. JournalTravels("output", "copy")
      BY <1>17, PlacesNamed, JournalMoved DEF RenamesSecondIn
    <2>7. Journal(Home)' = Journal(Home)
      BY <1>6, <2>4, <2>5, <2>6 DEF JournalTravels, Journal
    <2>8. Home' = HomeOf(FirstCommitted, Carried, FirstDisplaced)'
      BY <2>3, <2>5 DEF HomeOf
    <2>9. CarriedOnce'
      BY <1>12, <2>1, <2>2, <2>3, CarryingDiffers
    <2>10. QED BY <1>3, <1>6, <1>7, <2>5, <2>7, <2>8, <2>9
  <1>18. QED BY <1>2, <1>13, <1>14, <1>15, <1>16, <1>17

(* The rename that is taken back, and the path that follows it.            *)
LEMMA UnwindPaths ==
  ASSUME TypeOK, RenamesInOrder, RollBack
  PROVE  /\ UnwindsFirstIn => paths' = Followed(Move("extracted", "payload", ""))
         /\ UnwindsFirstOut => paths' = Followed(Move("previous", "extracted", ""))
         /\ UnwindsSecondOut => paths' = Followed(Move("previous copy", "copy", ""))
         /\ UnwindsFile =>
              /\ Last(undo.carried) = Carrying =>
                   /\ paths' = Followed(Move("payload", "previous", JOURNAL))
                   /\ JournalTravels("payload", "previous")
              /\ Last(undo.carried) # Carrying =>
                   paths' = Followed(Move("payload", "previous", "preparation.log")) /\ JournalsStay
PROOF
  <1> DEFINE m == Reversed(Last(undo[Undo]))
  <1>1. pc = "rollback" /\ Renamable(m) /\ fs' = Renamed(m) /\ paths' = Followed(m)
    BY DEF RollBack
  <1>2. FilesOK /\ undo.carried \in Seq(Carriage)
    BY <1>1 DEF TypeOK, FilesOK, RenamesInOrder
  <1>3. <<>> # <<FirstIn>> /\ <<FirstOut>> # <<>>
    BY StacksDiffer
  <1>4. m = Move(Last(undo[Undo]).to, Last(undo[Undo]).from, Last(undo[Undo]).file)
    BY DEF Reversed
  <1> HIDE DEF m
  <1>5. ASSUME UnwindsFirstIn
        PROVE  paths' = Followed(Move("extracted", "payload", ""))
    <2>1. Undo = "committed" /\ undo.committed = <<FirstIn>>
      BY <1>3, <1>5 DEF Undo, UnwindsFirstIn
    <2>2. Last(undo[Undo]) = FirstIn
      BY <2>1, ShortLists
    <2>3. FirstIn.to = "extracted" /\ FirstIn.from = "payload" /\ FirstIn.file = ""
      BY MoveShape
    <2>4. QED BY <1>1, <1>4, <2>2, <2>3
  <1>6. ASSUME UnwindsFirstOut
        PROVE  paths' = Followed(Move("previous", "extracted", ""))
    <2>1. Undo = "displaced" /\ undo.displaced = <<FirstOut>>
      BY <1>6 DEF Undo, UnwindsFirstOut
    <2>2. Last(undo[Undo]) = FirstOut
      BY <2>1, ShortLists
    <2>3. FirstOut.to = "previous" /\ FirstOut.from = "extracted" /\ FirstOut.file = ""
      BY MoveShape
    <2>4. QED BY <1>1, <1>4, <2>2, <2>3
  <1>7. ASSUME UnwindsSecondOut
        PROVE  paths' = Followed(Move("previous copy", "copy", ""))
    <2>1. Undo = "displaced" /\ undo.displaced \in {<<SecondOut>>, <<FirstOut, SecondOut>>}
      BY <1>7 DEF Undo, UnwindsSecondOut
    <2>2. Last(undo[Undo]) = SecondOut
      BY <2>1, ShortLists
    <2>3. SecondOut.to = "previous copy" /\ SecondOut.from = "copy" /\ SecondOut.file = ""
      BY MoveShape
    <2>4. QED BY <1>1, <1>4, <2>2, <2>3
  <1>8. ASSUME UnwindsFile
        PROVE  /\ Last(undo.carried) = Carrying =>
                    /\ paths' = Followed(Move("payload", "previous", JOURNAL))
                    /\ JournalTravels("payload", "previous")
               /\ Last(undo.carried) # Carrying =>
                    paths' = Followed(Move("payload", "previous", "preparation.log")) /\ JournalsStay
    <2>1. Undo = "carried" /\ undo.carried # <<>>
      BY <1>8 DEF Undo, UnwindsFile
    <2>2. Last(undo.carried) \in Carriage
      BY <1>2, <2>1, LastOfSeq
    <2>3. PICK file \in Retained : Last(undo.carried) = Move("previous", "payload", file)
      BY <2>2 DEF Carriage
    <2>4. m = Move("payload", "previous", file)
      BY <1>4, <2>1, <2>3 DEF Move
    <2>5. IF file = JOURNAL THEN JournalTravels("payload", "previous") ELSE JournalsStay
      BY <1>1, <1>2, <2>4, PlacesNamed, JournalFileMoved
    <2>6. file = JOURNAL <=> Last(undo.carried) = Carrying
      BY <2>3 DEF Carrying, Move
    <2>7. file = JOURNAL \/ file = "preparation.log"
      BY JournalIsRetained
    <2>8. CASE file = JOURNAL
      BY <1>1, <2>4, <2>5, <2>6, <2>8
    <2>9. CASE file # JOURNAL
      BY <1>1, <2>4, <2>5, <2>6, <2>7, <2>9
    <2>10. QED BY <2>8, <2>9
  <1>9. QED BY <1>5, <1>6, <1>7, <1>8

LEMMA FrontShape ==
  ASSUME NEW S, NEW s \in Seq(S), s # <<>>
  PROVE  /\ DOMAIN Front(s) = 1..(Len(s) - 1) /\ Len(s) \in DOMAIN s /\ Last(s) = s[Len(s)]
         /\ DOMAIN s = 1..Len(s) /\ Len(s) \in Nat /\ \A i \in 1..(Len(s) - 1) : Front(s)[i] = s[i]
PROOF
  <1>1. Len(s) \in Nat \ {0} /\ DOMAIN s = 1..Len(s)
    BY EmptySeq
  <1>2. \A i \in 1..(Len(s) - 1) : s[i] \in S
    BY <1>1
  <1>3. /\ SubSeq(s, 1, Len(s) - 1) \in Seq(S) /\ Len(SubSeq(s, 1, Len(s) - 1)) = Len(s) - 1
        /\ \A i \in 1..(Len(s) - 1) : SubSeq(s, 1, Len(s) - 1)[i] = s[i]
    BY <1>1, <1>2, SubSeqProperties
  <1>4. DOMAIN SubSeq(s, 1, Len(s) - 1) = 1..(Len(s) - 1)
    BY <1>3
  <1>5. QED BY <1>1, <1>3, <1>4 DEF Front, Last

(* Taking a rename off a list in which it stands once. *)
LEMMA OnceInFront ==
  ASSUME NEW S, NEW s \in Seq(S), s # <<>>, NEW x,
         \A i, j \in DOMAIN s : s[i] = x /\ s[j] = x => i = j
  PROVE  /\ \A i, j \in DOMAIN Front(s) : Front(s)[i] = x /\ Front(s)[j] = x => i = j
         /\ Last(s) = x => x \in ToSet(s) /\ x \notin ToSet(Front(s))
         /\ Last(s) # x => (x \in ToSet(Front(s)) <=> x \in ToSet(s))
PROOF
  <1>1. PICK l \in Nat : l = Len(s) /\ DOMAIN s = 1..l /\ l \in 1..l
    BY FrontShape
  <1>2. DOMAIN Front(s) = 1..(l - 1) /\ Last(s) = s[l] /\ \A i \in 1..(l - 1) : Front(s)[i] = s[i]
    BY <1>1, FrontShape
  <1>3. \A i \in 1..(l - 1) : i \in 1..l /\ i # l
    BY <1>1
  <1>4. \A i \in 1..l : i = l \/ i \in 1..(l - 1)
    BY <1>1
  <1>5. \A y : y \in ToSet(s) <=> \E i \in 1..l : s[i] = y
    BY <1>1 DEF ToSet
  <1>6. \A y : y \in ToSet(Front(s)) <=> \E i \in 1..(l - 1) : s[i] = y
    BY <1>2 DEF ToSet
  <1>7. \A i, j \in DOMAIN Front(s) : Front(s)[i] = x /\ Front(s)[j] = x => i = j
    BY <1>1, <1>2, <1>3
  <1>8. Last(s) = x => x \in ToSet(s) /\ x \notin ToSet(Front(s))
    BY <1>1, <1>2, <1>3, <1>5, <1>6
  <1>9. Last(s) # x => (x \in ToSet(Front(s)) <=> x \in ToSet(s))
    BY <1>2, <1>3, <1>4, <1>5, <1>6
  <1>10. QED BY <1>7, <1>8, <1>9

LEMMA RollBackHome ==
  ASSUME TypeOK, RenamesInOrder, RollBack, HomeIsKnown, CarriedOnce, JournalIsLive
  PROVE  /\ Unsettled /\ Unsettled'
         /\ Home' = HomeOf(FirstCommitted, Carried, FirstDisplaced)'
         /\ Home \in Places /\ Home' \in Places /\ Journal(Home)' = Journal(Home)
         /\ CarriedOnce'
PROOF
  <1>1. pc = "rollback" /\ pc' = "rollback" /\ moved = NoMove /\ moved' = NoMove
    BY RollBackSteps DEF RenamesInOrder, Publishing
  <1>2. UnwindsFirstIn \/ UnwindsFile \/ UnwindsFirstOut \/ UnwindsSecondOut
    BY RollBackSteps
  <1>3. Unsettled /\ Unsettled'
    BY <1>1 DEF Unsettled
  <1>4. Home = paths[JOURNAL] /\ Home' = paths'[JOURNAL]
    <2>1. Home = paths[JOURNAL]
      BY <1>1, HomeUnmoved
    <2>2. Home' = paths'[JOURNAL]
      BY <1>1, MoveShape, JournalIsRetained DEF Home, Followed
    <2>3. QED BY <2>1, <2>2
  <1>5. Home = HomeOf(FirstCommitted, Carried, FirstDisplaced) /\ Journal(Home) # <<>>
    BY <1>3 DEF HomeIsKnown, HomeOf, JournalIsLive
  <1>6. "extracted" \in Places /\ "payload" \in Places /\ "previous" \in Places
    BY PlacesNamed
  <1>7. Home \in {"extracted", "payload", "previous"} /\ Home \in Places
    BY <1>5, <1>6 DEF HomeOf
  <1>8. (Carried <=> Carrying \in ToSet(undo.carried)) /\ (Carried' <=> Carrying \in ToSet(undo'.carried))
    BY <1>1, CarryingDiffers DEF Carried
  <1>9. /\ FirstCommitted => Carried
        /\ Carried => FirstDisplaced
        /\ \A i, j \in DOMAIN undo.carried : undo.carried[i] = Carrying /\ undo.carried[j] = Carrying => i = j
    BY <1>3 DEF CarriedOnce
  <1>10. ASSUME FirstCommitted' => Carried', Carried' => FirstDisplaced',
                \A i, j \in DOMAIN undo'.carried : undo'.carried[i] = Carrying /\ undo'.carried[j] = Carrying => i = j
         PROVE  CarriedOnce'
    BY <1>1, <1>10, CarryingDiffers DEF CarriedOnce
  <1>11. CASE UnwindsFirstIn
    <2>1. undo'.carried = undo.carried /\ (Carried' <=> Carried)
      BY <1>8, <1>11 DEF UnwindsFirstIn
    <2>2. FirstCommitted /\ ~FirstCommitted' /\ (FirstDisplaced' <=> FirstDisplaced)
      BY <1>1, <1>11, UnwindPositions
    <2>3. Home = "extracted" /\ Carried
      BY <1>5, <1>9, <2>2 DEF HomeOf
    <2>4. Home' = "payload"
      <3>1. paths' = Followed(Move("extracted", "payload", ""))
        BY <1>11, UnwindPaths
      <3>2. QED BY <1>4, <2>3, <3>1, FollowedJournal
    <2>5. JournalTravels("extracted", "payload")
      BY <1>6, <1>11, JournalMoved DEF UnwindsFirstIn
    <2>6. Journal(Home)' = Journal(Home)
      BY <2>3, <2>4, <2>5 DEF JournalTravels, Journal
    <2>7. Home' = HomeOf(FirstCommitted, Carried, FirstDisplaced)'
      BY <2>1, <2>2, <2>3, <2>4 DEF HomeOf
    <2>8. CarriedOnce'
      BY <1>9, <1>10, <2>1, <2>2
    <2>9. QED BY <1>3, <1>6, <1>7, <2>4, <2>6, <2>7, <2>8
  <1>12. CASE UnwindsFile
    <2>1. undo.committed = <<>> /\ undo'.committed = <<>> /\ undo.carried # <<>> /\ undo'.carried = Front(undo.carried)
      BY <1>12 DEF UnwindsFile
    <2>2. ~FirstCommitted /\ ~FirstCommitted' /\ (FirstDisplaced' <=> FirstDisplaced)
      <3>1. ~FirstCommitted
        BY <1>1, <2>1, MovesDiffer DEF FirstCommitted
      <3>2. QED BY <1>1, <1>12, <3>1, UnwindPositions
    <2>3. undo.carried \in Seq(Carriage)
      BY <1>1 DEF RenamesInOrder
    <2>4. /\ \A i, j \in DOMAIN undo'.carried : undo'.carried[i] = Carrying /\ undo'.carried[j] = Carrying => i = j
          /\ Last(undo.carried) = Carrying => Carrying \in ToSet(undo.carried) /\ Carrying \notin ToSet(undo'.carried)
          /\ Last(undo.carried) # Carrying =>
               (Carrying \in ToSet(undo'.carried) <=> Carrying \in ToSet(undo.carried))
      <3>1. PICK s \in Seq(Carriage) : s = undo.carried
        BY <2>3
      <3>2. s # <<>> /\ undo'.carried = Front(s)
        BY <2>1, <3>1
      <3>3. \A i, j \in DOMAIN s : s[i] = Carrying /\ s[j] = Carrying => i = j
        BY <1>9, <3>1
      <3>4. /\ \A i, j \in DOMAIN Front(s) : Front(s)[i] = Carrying /\ Front(s)[j] = Carrying => i = j
            /\ Last(s) = Carrying => Carrying \in ToSet(s) /\ Carrying \notin ToSet(Front(s))
            /\ Last(s) # Carrying => (Carrying \in ToSet(Front(s)) <=> Carrying \in ToSet(s))
        BY <3>2, <3>3, OnceInFront
      <3>5. QED BY <3>1, <3>2, <3>4
    <2>5. CASE Last(undo.carried) = Carrying
      <3>1. Carried /\ ~Carried' /\ FirstDisplaced
        BY <1>8, <1>9, <2>4, <2>5
      <3>2. Home = "payload"
        BY <1>5, <2>2, <3>1 DEF HomeOf
      <3>3. paths' = Followed(Move("payload", "previous", JOURNAL)) /\ JournalTravels("payload", "previous")
        BY <1>12, <2>5, UnwindPaths
      <3>4. Home' = "previous"
        BY <1>4, <3>2, <3>3, FollowedJournal
      <3>5. Journal(Home)' = Journal(Home)
        BY <3>2, <3>3, <3>4 DEF JournalTravels, Journal
      <3>6. Home' = HomeOf(FirstCommitted, Carried, FirstDisplaced)'
        BY <2>2, <3>1, <3>4 DEF HomeOf
      <3>7. CarriedOnce'
        BY <1>10, <2>2, <2>4, <3>1
      <3>8. QED BY <1>3, <1>6, <1>7, <3>4, <3>5, <3>6, <3>7
    <2>6. CASE Last(undo.carried) # Carrying
      <3>1. Carried' <=> Carried
        BY <1>8, <2>4, <2>6
      <3>2. paths' = Followed(Move("payload", "previous", "preparation.log")) /\ JournalsStay
        BY <1>12, <2>6, UnwindPaths
      <3>3. "preparation.log" \notin {JOURNAL, ""}
        BY DEF JOURNAL
      <3>4. Home' = Home
        BY <1>4, <3>2, <3>3, FollowedJournal
      <3>5. Journal(Home)' = Journal(Home)
        BY <1>7, <3>2, <3>4 DEF JournalsStay, Journal
      <3>6. Home' = HomeOf(FirstCommitted, Carried, FirstDisplaced)'
        BY <1>5, <2>2, <3>1, <3>4 DEF HomeOf
      <3>7. CarriedOnce'
        BY <1>9, <1>10, <2>2, <2>4, <3>1
      <3>8. QED BY <1>3, <1>7, <3>4, <3>5, <3>6, <3>7
    <2>7. QED BY <2>5, <2>6
  <1>13. CASE UnwindsFirstOut
    <2>1. undo.carried = <<>> /\ undo'.carried = <<>>
      BY <1>13 DEF UnwindsFirstOut
    <2>2. ~Carried /\ ~Carried'
      BY <1>8, <2>1 DEF ToSet
    <2>3. FirstDisplaced /\ ~FirstCommitted /\ ~FirstDisplaced' /\ ~FirstCommitted'
      BY <1>1, <1>13, UnwindPositions
    <2>4. Home = "previous"
      BY <1>5, <2>2, <2>3 DEF HomeOf
    <2>5. Home' = "extracted"
      <3>1. paths' = Followed(Move("previous", "extracted", ""))
        BY <1>13, UnwindPaths
      <3>2. QED BY <1>4, <2>4, <3>1, FollowedJournal
    <2>6. JournalTravels("previous", "extracted")
      BY <1>6, <1>13, JournalMoved DEF UnwindsFirstOut
    <2>7. Journal(Home)' = Journal(Home)
      BY <2>4, <2>5, <2>6 DEF JournalTravels, Journal
    <2>8. Home' = HomeOf(FirstCommitted, Carried, FirstDisplaced)'
      BY <2>2, <2>3, <2>5 DEF HomeOf
    <2>9. CarriedOnce'
      BY <1>10, <2>1, <2>2, <2>3
    <2>10. QED BY <1>3, <1>6, <1>7, <2>5, <2>7, <2>8, <2>9
  <1>14. CASE UnwindsSecondOut
    <2>1. undo.carried = <<>> /\ undo'.carried = <<>>
      BY <1>14 DEF UnwindsSecondOut
    <2>2. ~Carried /\ ~Carried'
      BY <1>8, <2>1 DEF ToSet
    <2>3. (FirstCommitted' <=> FirstCommitted) /\ (FirstDisplaced' <=> FirstDisplaced)
      BY <1>1, <1>14, UnwindPositions
    <2>4. Home' = Home
      <3>1. paths' = Followed(Move("previous copy", "copy", ""))
        BY <1>14, UnwindPaths
      <3>2. Home # "previous copy"
        BY <1>7
      <3>3. paths[JOURNAL] # "previous copy"
        BY <1>4, <3>2
      <3>4. Followed(Move("previous copy", "copy", ""))[JOURNAL] = paths[JOURNAL]
        BY <3>3, FollowedJournal
      <3>5. QED BY <1>4, <3>1, <3>4
    <2>5. JournalTravels("previous copy", "copy")
      BY <1>14, PlacesNamed, JournalMoved DEF UnwindsSecondOut
    <2>6. Home # "copy" /\ Home # "previous copy"
      BY <1>7
    <2>7. Journal(Home)' = Journal(Home)
      BY <1>7, <2>4, <2>5, <2>6 DEF JournalTravels, Journal
    <2>8. Home' = HomeOf(FirstCommitted, Carried, FirstDisplaced)'
      BY <1>5, <2>2, <2>3, <2>4 DEF HomeOf
    <2>9. CarriedOnce'
      BY <1>9, <1>10, <2>1, <2>2, <2>3
    <2>10. QED BY <1>3, <1>7, <2>4, <2>7, <2>8, <2>9
  <1>15. QED BY <1>2, <1>11, <1>12, <1>13, <1>14

(***************************************************************************)
(* Where the live journal is before and after a step.                      *)
(***************************************************************************)
NearPlaces == {"extracted", "previous", "payload"}
Located == HomeIsKnown /\ CarriedOnce /\ JournalIsLive

LEMMA SettledNow ==
  ASSUME RenamesInOrder, HomeIsKnown, JournalIsLive, ~Unsettled, pc # "idle", ~Abandoned
  PROVE  /\ moved = NoMove /\ paths[JOURNAL] = "extracted" /\ Home = "extracted" /\ Recorded({"extracted"})
         /\ Preparing /\ pc # "begin" => Journal("extracted") # <<>>
PROOF
  <1>1. moved = NoMove
    BY DEF RenamesInOrder, Unsettled
  <1>2. paths[JOURNAL] = "extracted"
    BY DEF HomeIsKnown
  <1>3. Home = "extracted"
    BY <1>1, <1>2, HomeUnmoved
  <1>4. Live = {"extracted"}
    BY <1>3 DEF Live
  <1>5. QED BY <1>1, <1>2, <1>3, <1>4 DEF JournalIsLive

LEMMA UnsettledNow ==
  ASSUME HomeIsKnown, JournalIsLive, Unsettled
  PROVE  /\ Home = HomeOf(FirstCommitted, Carried, FirstDisplaced) /\ Home \in NearPlaces
         /\ Recorded({Home}) /\ Journal(Home) # <<>>
PROOF
  <1>1. Home = HomeOf(FirstCommitted, Carried, FirstDisplaced)
    BY DEF HomeIsKnown, HomeOf
  <1>2. pc # "idle" /\ ~Abandoned
    BY DEF Unsettled, Abandoned, Publishing
  <1>3. Live = {Home}
    BY <1>2 DEF Live
  <1>4. QED BY <1>1, <1>3 DEF HomeOf, NearPlaces, JournalIsLive

LEMMA AbandonedNow ==
  ASSUME HomeIsKnown, JournalIsLive, Abandoned
  PROVE  paths[JOURNAL] \in NearPlaces /\ Recorded(NearPlaces)
PROOF
  <1>1. pc # "idle" /\ ~Unsettled
    BY DEF Unsettled, Abandoned, Publishing
  <1>2. Live = NearPlaces
    BY <1>1 DEF Live, NearPlaces
  <1>3. QED BY <1>1, <1>2 DEF HomeIsKnown, JournalIsLive, NearPlaces

LEMMA SettledNext ==
  ASSUME ~Unsettled', pc' # "idle", ~Abandoned', moved' = NoMove, paths'[JOURNAL] = "extracted",
         Recorded({"extracted"})', (Preparing /\ pc # "begin")' => Journal("extracted")' # <<>>
  PROVE  Located'
PROOF
  <1>1. Home' = "extracted"
    BY MoveShape, JournalIsRetained DEF Home, Followed
  <1>2. HomeIsKnown'
    BY DEF HomeIsKnown
  <1>3. CarriedOnce'
    BY DEF CarriedOnce
  <1>4. Live' = {"extracted"}
    BY <1>1 DEF Live
  <1>5. Recorded(Live)'
    BY <1>4 DEF Recorded
  <1>6. Journal(Home)' = Journal("extracted")'
    BY <1>1 DEF Journal
  <1>7. JournalIsLive'
    BY <1>5, <1>6 DEF JournalIsLive
  <1>8. QED BY <1>2, <1>3, <1>7 DEF Located

LEMMA UnsettledNext ==
  ASSUME Unsettled', Home' = HomeOf(FirstCommitted, Carried, FirstDisplaced)', CarriedOnce',
         Recorded({Home})', Journal(Home)' # <<>>
  PROVE  Located'
PROOF
  <1>1. HomeIsKnown'
    BY DEF HomeIsKnown, HomeOf
  <1>2. pc' # "idle" /\ ~Abandoned'
    BY DEF Unsettled, Abandoned, Publishing
  <1>3. Live' = {Home'}
    BY <1>2 DEF Live
  <1>4. Recorded(Live)'
    BY <1>3 DEF Recorded
  <1>5. JournalIsLive'
    BY <1>4 DEF JournalIsLive
  <1>6. QED BY <1>1, <1>5 DEF Located

LEMMA AbandonedNext ==
  ASSUME Abandoned', paths'[JOURNAL] \in NearPlaces, Recorded(NearPlaces)'
  PROVE  Located'
PROOF
  <1>1. pc' # "idle" /\ ~Unsettled' /\ ~Preparing'
    BY DEF Unsettled, Abandoned, Publishing, Preparing
  <1>2. Live' = NearPlaces
    BY <1>1 DEF Live, NearPlaces
  <1>3. Recorded(Live)'
    BY <1>2 DEF Recorded
  <1>4. QED BY <1>1, <1>3 DEF Located, HomeIsKnown, CarriedOnce, JournalIsLive, NearPlaces

LEMMA IdleNext ==
  ASSUME pc' = "idle", Recorded({"extracted"})'
  PROVE  Located'
PROOF
  <1>1. ~Unsettled' /\ ~Preparing'
    BY DEF Unsettled, Publishing, Preparing
  <1>2. Live' = {"extracted"}
    BY DEF Live
  <1>3. Recorded(Live)'
    BY <1>2 DEF Recorded
  <1>4. QED BY <1>1, <1>3 DEF Located, HomeIsKnown, CarriedOnce, JournalIsLive

(* The live journal travelled, or stayed. *)
LEMMA LiveTravels ==
  ASSUME HomeIsKnown, JournalIsLive, Unsettled, Unsettled',
         Home' = HomeOf(FirstCommitted, Carried, FirstDisplaced)', CarriedOnce',
         Home \in Places, Home' \in Places, Journal(Home)' = Journal(Home), flushed' = flushed, leaked' = leaked
  PROVE  Located'
PROOF
  <1>1. Recorded({Home}) /\ Journal(Home) # <<>>
    BY UnsettledNow
  <1>2. PICK h \in Places, k \in Places : h = Home /\ k = Home'
    OBVIOUS
  <1>3. Journal(k)' = Journal(h)
    BY <1>2 DEF Journal
  <1>4. Recorded({k})'
    <2>1. Recorded({h})
      BY <1>1, <1>2
    <2>2. leaked \subseteq leaked'
      OBVIOUS
    <2>3. \A p \in {h} : \E q \in {k} : Journal(q)' = Journal(p)
      BY <1>3
    <2>4. QED BY <2>1, <2>2, <2>3, RecordedMoves
  <1>5. Recorded({Home})'
    BY <1>2, <1>4 DEF Recorded
  <1>6. Journal(Home)' # <<>>
    BY <1>1
  <1>7. QED BY <1>5, <1>6, UnsettledNext

(* An event that is written to a place is recorded there. *)
LEMMA RecordedGrows ==
  ASSUME FilesOK, NEW S, S \subseteq Places, NEW place \in S, NEW e \in Events, JournalGrows(place, e),
         Recorded(S), flushed \in Seq(Events), flushed' = Append(flushed, e), leaked' = leaked
  PROVE  Recorded(S)' /\ Journal(place)' # <<>>
PROOF
  <1>1. PICK j \in Seq(Events) : j = Journal(place)
    BY JournalShape
  <1>2. PICK n \in Nat : n = Len(j) /\ DOMAIN j = 1..n
    OBVIOUS
  <1>3. /\ DOMAIN Append(j, e) = 1..(n + 1) /\ Append(j, e)[n + 1] = e /\ n + 1 \in 1..(n + 1)
        /\ \A i \in 1..n : Append(j, e)[i] = j[i] /\ i \in 1..(n + 1)
    BY <1>2
  <1>4. ToSet(j) \cup {e} \subseteq ToSet(Append(j, e))
    BY <1>2, <1>3 DEF ToSet
  <1>5. Journal(place)' = Append(j, e)
    BY <1>1 DEF JournalGrows
  <1>6. \A p \in S : ToSet(Journal(p)) \subseteq ToSet(Journal(p)')
    <2> SUFFICES ASSUME NEW p \in S
                 PROVE  ToSet(Journal(p)) \subseteq ToSet(Journal(p)')
      OBVIOUS
    <2>1. CASE p = place
      BY <1>1, <1>4, <1>5, <2>1
    <2>2. CASE p # place
      BY <2>2 DEF JournalGrows
    <2>3. QED BY <2>1, <2>2
  <1>8. Recorded(S)'
    <2>1. PICK m \in Nat : m = Len(flushed) /\ DOMAIN flushed = 1..m
      OBVIOUS
    <2>2. /\ DOMAIN flushed' = 1..(m + 1) /\ flushed'[m + 1] = e
          /\ \A a \in 1..m : flushed'[a] = flushed[a]
      BY <2>1
    <2>3. \A a \in 1..(m + 1) : a = m + 1 \/ a \in 1..m
      BY <2>1
    <2>4. ASSUME NEW a \in DOMAIN flushed'
          PROVE  \/ \E d \in leaked' : flushed'[a] \in ToSet(d.kept[JOURNAL])
                 \/ \E p \in S : flushed'[a] \in ToSet(Journal(p)')
      <3>1. CASE a = m + 1
        <4>1. flushed'[a] \in ToSet(Journal(place)')
          BY <1>4, <1>5, <2>2, <3>1
        <4>2. QED BY <4>1
      <3>2. CASE a \in 1..m
        <4>1. flushed'[a] = flushed[a] /\ a \in DOMAIN flushed
          BY <2>1, <2>2, <3>2
        <4>2. CASE IsLeaked(flushed[a])
          BY <4>1, <4>2 DEF IsLeaked
        <4>3. CASE \E p \in S : flushed[a] \in ToSet(Journal(p))
          BY <1>6, <4>1, <4>3
        <4>4. QED BY <4>1, <4>2, <4>3 DEF Recorded
      <3>3. QED BY <2>2, <2>3, <3>1, <3>2
    <2>5. QED BY <2>4 DEF Recorded, IsLeaked
  <1>9. Journal(place)' # <<>>
    <2>1. Append(j, e) # <<>>
      BY <1>3
    <2>2. QED BY <1>5, <2>1
  <1>10. QED BY <1>8, <1>9

(* What a workspace held is left behind with it. *)
LEMMA RecordedLeaks ==
  ASSUME FilesOK, fs' = Emptied, leaked' = leaked \cup Held, flushed' = flushed, Recorded(NearPlaces)
  PROVE  Recorded({"extracted"})'
PROOF
  <1> SUFFICES ASSUME NEW a \in DOMAIN flushed
               PROVE  IsLeaked(flushed[a])' \/ flushed[a] \in ToSet(Journal("extracted")')
    BY DEF Recorded, IsLeaked
  <1>1. IsLeaked(flushed[a]) => IsLeaked(flushed[a])'
    BY DEF IsLeaked
  <1>2. /\ \A p \in Workspaces : fs[p] # Missing => fs[p] \in Held
        /\ \A p \in Places : fs'[p] = IF p \in Workspaces THEN Missing ELSE fs[p]
    BY EmptiedShape
  <1>3. "extracted" \in Places /\ "extracted" \notin Workspaces /\ "previous" \in Workspaces /\ "payload" \in Workspaces
    BY PlacesNamed DEF Workspaces
  <1>4. Journal("extracted")' = Journal("extracted")
    BY <1>2, <1>3 DEF Journal
  <1>5. \A e : e \notin ToSet(<<>>)
    BY DEF ToSet
  <1>6. ASSUME NEW p \in Workspaces, flushed[a] \in ToSet(Journal(p))
        PROVE  IsLeaked(flushed[a])'
    <2>1. fs[p] # Missing
      BY <1>5, <1>6 DEF Journal
    <2>2. fs[p] \in leaked' /\ Journal(p) = fs[p].kept[JOURNAL]
      BY <1>2, <1>6, <2>1 DEF Journal
    <2>3. QED BY <1>6, <2>2 DEF IsLeaked
  <1>7. QED BY <1>1, <1>3, <1>4, <1>6 DEF Recorded, NearPlaces

LEMMA RecordedMore ==
  ASSUME NEW S, NEW T, S \subseteq T, Recorded(S)
  PROVE  Recorded(T)
BY DEF Recorded

(* A step of a settled attempt that leaves the live journal alone. *)
LEMMA SettledSame ==
  ASSUME RenamesInOrder, Located, ~Unsettled, pc # "idle", ~Abandoned,
         ~Unsettled', pc' # "idle", ~Abandoned', moved' = moved, paths' = paths,
         flushed' = flushed, leaked' = leaked, Journal("extracted")' = Journal("extracted"),
         (Preparing /\ pc # "begin")' => Preparing /\ pc # "begin"
  PROVE  Located'
PROOF
  <1>1. /\ moved = NoMove /\ paths[JOURNAL] = "extracted" /\ Recorded({"extracted"})
        /\ Preparing /\ pc # "begin" => Journal("extracted") # <<>>
    BY SettledNow DEF Located
  <1>2. leaked \subseteq leaked' /\ \A p \in {"extracted"} : \E q \in {"extracted"} : Journal(q)' = Journal(p)
    OBVIOUS
  <1>3. Recorded({"extracted"})'
    BY <1>1, <1>2, RecordedMoves
  <1>4. (Preparing /\ pc # "begin")' => Journal("extracted")' # <<>>
    BY <1>1
  <1>5. moved' = NoMove /\ paths'[JOURNAL] = "extracted"
    BY <1>1
  <1>6. QED BY <1>3, <1>4, <1>5, SettledNext

LEMMA EmitLocated ==
  ASSUME TypeOK, RenamesInOrder, RecoveryIsLast, Located, NEW at \in {"begin", "prepared", "announce", "complete"},
         NEW code \in {"attempt.started", "payload.prepared", "publication.started", "attempt.published"},
         NEW next, Emit(at, code, next)
  PROVE  /\ pc = at /\ moved = NoMove /\ moved' = NoMove /\ paths' = paths /\ undo' = undo
         /\ paths'[JOURNAL] = "extracted" /\ ~Abandoned' /\ Recorded({"extracted"})'
         /\ (pc' = next /\ Journal("extracted")' # <<>>) \/ pc' = "failing"
PROOF
  <1>1. pc = at /\ UNCHANGED <<leaked, paths, moved, undo>> /\ flags'.recovery_needed = flags.recovery_needed
    BY EmitShape DEF publishing
  <1>2. ~Unsettled /\ pc # "idle" /\ ~Abandoned
    BY <1>1 DEF Unsettled, Publishing, Abandoned
  <1>3. moved = NoMove /\ paths[JOURNAL] = "extracted" /\ Recorded({"extracted"})
    BY <1>2, SettledNow DEF Located
  <1>4. ~Abandoned'
    BY <1>1 DEF RecoveryIsLast, Abandoned
  <1>5. CASE /\ fs' = Logged("extracted", Event(attempt, code))
             /\ flushed' = Append(flushed, Event(attempt, code)) /\ pc' = next
    <2>1. FilesOK /\ Event(attempt, code) \in Events /\ flushed \in Seq(Events)
      BY EventShape DEF TypeOK, FilesOK
    <2>2. PICK e \in Events : e = Event(attempt, code)
      BY <2>1
    <2>3. JournalGrows("extracted", e)
      <3>1. fs' = Logged("extracted", e)
        BY <1>5, <2>2
      <3>2. QED BY <2>1, <3>1, PlainFacts, JournalLogged
    <2>4. {"extracted"} \subseteq Places /\ "extracted" \in {"extracted"}
      BY PlainFacts
    <2>5. Recorded({"extracted"})' /\ Journal("extracted")' # <<>>
      <3>1. flushed' = Append(flushed, e) /\ leaked' = leaked
        BY <1>1, <1>5, <2>2
      <3>2. QED BY <1>3, <2>1, <2>3, <2>4, <3>1, RecordedGrows
    <2>6. QED BY <1>1, <1>3, <1>4, <1>5, <2>5
  <1>6. CASE pc' = "failing" /\ UNCHANGED <<fs, flushed>>
    <2>1. leaked \subseteq leaked' /\ \A p \in {"extracted"} : \E q \in {"extracted"} : Journal(q)' = Journal(p)
      BY <1>1, <1>6 DEF Journal
    <2>2. Recorded({"extracted"})'
      BY <1>3, <1>6, <2>1, RecordedMoves
    <2>3. QED BY <1>1, <1>3, <1>4, <1>6, <2>2
  <1>7. QED BY <1>5, <1>6 DEF Emit

(* An attempt starts with the journal where the last one left it. *)
LEMMA StartLocated ==
  ASSUME TypeOK, RenamesInOrder, Located, Start
  PROVE  Located'
PROOF
  <1>1. /\ pc = "idle" /\ pc' = "begin" /\ moved' = NoMove /\ UNCHANGED <<leaked, flushed>>
        /\ paths' = [name \in Retained |-> "extracted"]
    BY DEF Start
  <1>2. paths'[JOURNAL] = "extracted"
    BY <1>1, JournalIsRetained
  <1>3. ~Unsettled' /\ ~Abandoned'
    BY <1>1 DEF Unsettled, Publishing, Abandoned
  <1>4. Live = {"extracted"}
    BY <1>1 DEF Live
  <1>5. Recorded({"extracted"})
    BY <1>4 DEF Located, JournalIsLive
  <1>6. Journal("extracted")' = Journal("extracted")
    <2>1. "extracted" \in Places /\ "extracted" # "payload"
      BY PlacesNamed
    <2>2. QED BY <2>1, StartJournals DEF JournalReset
  <1>7. leaked \subseteq leaked' /\ \A p \in {"extracted"} : \E q \in {"extracted"} : Journal(q)' = Journal(p)
    BY <1>1, <1>6
  <1>8. Recorded({"extracted"})'
    BY <1>1, <1>5, <1>7, RecordedMoves
  <1>9. QED BY <1>1, <1>2, <1>3, <1>8, SettledNext

(* The steps of the build leave the output directory alone. *)
LEMMA BuildLocated ==
  ASSUME TypeOK, RenamesInOrder, RecoveryIsLast, Located,
         \/ \E collides \in BOOLEAN : Build(collides)
         \/ \E staged \in {0, attempt} : BuildFails(staged)
         \/ Reject \/ WriteSecondary \/ Published
  PROVE  Located'
PROOF
  <1>1. "extracted" \in Places /\ "extracted" # "payload" /\ "extracted" # "output"
    BY PlacesNamed
  <1>2. Journal("extracted")' = Journal("extracted")
    <2>1. ASSUME NEW collides \in BOOLEAN, Build(collides)
          PROVE  Journal("extracted")' = Journal("extracted")
      BY <1>1, <2>1, BuildJournals DEF JournalReset
    <2>2. ASSUME NEW staged \in {0, attempt}, BuildFails(staged)
          PROVE  Journal("extracted")' = Journal("extracted")
      BY <1>1, <2>2, BuildFailsJournals DEF JournalReset
    <2>3. CASE Reject \/ Published
      BY <2>3 DEF Reject, Published, Journal
    <2>4. CASE WriteSecondary
      BY <1>1, <2>4, WriteSecondaryJournals DEF JournalReset, JournalsStay
    <2>5. QED BY <2>1, <2>2, <2>3, <2>4
  <1>3. /\ pc \in {"build", "prepared", "secondary", "returned"}
        /\ pc' \in {"prepared", "failing", "announce", "complete"}
        /\ pc' = "complete" => pc = "returned"
        /\ pc' = "prepared" => pc = "build"
        /\ pc' = "announce" => pc = "secondary"
        /\ UNCHANGED <<leaked, moved, paths, flushed>>
    BY DEF Build, BuildFails, Reject, WriteSecondary, Published, publishing
  <1>4. flags'.recovery_needed = flags.recovery_needed
    <2>1. flags \in Flags
      BY DEF TypeOK
    <2>2. QED BY <2>1 DEF Build, BuildFails, Reject, WriteSecondary, Published, Flags
  <1>5. ~Unsettled /\ ~Unsettled' /\ pc # "idle" /\ pc' # "idle" /\ ~Abandoned
    BY <1>3 DEF Unsettled, Publishing, Abandoned
  <1>6. ~Abandoned'
    BY <1>3, <1>4 DEF RecoveryIsLast, Abandoned
  <1>7. (Preparing /\ pc # "begin")' => Preparing /\ pc # "begin"
    BY <1>3 DEF Preparing
  <1>8. QED BY <1>2, <1>3, <1>5, <1>6, <1>7, SettledSame

(* What was renamed is recorded where it went. *)
LEMMA RecordLocated ==
  ASSUME TypeOK, RenamesInOrder, RecoveryIsLast, Located, Record
  PROVE  Located'
PROOF
  <1>1. /\ moved # NoMove /\ moved' = NoMove /\ paths' = Followed(moved)
        /\ UNCHANGED <<fs, leaked, flags, flushed>>
        /\ RecordsFirstOut \/ RecordsSecondOut \/ RecordsFile \/ RecordsFirstIn \/ RecordsLast
    BY RecordSteps DEF Record
  <1>2. Publishing /\ Unsettled
    BY <1>1 DEF RecordsFirstOut, RecordsSecondOut, RecordsFile, RecordsFirstIn, RecordsLast, Publishing, Unsettled
  <1>3. /\ Home = HomeOf(FirstCommitted, Carried, FirstDisplaced) /\ Home \in NearPlaces
        /\ Recorded({Home}) /\ Journal(Home) # <<>>
    BY <1>2, UnsettledNow DEF Located
  <1>4. Home' = Home /\ paths'[JOURNAL] = Home
    BY <1>1, MoveShape, JournalIsRetained DEF Home, Followed
  <1>5. Home \in Places /\ Home' \in Places
    BY <1>3, <1>4, PlacesNamed DEF NearPlaces
  <1>6. Journal(Home)' = Journal(Home)
    BY <1>1, <1>4 DEF Journal
  <1>7. /\ pc = "commit" \/ FirstCommitted => Carried
        /\ Carried => FirstDisplaced
        /\ moved = Carrying => Carrying \notin ToSet(undo.carried)
        /\ \A i, j \in DOMAIN undo.carried : undo.carried[i] = Carrying /\ undo.carried[j] = Carrying => i = j
        /\ pc = "carry" /\ Carried => Journal("previous") = <<>>
    BY <1>2 DEF Located, CarriedOnce
  <1>8. Carried' <=> Carrying \in ToSet(undo'.carried)
    BY <1>1, CarryingDiffers DEF Carried
  <1>9. CASE RecordsLast
    <2>1. pc = "commit" /\ pc' = "returned" /\ FirstCommitted
      <3>1. CASE Secondary
        BY <1>9, <3>1, StacksDiffer DEF RecordsLast, FirstCommitted
      <3>2. CASE ~Secondary
        BY <1>9, <3>2 DEF RecordsLast, FirstCommitted
      <3>3. QED BY <1>9, <3>1, <3>2 DEF RecordsLast
    <2>2. Home = "extracted"
      BY <1>3, <2>1 DEF HomeOf
    <2>3. ~Unsettled' /\ pc' # "idle" /\ ~Abandoned' /\ ~Preparing'
      BY <2>1 DEF Unsettled, Publishing, Abandoned, Preparing
    <2>4. Recorded({"extracted"})'
      <3>1. leaked \subseteq leaked' /\ \A p \in {"extracted"} : \E q \in {"extracted"} : Journal(q)' = Journal(p)
        BY <1>1 DEF Journal
      <3>2. Recorded({"extracted"})
        BY <1>3, <2>2
      <3>3. QED BY <1>1, <3>1, <3>2, RecordedMoves
    <2>5. paths'[JOURNAL] = "extracted"
      BY <1>4, <2>2
    <2>6. QED BY <1>1, <2>3, <2>4, <2>5, SettledNext
  <1>10. CASE RecordsFirstOut \/ RecordsSecondOut \/ RecordsFile \/ RecordsFirstIn
    <2>1. Unsettled'
      BY <1>10 DEF RecordsFirstOut, RecordsSecondOut, RecordsFile, RecordsFirstIn, Unsettled, Publishing
    <2>2. (FirstDisplaced' <=> FirstDisplaced) /\ (FirstCommitted' <=> FirstCommitted)
      BY <1>1, <1>10, RecordPositions
    <2>3. /\ Carried' <=> Carried
          /\ \A i, j \in DOMAIN undo'.carried : undo'.carried[i] = Carrying /\ undo'.carried[j] = Carrying => i = j
      <3>1. CASE RecordsFile
        <4>1. pc = "carry" /\ undo'.carried = Append(undo.carried, moved) /\ moved \in Carriage
          BY <3>1 DEF RecordsFile
        <4>2. PICK s \in Seq(Carriage) : s = undo.carried
          <5>1. undo.carried \in Seq(Carriage)
            BY <1>2 DEF RenamesInOrder
          <5>2. QED BY <5>1
        <4>3. PICK n \in Nat : n = Len(s) /\ DOMAIN s = 1..n
          BY <4>2
        <4>4. PICK t : t = Append(s, moved)
          OBVIOUS
        <4>5. /\ DOMAIN t = 1..(n + 1) /\ t[n + 1] = moved /\ n + 1 \in 1..(n + 1)
              /\ \A i \in 1..n : t[i] = s[i] /\ i \in 1..(n + 1)
          BY <4>2, <4>3, <4>4, <4>1
        <4>6. \A i \in 1..(n + 1) : i = n + 1 \/ i \in 1..n
          BY <4>3
        <4>7. \A y : y \in ToSet(s) <=> \E i \in 1..n : s[i] = y
          BY <4>3 DEF ToSet
        <4>8. \A y : y \in ToSet(t) <=> \E i \in 1..(n + 1) : t[i] = y
          BY <4>5 DEF ToSet
        <4>9. Carrying \in ToSet(t) <=> moved = Carrying \/ Carrying \in ToSet(s)
          BY <4>5, <4>6, <4>7, <4>8
        <4>10. /\ moved = Carrying => Carrying \notin ToSet(s)
               /\ \A i, j \in 1..n : s[i] = Carrying /\ s[j] = Carrying => i = j
          BY <1>7, <4>2, <4>3
        <4>11. \A i, j \in 1..(n + 1) : t[i] = Carrying /\ t[j] = Carrying => i = j
          BY <4>5, <4>6, <4>7, <4>10
        <4>12. t = undo'.carried
          BY <4>1, <4>2, <4>4
        <4>13. Carried' <=> Carried
          BY <1>8, <4>2, <4>9, <4>12 DEF Carried
        <4>14. QED BY <4>5, <4>11, <4>12, <4>13
      <3>2. CASE RecordsFirstOut \/ RecordsSecondOut \/ RecordsFirstIn
        <4>1. undo'.carried = undo.carried
          BY <3>2 DEF RecordsFirstOut, RecordsSecondOut, RecordsFirstIn, Undone
        <4>2. moved # Carrying
          BY <3>2, CarryingDiffers DEF RecordsFirstOut, RecordsSecondOut, RecordsFirstIn
        <4>3. QED BY <1>7, <1>8, <4>1, <4>2 DEF Carried
      <3>3. QED BY <1>10, <3>1, <3>2
    <2>4. Home' = HomeOf(FirstCommitted, Carried, FirstDisplaced)'
      BY <1>3, <1>4, <2>2, <2>3 DEF HomeOf
    <2>5. /\ pc' = "commit" => Carried
          /\ pc' = "carry" /\ Carried => Journal("previous")' = <<>>
      <3>1. Journal("previous")' = Journal("previous")
        BY <1>1 DEF Journal
      <3>2. CASE RecordsFirstOut
        <4>1. pc' = "carry" /\ undo.carried = <<>> /\ moved = FirstOut
          BY <3>2 DEF RecordsFirstOut, Undone
        <4>2. ~Carried
          BY <4>1, CarryingDiffers DEF Carried, ToSet
        <4>3. QED BY <4>1, <4>2
      <3>3. CASE RecordsSecondOut
        <4>1. pc' = "commit" /\ undo.committed # <<>>
          BY <3>3, StacksDiffer DEF RecordsSecondOut
        <4>2. QED BY <1>7, <4>1 DEF FirstCommitted
      <3>4. CASE RecordsFile
        BY <1>7, <3>1, <3>4 DEF RecordsFile
      <3>5. CASE RecordsFirstIn
        BY <3>5 DEF RecordsFirstIn
      <3>6. QED BY <1>10, <3>2, <3>3, <3>4, <3>5
    <2>6. CarriedOnce'
      <3>1. moved' # Carrying
        BY <1>1, CarryingDiffers
      <3>2. QED BY <1>7, <2>2, <2>3, <2>5, <3>1 DEF CarriedOnce
    <2>7. HomeIsKnown /\ JournalIsLive
      BY DEF Located
    <2>8. QED BY <1>1, <1>2, <1>5, <1>6, <2>1, <2>4, <2>6, <2>7, LiveTravels
  <1>11. QED BY <1>1, <1>9, <1>10

(* Publishing goes on, or back, with nothing renamed. *)
LEMMA TurnLocated ==
  ASSUME TypeOK, RenamesInOrder, Located, Skip \/ PublishFails
  PROVE  Located'
PROOF
  <1>1. moved = NoMove /\ UNCHANGED <<fs, leaked, paths, moved, undo, flushed>>
    BY DEF Skip, PublishFails, publishing
  <1>2. /\ pc \in {"displace", "carry", "commit"} /\ pc' \in {"commit", "rollback"}
        /\ pc' = "commit" => pc \in {"displace", "carry"} /\ Steps = {}
    BY DEF Skip, PublishFails, Steps
  <1>3. Unsettled /\ Unsettled'
    BY <1>2 DEF Unsettled, Publishing
  <1>4. /\ Home = HomeOf(FirstCommitted, Carried, FirstDisplaced) /\ Home \in NearPlaces
        /\ Recorded({Home}) /\ Journal(Home) # <<>>
    BY <1>3, UnsettledNow DEF Located
  <1>5. /\ Home' = Home /\ (Carried' <=> Carried) /\ Journal(Home)' = Journal(Home)
        /\ (FirstCommitted' <=> FirstCommitted) /\ (FirstDisplaced' <=> FirstDisplaced)
    BY <1>1 DEF Home, Followed, Carried, Journal, FirstCommitted, FirstDisplaced
  <1>6. Home' = HomeOf(FirstCommitted, Carried, FirstDisplaced)'
    BY <1>4, <1>5 DEF HomeOf
  <1>7. Home \in Places /\ Home' \in Places
    BY <1>4, <1>5, PlacesNamed DEF NearPlaces
  <1>8. /\ FirstCommitted => Carried
        /\ Carried => FirstDisplaced
        /\ moved = Carrying => Carrying \notin ToSet(undo.carried)
        /\ \A i, j \in DOMAIN undo.carried : undo.carried[i] = Carrying /\ undo.carried[j] = Carrying => i = j
    BY <1>3 DEF Located, CarriedOnce
  <1>9. pc' = "commit" => Carried
    <2> SUFFICES ASSUME pc' = "commit"
                 PROVE  Carried
      OBVIOUS
    <2>1. CASE pc = "displace"
      <3>1. \/ index = 1 /\ undo = Undone
            \/ Secondary /\ index = 2 /\ undo.committed = <<FirstIn>>
        BY <2>1 DEF RenamesInOrder
      <3>2. CASE index = 1 /\ undo = Undone
        <4>1. undo.committed = <<>> /\ undo.displaced = <<>> /\ undo.carried = <<>>
          BY <3>2 DEF Undone
        <4>2. ~FirstCommitted /\ ~FirstDisplaced
          BY <1>1, <4>1, NothingMoved
        <4>3. Home = "extracted"
          BY <1>4, <1>8, <4>2 DEF HomeOf
        <4>4. fs["extracted"] # Missing
          BY <1>4, <4>3 DEF Journal
        <4>5. Target.destination = "extracted"
          BY <3>2, TargetShape DEF Target, Destination
        <4>6. Displacement(Target) \in Steps
          BY <2>1, <4>4, <4>5 DEF Steps
        <4>7. QED BY <1>2, <4>6
      <3>3. CASE Secondary /\ index = 2 /\ undo.committed = <<FirstIn>>
        BY <1>8, <3>3, StacksDiffer DEF FirstCommitted
      <3>4. QED BY <3>1, <3>2, <3>3
    <2>2. CASE pc = "carry"
      <3>1. index = 1 /\ undo.committed = <<>> /\ undo.displaced = <<FirstOut>>
        BY <2>2 DEF RenamesInOrder
      <3>2. Target.backup = "previous"
        BY <3>1, TargetShape DEF Target, Destination
      <3>3. ~FirstCommitted /\ FirstDisplaced
        BY <1>1, <3>1, MovesDiffer DEF FirstCommitted, FirstDisplaced
      <3>4. SUFFICES ASSUME ~Carried
                     PROVE  FALSE
        OBVIOUS
      <3>5. Home = "previous"
        BY <1>4, <3>3, <3>4 DEF HomeOf
      <3>6. fs["previous"].kept[JOURNAL] # <<>>
        BY <1>4, <3>5 DEF Journal
      <3>7. RETAINED_HISTORY[1] = JOURNAL /\ 1 \in 1..Len(RETAINED_HISTORY)
        BY DEF RETAINED_HISTORY
      <3>8. \A k \in 1..(1 - 1) : FALSE
        OBVIOUS
      <3>9. 1 \in NextCarried
        BY <3>2, <3>6, <3>7, <3>8 DEF NextCarried
      <3>10. Move(Target.backup, Target.stage, RETAINED_HISTORY[1]) \in Steps
        BY <2>2, <3>9 DEF Steps
      <3>11. QED BY <1>2, <3>10
    <2>3. QED BY <1>2, <2>1, <2>2
  <1>10. CarriedOnce'
    BY <1>1, <1>2, <1>5, <1>8, <1>9, CarryingDiffers DEF CarriedOnce
  <1>11. HomeIsKnown /\ JournalIsLive
    BY DEF Located
  <1>12. QED BY <1>1, <1>3, <1>5, <1>6, <1>7, <1>10, <1>11, LiveTravels

LEMMA MoveLocated ==
  ASSUME TypeOK, RenamesInOrder, Located, Rename \/ RollBack
  PROVE  Located'
PROOF
  <1>1. HomeIsKnown /\ CarriedOnce /\ JournalIsLive
    BY DEF Located
  <1>2. /\ Unsettled /\ Unsettled'
        /\ Home' = HomeOf(FirstCommitted, Carried, FirstDisplaced)'
        /\ Home \in Places /\ Home' \in Places /\ Journal(Home)' = Journal(Home)
        /\ CarriedOnce'
    BY <1>1, RenameHome, RollBackHome
  <1>3. flushed' = flushed /\ leaked' = leaked
    BY DEF Rename, RollBack
  <1>4. QED BY <1>1, <1>2, <1>3, LiveTravels

(* When everything has been taken back, the journal is home again. *)
LEMMA BackLocated ==
  ASSUME TypeOK, RenamesInOrder, RecoveryIsLast, Located, RolledBack
  PROVE  Located'
PROOF
  <1>1. /\ pc = "rollback" /\ pc' = "failing" /\ undo[Undo] = <<>>
        /\ UNCHANGED <<fs, leaked, flags, paths, moved, undo, flushed>>
    BY DEF RolledBack, publishing
  <1>2. undo.committed = <<>> /\ undo.displaced = <<>> /\ undo.carried = <<>> /\ moved = NoMove
    BY <1>1 DEF Undo, RenamesInOrder, Publishing
  <1>3. ~FirstCommitted /\ ~FirstDisplaced
    BY <1>2, NothingMoved
  <1>4. ~Carried
    BY <1>2, CarryingDiffers DEF Carried, ToSet
  <1>5. Unsettled /\ ~Unsettled' /\ ~Abandoned'
    BY <1>1 DEF Unsettled, Publishing, Abandoned, RecoveryIsLast
  <1>6. Home = HomeOf(FirstCommitted, Carried, FirstDisplaced) /\ Recorded({Home})
    BY <1>5, UnsettledNow DEF Located
  <1>7. Home = "extracted"
    BY <1>3, <1>4, <1>6 DEF HomeOf
  <1>8. paths[JOURNAL] = "extracted" /\ Recorded({"extracted"})
    BY <1>2, <1>6, <1>7, HomeUnmoved
  <1>9. leaked \subseteq leaked' /\ \A p \in {"extracted"} : \E q \in {"extracted"} : Journal(q)' = Journal(p)
    BY <1>1 DEF Journal
  <1>10. Recorded({"extracted"})'
    BY <1>1, <1>8, <1>9, RecordedMoves
  <1>11. moved' = NoMove /\ paths'[JOURNAL] = "extracted" /\ ~Preparing'
    BY <1>1, <1>2, <1>8 DEF Preparing
  <1>12. QED BY <1>1, <1>5, <1>10, <1>11, SettledNext

(* A rollback that fails leaves the journal in a workspace. *)
LEMMA FailsLocated ==
  ASSUME TypeOK, RenamesInOrder, Located, RollBackFails
  PROVE  Located'
PROOF
  <1>1. /\ pc = "rollback" /\ pc' = "failing" /\ flags' = [flags EXCEPT !.recovery_needed = TRUE]
        /\ UNCHANGED <<fs, leaked, paths, moved, undo, flushed>>
    BY DEF RollBackFails, publishing
  <1>2. flags'.recovery_needed
    BY <1>1 DEF TypeOK, Flags
  <1>3. Abandoned' /\ Unsettled /\ moved = NoMove
    BY <1>1, <1>2 DEF Abandoned, Unsettled, RenamesInOrder, Publishing
  <1>4. Home \in NearPlaces /\ Recorded({Home}) /\ Home = paths[JOURNAL]
    BY <1>3, UnsettledNow, HomeUnmoved DEF Located
  <1>5. Recorded(NearPlaces)
    BY <1>4 DEF Recorded
  <1>6. leaked \subseteq leaked' /\ \A p \in NearPlaces : \E q \in NearPlaces : Journal(q)' = Journal(p)
    BY <1>1 DEF Journal
  <1>7. Recorded(NearPlaces)'
    BY <1>1, <1>5, <1>6, RecordedMoves
  <1>8. QED BY <1>1, <1>3, <1>4, <1>7, AbandonedNext

LEMMA DiagnoseLocated ==
  ASSUME TypeOK, RenamesInOrder, Located, Diagnose
  PROVE  Located'
PROOF
  <1>1. pc = "failing" /\ pc' = "report" /\ UNCHANGED <<leaked, paths, moved, flushed>>
    BY DEF Diagnose, publishing
  <1>2. flags'.recovery_needed = flags.recovery_needed
    BY DiagnoseShape
  <1>3. JournalsStay
    BY DiagnoseJournals
  <1>4. ~Unsettled /\ ~Unsettled' /\ ~Preparing' /\ pc # "idle" /\ pc' # "idle" /\ (Abandoned' <=> Abandoned)
    BY <1>1, <1>2 DEF Unsettled, Publishing, Preparing, Abandoned
  <1>5. CASE Abandoned
    <2>1. paths[JOURNAL] \in NearPlaces /\ Recorded(NearPlaces)
      BY <1>5, AbandonedNow DEF Located
    <2>2. NearPlaces \subseteq Places
      BY PlacesNamed DEF NearPlaces
    <2>3. leaked \subseteq leaked' /\ \A p \in NearPlaces : \E q \in NearPlaces : Journal(q)' = Journal(p)
      BY <1>1, <1>3, <2>2 DEF JournalsStay
    <2>4. Recorded(NearPlaces)'
      BY <1>1, <2>1, <2>3, RecordedMoves
    <2>5. QED BY <1>1, <1>4, <1>5, <2>1, <2>4, AbandonedNext
  <1>6. CASE ~Abandoned
    <2>1. Journal("extracted")' = Journal("extracted")
      BY <1>3, PlacesNamed DEF JournalsStay
    <2>2. QED BY <1>1, <1>4, <1>6, <2>1, SettledSame
  <1>7. QED BY <1>5, <1>6

LEMMA ReportLocated ==
  ASSUME TypeOK, RenamesInOrder, Located, Report
  PROVE  Located'
PROOF
  <1>1. pc = "report" /\ pc' = "exit" /\ UNCHANGED <<leaked, flags, paths, moved>>
    BY DEF Report, publishing
  <1>2. ~Unsettled /\ ~Unsettled' /\ ~Preparing' /\ pc # "idle" /\ pc' # "idle" /\ (Abandoned' <=> Abandoned)
    BY <1>1 DEF Unsettled, Publishing, Preparing, Abandoned
  <1>3. PICK S : S = IF Abandoned THEN NearPlaces ELSE {"extracted"}
    OBVIOUS
  <1>4. S \subseteq Places /\ paths[JOURNAL] \in S /\ Recorded(S)
    <2>1. CASE Abandoned
      BY <1>3, <2>1, AbandonedNow, PlacesNamed DEF Located, NearPlaces
    <2>2. CASE ~Abandoned
      BY <1>2, <1>3, <2>2, SettledNow, PlacesNamed DEF Located
    <2>3. QED BY <2>1, <2>2
  <1>5. Recorded(S)'
    <2>1. CASE fs' = Logged(paths[JOURNAL], Failure) /\ flushed' = Append(flushed, Failure)
      <3>1. FilesOK /\ Failure \in Events /\ flushed \in Seq(Events)
        BY EventShape DEF TypeOK, FilesOK
      <3>2. PICK place \in S, e \in Events : place = paths[JOURNAL] /\ e = Failure
        BY <1>4, <3>1
      <3>3. fs' = Logged(place, e) /\ flushed' = Append(flushed, e) /\ place \in Places
        BY <1>4, <2>1, <3>2
      <3>4. JournalGrows(place, e)
        BY <3>1, <3>3, JournalLogged
      <3>5. QED BY <1>1, <1>4, <3>1, <3>3, <3>4, RecordedGrows
    <2>2. CASE UNCHANGED <<fs, flushed>>
      <3>1. leaked \subseteq leaked' /\ \A p \in S : \E q \in S : Journal(q)' = Journal(p)
        BY <1>1, <2>2 DEF Journal
      <3>2. QED BY <1>4, <2>2, <3>1, RecordedMoves
    <2>3. QED BY <2>1, <2>2 DEF Report
  <1>6. CASE Abandoned
    BY <1>1, <1>2, <1>3, <1>4, <1>5, <1>6, AbandonedNext
  <1>7. CASE ~Abandoned
    <2>1. moved = NoMove
      BY <1>2 DEF RenamesInOrder, Unsettled
    <2>2. QED BY <1>1, <1>2, <1>3, <1>4, <1>5, <1>7, <2>1, SettledNext
  <1>8. QED BY <1>6, <1>7

LEMMA ExitLocated ==
  ASSUME TypeOK, RenamesInOrder, Located, Exit
  PROVE  Located'
PROOF
  <1>1. /\ pc = "exit" /\ pc' = "idle" /\ fs' = Emptied /\ flushed' = flushed
        /\ leaked' = IF flags.recovery_needed THEN leaked \cup Held ELSE leaked
    BY DEF Exit
  <1>2. FilesOK
    BY PlainFacts
  <1>3. CASE Abandoned
    <2>1. Recorded(NearPlaces)
      BY <1>3, AbandonedNow DEF Located
    <2>2. leaked' = leaked \cup Held
      BY <1>1, <1>3 DEF Abandoned
    <2>3. QED BY <1>1, <1>2, <2>1, <2>2, RecordedLeaks, IdleNext
  <1>4. CASE ~Abandoned
    <2>1. Recorded({"extracted"})
      BY <1>1, <1>4, SettledNow DEF Located, Unsettled, Publishing
    <2>2. "extracted" \in Places /\ "extracted" \notin Workspaces
      BY PlacesNamed DEF Workspaces
    <2>3. fs'["extracted"] = fs["extracted"]
      BY <1>1, <1>2, <2>2, EmptiedShape
    <2>4. leaked \subseteq leaked' /\ \A p \in {"extracted"} : \E q \in {"extracted"} : Journal(q)' = Journal(p)
      BY <1>1, <2>3 DEF Journal
    <2>5. Recorded({"extracted"})'
      BY <1>1, <2>1, <2>4, RecordedMoves
    <2>6. QED BY <1>1, <2>5, IdleNext
  <1>5. QED BY <1>3, <1>4

LEMMA CrashLocated ==
  ASSUME TypeOK, RenamesInOrder, Located, Crash
  PROVE  Located'
PROOF
  <1>1. pc # "idle" /\ pc' = "idle" /\ fs' = Emptied /\ flushed' = flushed /\ leaked' = leaked \cup Held
    BY DEF Crash
  <1>2. Recorded(NearPlaces)
    <2>1. Recorded(Live)
      BY DEF Located, JournalIsLive
    <2>2. Live \subseteq NearPlaces
      <3>1. CASE Abandoned
        BY <1>1, <3>1 DEF Live, NearPlaces
      <3>2. CASE Unsettled
        <4>1. Home \in NearPlaces /\ ~Abandoned
          BY <3>2, UnsettledNow DEF Located, Abandoned, Unsettled, Publishing
        <4>2. QED BY <1>1, <4>1 DEF Live
      <3>3. CASE ~Unsettled /\ ~Abandoned
        <4>1. Home = "extracted"
          BY <1>1, <3>3, SettledNow DEF Located
        <4>2. QED BY <1>1, <3>3, <4>1 DEF Live, NearPlaces
      <3>4. QED BY <3>1, <3>2, <3>3
    <2>3. QED BY <2>1, <2>2, RecordedMore
  <1>3. FilesOK
    BY PlainFacts
  <1>4. QED BY <1>1, <1>2, <1>3, RecordedLeaks, IdleNext

LEMMA LocationStep ==
  ASSUME TypeOK, RenamesInOrder, RecoveryIsLast, Located, [Next]_vars, ~interrupted'
  PROVE  Located'
PROOF
  <1>1. CASE Start
    BY <1>1, StartLocated
  <1>2. CASE Emit("begin", "attempt.started", "build")
    <2>1. /\ moved' = NoMove /\ paths'[JOURNAL] = "extracted" /\ ~Abandoned' /\ Recorded({"extracted"})'
          /\ (pc' = "build" /\ Journal("extracted")' # <<>>) \/ pc' = "failing"
      BY <1>2, EmitLocated
    <2>2. ~Unsettled' /\ pc' # "idle" /\ ((Preparing /\ pc # "begin")' => Journal("extracted")' # <<>>)
      BY <2>1 DEF Unsettled, Publishing, Preparing
    <2>3. QED BY <2>1, <2>2, SettledNext
  <1>3. CASE Emit("prepared", "payload.prepared", "secondary")
    <2>1. /\ moved' = NoMove /\ paths'[JOURNAL] = "extracted" /\ ~Abandoned' /\ Recorded({"extracted"})'
          /\ (pc' = "secondary" /\ Journal("extracted")' # <<>>) \/ pc' = "failing"
      BY <1>3, EmitLocated
    <2>2. ~Unsettled' /\ pc' # "idle" /\ ((Preparing /\ pc # "begin")' => Journal("extracted")' # <<>>)
      BY <2>1 DEF Unsettled, Publishing, Preparing
    <2>3. QED BY <2>1, <2>2, SettledNext
  <1>4. CASE Emit("complete", "attempt.published", "exit")
    <2>1. /\ moved' = NoMove /\ paths'[JOURNAL] = "extracted" /\ ~Abandoned' /\ Recorded({"extracted"})'
          /\ (pc' = "exit" /\ Journal("extracted")' # <<>>) \/ pc' = "failing"
      BY <1>4, EmitLocated
    <2>2. ~Unsettled' /\ pc' # "idle" /\ ((Preparing /\ pc # "begin")' => Journal("extracted")' # <<>>)
      BY <2>1 DEF Unsettled, Publishing, Preparing
    <2>3. QED BY <2>1, <2>2, SettledNext
  <1>5. CASE Emit("announce", "publication.started", "displace")
    <2>1. /\ pc = "announce" /\ moved = NoMove /\ moved' = NoMove /\ undo' = undo
          /\ paths'[JOURNAL] = "extracted" /\ ~Abandoned' /\ Recorded({"extracted"})'
          /\ (pc' = "displace" /\ Journal("extracted")' # <<>>) \/ pc' = "failing"
      BY <1>5, EmitLocated
    <2>2. CASE pc' = "failing"
      <3>1. ~Unsettled' /\ pc' # "idle" /\ ~Preparing'
        BY <2>2 DEF Unsettled, Publishing, Preparing
      <3>2. QED BY <2>1, <3>1, SettledNext
    <2>3. CASE pc' = "displace" /\ Journal("extracted")' # <<>>
      <3>1. undo'.committed = <<>> /\ undo'.displaced = <<>> /\ undo'.carried = <<>>
        BY <2>1 DEF RenamesInOrder, Undone
      <3>2. ~FirstCommitted' /\ ~FirstDisplaced' /\ ~Carried'
        BY <2>1, <3>1, MovesDiffer, StacksDiffer, CarryingDiffers
           DEF FirstCommitted, FirstDisplaced, Carried, ToSet
      <3>3. Home' = "extracted"
        BY <2>1, MoveShape, JournalIsRetained DEF Home, Followed
      <3>4. Unsettled' /\ Home' = HomeOf(FirstCommitted, Carried, FirstDisplaced)'
        BY <2>3, <3>2, <3>3 DEF Unsettled, Publishing, HomeOf
      <3>5. CarriedOnce'
        BY <2>1, <2>3, <3>1, <3>2, CarryingDiffers DEF CarriedOnce
      <3>6. Recorded({Home})' /\ Journal(Home)' # <<>>
        BY <2>1, <2>3, <3>3 DEF Recorded, Journal
      <3>7. QED BY <3>4, <3>5, <3>6, UnsettledNext
    <2>4. QED BY <2>1, <2>2, <2>3
  <1>6. CASE \/ \E collides \in BOOLEAN : Build(collides)
             \/ \E staged \in {0, attempt} : BuildFails(staged)
             \/ Reject \/ WriteSecondary \/ Published
    BY <1>6, BuildLocated
  <1>7. CASE Rename \/ RollBack
    BY <1>7, MoveLocated
  <1>8. CASE Record
    BY <1>8, RecordLocated
  <1>9. CASE Skip \/ PublishFails
    BY <1>9, TurnLocated
  <1>10. CASE Interrupt
    BY <1>10 DEF Interrupt
  <1>11. CASE RolledBack
    BY <1>11, BackLocated
  <1>12. CASE RollBackFails
    BY <1>12, FailsLocated
  <1>13. CASE Diagnose
    BY <1>13, DiagnoseLocated
  <1>14. CASE Report
    BY <1>14, ReportLocated
  <1>15. CASE Exit
    BY <1>15, ExitLocated
  <1>16. CASE Crash
    BY <1>16, CrashLocated
  <1>17. CASE UNCHANGED vars
    BY <1>17 DEF vars, Located, HomeIsKnown, CarriedOnce, JournalIsLive, Unsettled, Publishing, Abandoned, Home,
                 Followed, FirstCommitted, FirstDisplaced, Carried, Live, Recorded, IsLeaked, Journal, Preparing
  <1>18. QED BY <1>1, <1>2, <1>3, <1>4, <1>5, <1>6, <1>7, <1>8, <1>9, <1>10, <1>11, <1>12, <1>13, <1>14, <1>15, <1>16,
                <1>17 DEF Next

(***************************************************************************)
(* What the attempt has said, and in which order.                          *)
(***************************************************************************)
LEMMA AppendShape ==
  ASSUME NEW S, NEW s \in Seq(S), NEW x \in S
  PROVE  \E n \in Nat :
           /\ n = Len(s) /\ DOMAIN s = 1..n /\ DOMAIN Append(s, x) = 1..(n + 1)
           /\ n + 1 \in 1..(n + 1) /\ Append(s, x)[n + 1] = x
           /\ \A i \in 1..n : Append(s, x)[i] = s[i] /\ i \in 1..(n + 1) /\ i < n + 1
           /\ \A i \in 1..(n + 1) : i = n + 1 \/ i \in 1..n
           /\ Last(Append(s, x)) = x /\ Append(s, x) # <<>>
PROOF
  <1>1. PICK n \in Nat : n = Len(s) /\ DOMAIN s = 1..n
    OBVIOUS
  <1>2. /\ DOMAIN Append(s, x) = 1..(n + 1) /\ Len(Append(s, x)) = n + 1 /\ Append(s, x)[n + 1] = x
        /\ \A i \in 1..n : Append(s, x)[i] = s[i]
    BY <1>1
  <1>3. /\ n + 1 \in 1..(n + 1) /\ \A i \in 1..n : i \in 1..(n + 1) /\ i < n + 1
        /\ \A i \in 1..(n + 1) : i = n + 1 \/ i \in 1..n
    BY <1>1
  <1>4. Last(Append(s, x)) = x /\ Append(s, x) # <<>>
    BY <1>2, <1>3 DEF Last
  <1>5. QED BY <1>1, <1>2, <1>3, <1>4

(* An event is written for the first time. *)
Writes(e) ==
  /\ e \in Events /\ e.code \notin {"foreign", "legacy"} /\ e \notin ToSet(flushed)
  /\ flushed' = Append(flushed, e)
  /\ \E p \in Places : JournalGrows(p, e)

LEMMA SaidMore ==
  ASSUME SaidSoFar, flushed' = flushed, attempt' = attempt, Said \subseteq Said'
  PROVE  SaidSoFar'
BY DEF SaidSoFar

LEMMA SaidGrows ==
  ASSUME TypeOK, SaidSoFar, NEW e \in Events, e.attempt = attempt, e.code \notin {"foreign", "legacy"},
         e.code \in Said', e.code \notin Said, Said \subseteq Said', attempt' = attempt,
         flushed' = Append(flushed, e)
  PROVE  SaidSoFar' /\ e \notin ToSet(flushed)
PROOF
  <1>1. PICK s \in Seq(Events), k \in Nat : s = flushed /\ k = attempt
    BY DEF TypeOK
  <1>2. PICK n \in Nat :
           /\ n = Len(s) /\ DOMAIN s = 1..n /\ DOMAIN Append(s, e) = 1..(n + 1)
           /\ n + 1 \in 1..(n + 1) /\ Append(s, e)[n + 1] = e
           /\ \A i \in 1..n : Append(s, e)[i] = s[i] /\ i \in 1..(n + 1)
           /\ \A i \in 1..(n + 1) : i = n + 1 \/ i \in 1..n
    BY AppendShape
  <1>3. \A a \in 1..n : /\ s[a].code \notin {"foreign", "legacy"} /\ s[a].attempt <= k
                        /\ s[a].attempt = k => s[a].code \in Said
    BY <1>1, <1>2 DEF SaidSoFar
  <1>4. k <= k
    BY <1>1
  <1>5. e \notin ToSet(flushed)
    BY <1>1, <1>2, <1>3 DEF ToSet
  <1>6. PICK t : t = flushed'
    OBVIOUS
  <1>7. ASSUME NEW a \in DOMAIN t
        PROVE  /\ t[a].code \notin {"foreign", "legacy"} /\ t[a].attempt <= k
               /\ t[a].attempt = k => t[a].code \in Said'
    <2>1. CASE a = n + 1
      BY <1>1, <1>2, <1>4, <1>6, <2>1
    <2>2. CASE a \in 1..n
      BY <1>1, <1>2, <1>3, <1>6, <2>2
    <2>3. QED BY <1>1, <1>2, <1>6, <2>1, <2>2
  <1>8. SaidSoFar'
    BY <1>1, <1>6, <1>7 DEF SaidSoFar
  <1>9. QED BY <1>5, <1>8

LEMMA EmitWrites ==
  ASSUME TypeOK, SaidSoFar, NEW at,
         NEW code \in {"attempt.started", "payload.prepared", "publication.started", "attempt.published"},
         NEW next, Emit(at, code, next), code \notin Said, Said \subseteq Said', pc' = next => code \in Said'
  PROVE  /\ SaidSoFar' /\ leaked' = leaked
         /\ \/ Writes(Event(attempt, code)) /\ pc' = next
            \/ JournalsStay /\ flushed' = flushed /\ pc' = "failing"
PROOF
  <1>1. attempt' = attempt /\ leaked' = leaked
    BY DEF Emit
  <1>2. CASE /\ fs' = Logged("extracted", Event(attempt, code))
             /\ flushed' = Append(flushed, Event(attempt, code)) /\ pc' = next
    <2>1. PICK e \in Events : e = Event(attempt, code)
      BY EventShape
    <2>2. e.attempt = attempt /\ e.code = code
      BY <2>1 DEF Event
    <2>3. fs' = Logged("extracted", e) /\ flushed' = Append(flushed, e)
      BY <1>2, <2>1
    <2>4. SaidSoFar' /\ e \notin ToSet(flushed)
      <3>1. e.code \notin {"foreign", "legacy"} /\ e.code \in Said' /\ e.code \notin Said
        BY <1>2, <2>2
      <3>2. QED BY <1>1, <2>2, <2>3, <3>1, SaidGrows
    <2>5. JournalGrows("extracted", e) /\ "extracted" \in Places
      BY <2>3, PlainFacts, JournalLogged
    <2>6. Writes(e)
      BY <2>2, <2>3, <2>4, <2>5 DEF Writes
    <2>7. QED BY <1>1, <1>2, <2>1, <2>4, <2>6
  <1>3. CASE pc' = "failing" /\ UNCHANGED <<fs, flushed>>
    <2>1. JournalsStay
      BY <1>3 DEF JournalsStay, Journal
    <2>2. QED BY <1>1, <1>3, <2>1, SaidMore
  <1>4. QED BY <1>2, <1>3 DEF Emit

LEMMA ReportWrites ==
  ASSUME TypeOK, SaidSoFar, Report
  PROVE  /\ SaidSoFar' /\ leaked' = leaked
         /\ Writes(Failure) \/ (JournalsStay /\ flushed' = flushed)
PROOF
  <1>1. pc = "report" /\ pc' = "exit" /\ attempt' = attempt /\ leaked' = leaked
    BY DEF Report
  <1>2. Said \subseteq Said' /\ "attempt.failed" \in Said' /\ "attempt.failed" \notin Said
    BY <1>1 DEF Said
  <1>3. CASE fs' = Logged(paths[JOURNAL], Failure) /\ flushed' = Append(flushed, Failure)
    <2>1. PICK e \in Events, p \in Places : e = Failure /\ p = paths[JOURNAL]
      <3>1. paths[JOURNAL] \in Places
        BY JournalIsRetained DEF TypeOK
      <3>2. QED BY <3>1, EventShape
    <2>2. e.attempt = attempt /\ e.code = "attempt.failed"
      BY <2>1 DEF Failure
    <2>3. fs' = Logged(p, e) /\ flushed' = Append(flushed, e)
      BY <1>3, <2>1
    <2>4. SaidSoFar' /\ e \notin ToSet(flushed)
      BY <1>1, <1>2, <2>2, <2>3, SaidGrows
    <2>5. JournalGrows(p, e)
      BY <2>3, PlainFacts, JournalLogged
    <2>6. Writes(e)
      BY <2>2, <2>3, <2>4, <2>5 DEF Writes
    <2>7. QED BY <1>1, <2>1, <2>4, <2>6
  <1>4. CASE UNCHANGED <<fs, flushed>>
    <2>1. JournalsStay
      BY <1>4 DEF JournalsStay, Journal
    <2>2. QED BY <1>1, <1>2, <1>4, <2>1, SaidMore
  <1>5. QED BY <1>3, <1>4 DEF Report

(* A list is another with one more element. *)
Longer(s, t, x, n) ==
  DOMAIN s = 1..n /\ DOMAIN t = 1..(n + 1) /\ t[n + 1] = x /\ \A i \in 1..n : t[i] = s[i]

LEMMA NextIndex ==
  ASSUME NEW n \in Nat
  PROVE  /\ n + 1 \in 1..(n + 1) /\ \A i \in 1..n : i \in 1..(n + 1) /\ i < n + 1
         /\ \A i \in 1..(n + 1) : i = n + 1 \/ i \in 1..n
OBVIOUS

LEMMA AppendLonger ==
  ASSUME NEW S, NEW s \in Seq(S), NEW x \in S
  PROVE  \E n \in Nat : Longer(s, Append(s, x), x, n)
PROOF
  <1>1. PICK n \in Nat : n = Len(s) /\ DOMAIN s = 1..n
    OBVIOUS
  <1>2. Longer(s, Append(s, x), x, n)
    BY <1>1 DEF Longer
  <1>3. QED BY <1>2

(* A journal in order stays in order when an event is written for the first *)
(* time, to it or to another.                                              *)
LEMMA OrderLonger ==
  ASSUME NEW s, NEW t, NEW n \in Nat, NEW j, NEW u, NEW m \in Nat, NEW e,
         Longer(s, t, e, n), Longer(j, u, e, m), Ordered(j, s),
         e.code \notin {"foreign", "legacy"}, e \notin ToSet(s)
  PROVE  Ordered(j, t) /\ Ordered(u, t)
PROOF
  <1>1. DOMAIN s = 1..n /\ DOMAIN t = 1..(n + 1) /\ t[n + 1] = e /\ \A i \in 1..n : t[i] = s[i]
    BY DEF Longer
  <1>2. DOMAIN j = 1..m /\ DOMAIN u = 1..(m + 1) /\ u[m + 1] = e /\ \A i \in 1..m : u[i] = j[i]
    BY DEF Longer
  <1>3. /\ \A i \in 1..n : i \in 1..(n + 1) /\ i < n + 1
        /\ n + 1 \in 1..(n + 1) /\ \A i \in 1..(n + 1) : i = n + 1 \/ i \in 1..n
    BY NextIndex
  <1>4. /\ \A i \in 1..m : i \in 1..(m + 1) /\ i < m + 1
        /\ m + 1 \in 1..(m + 1) /\ \A i \in 1..(m + 1) : i = m + 1 \/ i \in 1..m
    BY NextIndex
  <1>5. \A a \in 1..n : s[a] # e
    BY <1>1 DEF ToSet
  <1>6. \A i \in 1..m : j[i].code \in {"foreign", "legacy"} \/ \E a \in 1..n : s[a] = j[i]
    <2>1. \A i \in 1..m : j[i].code \in {"foreign", "legacy"} \/ j[i] \in ToSet(s)
      BY <1>2 DEF Ordered
    <2>2. \A y : y \in ToSet(s) <=> \E a \in 1..n : s[a] = y
      BY <1>1 DEF ToSet
    <2>3. QED BY <2>1, <2>2
  <1>7. \A i \in 1..m : j[i] # e
    BY <1>5, <1>6
  <1>8. \A i, k \in 1..m, a, b \in 1..n : i < k /\ j[i] = s[a] /\ j[k] = s[b] => a < b
    BY <1>1, <1>2 DEF Ordered
  <1>9. \A y : y \in ToSet(t) <=> \E a \in 1..(n + 1) : t[a] = y
    BY <1>1 DEF ToSet
  <1>10. \A i \in 1..m : j[i].code \in {"foreign", "legacy"} \/ j[i] \in ToSet(t)
    BY <1>1, <1>3, <1>6, <1>9
  <1>11. \A i, k \in 1..m, a, b \in 1..(n + 1) : i < k /\ j[i] = t[a] /\ j[k] = t[b] => a < b
    <2> SUFFICES ASSUME NEW i \in 1..m, NEW k \in 1..m, NEW a \in 1..(n + 1), NEW b \in 1..(n + 1),
                        i < k, j[i] = t[a], j[k] = t[b]
                 PROVE  a < b
      OBVIOUS
    <2>1. a \in 1..n /\ b \in 1..n
      BY <1>1, <1>3, <1>7
    <2>2. QED BY <1>1, <1>8, <2>1
  <1>12. Ordered(j, t)
    BY <1>1, <1>2, <1>10, <1>11 DEF Ordered
  <1>13. \A i \in 1..(m + 1) : u[i].code \in {"foreign", "legacy"} \/ u[i] \in ToSet(t)
    BY <1>1, <1>2, <1>3, <1>4, <1>9, <1>10
  <1>14. \A i, k \in 1..(m + 1), a, b \in 1..(n + 1) : i < k /\ u[i] = t[a] /\ u[k] = t[b] => a < b
    <2> SUFFICES ASSUME NEW i \in 1..(m + 1), NEW k \in 1..(m + 1), NEW a \in 1..(n + 1), NEW b \in 1..(n + 1),
                        i < k, u[i] = t[a], u[k] = t[b]
                 PROVE  a < b
      OBVIOUS
    <2>1. i \in 1..m
      <3>1. i # m + 1
        OBVIOUS
      <3>2. QED BY <1>4, <3>1
    <2>2. a \in 1..n
      BY <1>1, <1>2, <1>3, <1>7, <2>1
    <2>3. CASE k = m + 1
      <3>1. b = n + 1
        BY <1>1, <1>2, <1>3, <1>5, <2>3
      <3>2. QED BY <1>3, <2>2, <3>1
    <2>4. CASE k \in 1..m
      BY <1>2, <1>11, <2>1, <2>4
    <2>5. QED BY <1>4, <2>3, <2>4
  <1>15. Ordered(u, t)
    BY <1>1, <1>2, <1>13, <1>14 DEF Ordered
  <1>16. QED BY <1>12, <1>15

LEMMA OrderGrows ==
  ASSUME flushed \in Seq(Events), NEW j \in Seq(Events), InOrder(j), NEW e \in Events,
         e.code \notin {"foreign", "legacy"}, e \notin ToSet(flushed), flushed' = Append(flushed, e)
  PROVE  InOrder(j)' /\ InOrder(Append(j, e))'
PROOF
  <1>1. PICK n \in Nat : Longer(flushed, flushed', e, n)
    BY AppendLonger
  <1>2. PICK m \in Nat : Longer(j, Append(j, e), e, m)
    BY AppendLonger
  <1>3. PICK s, t, u : s = flushed /\ t = flushed' /\ u = Append(j, e)
    OBVIOUS
  <1>4. Longer(s, t, e, n) /\ Longer(j, u, e, m) /\ Ordered(j, s) /\ e \notin ToSet(s)
    BY <1>1, <1>2, <1>3 DEF InOrder
  <1>5. Ordered(j, t) /\ Ordered(u, t)
    BY <1>4, OrderLonger
  <1>6. QED BY <1>3, <1>5 DEF InOrder

LEMMA OrderWritten ==
  ASSUME TypeOK, JournalsInOrder, leaked' = leaked, NEW e, Writes(e)
  PROVE  JournalsInOrder'
PROOF
  <1>1. /\ flushed \in Seq(Events) /\ e \in Events /\ e.code \notin {"foreign", "legacy"}
        /\ e \notin ToSet(flushed) /\ flushed' = Append(flushed, e)
    BY DEF TypeOK, Writes
  <1>2. PICK place \in Places : JournalGrows(place, e)
    BY DEF Writes
  <1>3. ASSUME NEW p \in Places
        PROVE  InOrder(Journal(p))'
    <2>1. PICK j \in Seq(Events) : j = Journal(p)
      BY PlainFacts, JournalShape
    <2>2. InOrder(j)
      BY <2>1 DEF JournalsInOrder
    <2>3. InOrder(j)' /\ InOrder(Append(j, e))'
      BY <1>1, <2>2, OrderGrows
    <2>4. PICK k : k = Journal(p)'
      OBVIOUS
    <2>5. k = j \/ k = Append(j, e)
      BY <1>2, <2>1, <2>4 DEF JournalGrows
    <2>6. InOrder(k)'
      BY <2>3, <2>5
    <2>7. QED BY <2>4, <2>6 DEF InOrder
  <1>4. ASSUME NEW d \in leaked'
        PROVE  InOrder(d.kept[JOURNAL])'
    <2>1. d \in Directories /\ d \in leaked
      BY DEF TypeOK
    <2>2. PICK j \in Seq(Events) : j = d.kept[JOURNAL]
      BY <2>1, DirectoryShape, JournalIsRetained
    <2>3. InOrder(j)
      BY <2>1, <2>2 DEF JournalsInOrder
    <2>4. InOrder(j)'
      BY <1>1, <2>3, OrderGrows
    <2>5. QED BY <2>2, <2>4
  <1>5. QED BY <1>3, <1>4 DEF JournalsInOrder

(* Journals that only change places stay in order. *)
Shuffled == \A p \in Places : Journal(p)' = <<>> \/ \E q \in Places : Journal(p)' = Journal(q)

LEMMA FewInOrder ==
  /\ InOrder(<<>>)
  /\ \A e : e.code \in {"foreign", "legacy"} => InOrder(<<e>>)
PROOF
  <1>1. DOMAIN <<>> = {}
    OBVIOUS
  <1>2. \A e : DOMAIN <<e>> = {1} /\ <<e>>[1] = e
    OBVIOUS
  <1>3. ~(1 < 1)
    OBVIOUS
  <1>4. InOrder(<<>>)
    BY <1>1 DEF InOrder, Ordered
  <1>5. \A e : e.code \in {"foreign", "legacy"} => InOrder(<<e>>)
    BY <1>2, <1>3 DEF InOrder, Ordered
  <1>6. QED BY <1>4, <1>5

LEMMA OrderKept ==
  ASSUME JournalsInOrder, flushed' = flushed,
         \A p \in Places : \/ Journal(p)' = <<>>
                           \/ \E e : Journal(p)' = <<e>> /\ e.code \in {"foreign", "legacy"}
                           \/ \E q \in Places : Journal(p)' = Journal(q),
         \A d \in leaked' : d \in leaked \/ \E q \in Places : d.kept[JOURNAL] = Journal(q)
  PROVE  JournalsInOrder'
PROOF
  <1>1. \A j : InOrder(j) => InOrder(j)'
    BY DEF InOrder
  <1>2. ASSUME NEW p \in Places
        PROVE  InOrder(Journal(p))'
    <2>1. PICK j : j = Journal(p)'
      OBVIOUS
    <2>2. InOrder(j)
      BY <2>1, FewInOrder DEF JournalsInOrder
    <2>3. InOrder(j)'
      BY <1>1, <2>2
    <2>4. QED BY <2>1, <2>3 DEF InOrder
  <1>3. ASSUME NEW d \in leaked'
        PROVE  InOrder(d.kept[JOURNAL])'
    <2>1. PICK j : j = d.kept[JOURNAL]
      OBVIOUS
    <2>2. InOrder(j)
      BY <2>1 DEF JournalsInOrder
    <2>3. InOrder(j)'
      BY <1>1, <2>2
    <2>4. QED BY <2>1, <2>3
  <1>4. QED BY <1>2, <1>3 DEF JournalsInOrder

LEMMA ShuffledOrder ==
  ASSUME JournalsInOrder, flushed' = flushed, leaked' = leaked, Shuffled
  PROVE  JournalsInOrder'
BY OrderKept DEF Shuffled

LEMMA TravelsShuffled ==
  ASSUME NEW from \in Places, NEW to \in Places, JournalTravels(from, to)
  PROVE  Shuffled
BY DEF JournalTravels, Shuffled

LEMMA MovesShuffled ==
  ASSUME TypeOK, RenamesInOrder, Rename \/ RollBack
  PROVE  Shuffled
PROOF
  <1>1. JournalsStay => Shuffled
    BY DEF JournalsStay, Shuffled
  <1>2. "extracted" \in Places /\ "copy" \in Places /\ "payload" \in Places /\ "previous" \in Places
        /\ "output" \in Places /\ "previous copy" \in Places
    BY PlacesNamed
  <1>3. ASSUME NEW from \in Places, NEW to \in Places, from # to, DirectoryMoves(from, to)
        PROVE  Shuffled
    BY <1>3, JournalMoved, TravelsShuffled
  <1>4. CASE Rename
    <2>1. RenamesFirstOut \/ RenamesSecondOut \/ RenamesFile \/ RenamesFirstIn \/ RenamesSecondIn
      BY <1>4, RenameSteps
    <2>2. CASE RenamesFile
      <3>1. pc = "carry"
        BY <2>2 DEF RenamesFile
      <3>2. JournalTravels("previous", "payload") \/ JournalsStay
        BY <1>4, <3>1, CarryStep
      <3>3. QED BY <1>1, <1>2, <3>2, TravelsShuffled
    <2>3. QED BY <1>2, <1>3, <2>1, <2>2 DEF RenamesFirstOut, RenamesSecondOut, RenamesFirstIn, RenamesSecondIn
  <1>5. CASE RollBack
    <2>1. UnwindsFirstIn \/ UnwindsFile \/ UnwindsFirstOut \/ UnwindsSecondOut
      BY <1>5, RollBackSteps
    <2>2. CASE UnwindsFile
      <3>1. JournalTravels("payload", "previous") \/ JournalsStay
        BY <1>5, <2>2, UnwindPaths
      <3>2. QED BY <1>1, <1>2, <3>1, TravelsShuffled
    <2>3. QED BY <1>2, <1>3, <2>1, <2>2 DEF UnwindsFirstIn, UnwindsFirstOut, UnwindsSecondOut
  <1>6. QED BY <1>4, <1>5

(* What the attempt has said, and every journal, after each step. *)
SayingStays == SaidSoFar' /\ JournalsInOrder'

LEMMA SayingGrows ==
  ASSUME TypeOK, SaidSoFar, JournalsInOrder, NEW at,
         NEW code \in {"attempt.started", "payload.prepared", "publication.started", "attempt.published"},
         NEW next, Emit(at, code, next), code \notin Said, Said \subseteq Said', pc' = next => code \in Said'
  PROVE  SayingStays
PROOF
  <1>1. /\ SaidSoFar' /\ leaked' = leaked
        /\ Writes(Event(attempt, code)) \/ (JournalsStay /\ flushed' = flushed)
    BY EmitWrites
  <1>2. CASE Writes(Event(attempt, code))
    BY <1>1, <1>2, OrderWritten DEF SayingStays
  <1>3. CASE JournalsStay /\ flushed' = flushed
    <2>1. Shuffled
      BY <1>3 DEF JournalsStay, Shuffled
    <2>2. QED BY <1>1, <1>3, <2>1, ShuffledOrder DEF SayingStays
  <1>4. QED BY <1>1, <1>2, <1>3

LEMMA LeavingOrder ==
  ASSUME TypeOK, JournalsInOrder, fs' = Emptied, flushed' = flushed, leaked' \subseteq leaked \cup Held
  PROVE  JournalsInOrder'
PROOF
  <1>1. \A p \in Places : fs'[p] = IF p \in Workspaces THEN Missing ELSE fs[p]
    BY PlainFacts, EmptiedShape
  <1>2. \A p \in Places : Journal(p)' = <<>> \/ \E q \in Places : Journal(p)' = Journal(q)
    BY <1>1 DEF Journal
  <1>3. \A d \in Held : \E q \in Places : d.kept[JOURNAL] = Journal(q)
    <2>1. Workspaces \subseteq Places
      BY DEF Places
    <2>2. QED BY <2>1 DEF Held, Journal
  <1>4. QED BY <1>2, <1>3, OrderKept

LEMMA SayingStep ==
  ASSUME TypeOK, RenamesInOrder, SaidSoFar, JournalsInOrder, [Next]_vars
  PROVE  SayingStays
PROOF
  <1>1. ASSUME flushed' = flushed, leaked' = leaked, Shuffled, attempt' = attempt, Said \subseteq Said'
        PROVE  SayingStays
    BY <1>1, SaidMore, ShuffledOrder DEF SayingStays
  <1>2. JournalsStay => Shuffled
    BY DEF JournalsStay, Shuffled
  <1>3. fs' = fs => Shuffled
    BY DEF Journal, Shuffled
  <1>4. ASSUME NEW place \in Places, JournalReset(place, <<>>)
        PROVE  Shuffled
    BY <1>4 DEF JournalReset, Shuffled
  <1>5. "payload" \in Places /\ "output" \in Places
    BY PlacesNamed
  <1>6. CASE Start
    <2>1. attempt' = attempt + 1 /\ pc' = "begin" /\ flushed' = flushed /\ leaked' = leaked
      BY <1>6 DEF Start
    <2>2. Shuffled
      BY <1>4, <1>5, <1>6, StartJournals
    <2>3. SaidSoFar'
      <3>1. PICK k \in Nat, s \in Seq(Events) : k = attempt /\ s = flushed
        BY DEF TypeOK
      <3>2. \A a \in DOMAIN s : s[a] \in Events
        BY <3>1
      <3>3. \A a \in DOMAIN s : s[a].attempt \in Nat
        BY <3>2 DEF Events
      <3>4. \A a \in DOMAIN s : s[a].code \notin {"foreign", "legacy"} /\ s[a].attempt <= k
        BY <3>1 DEF SaidSoFar
      <3>5. \A a \in DOMAIN s : s[a].attempt <= k + 1 /\ s[a].attempt # k + 1
        BY <3>1, <3>3, <3>4
      <3>6. QED BY <2>1, <3>1, <3>4, <3>5 DEF SaidSoFar
    <2>4. QED BY <2>1, <2>2, <2>3, ShuffledOrder DEF SayingStays
  <1>7. CASE Emit("begin", "attempt.started", "build")
    <2>1. pc = "begin" /\ pc' \in {"build", "failing"}
      BY <1>7 DEF Emit
    <2>2. "attempt.started" \notin Said /\ Said \subseteq Said' /\ (pc' = "build" => "attempt.started" \in Said')
      BY <2>1 DEF Said
    <2>3. QED BY <1>7, <2>2, SayingGrows
  <1>8. CASE Emit("prepared", "payload.prepared", "secondary")
    <2>1. pc = "prepared" /\ pc' \in {"secondary", "failing"}
      BY <1>8 DEF Emit
    <2>2. "payload.prepared" \notin Said /\ Said \subseteq Said' /\ (pc' = "secondary" => "payload.prepared" \in Said')
      BY <2>1 DEF Said
    <2>3. QED BY <1>8, <2>2, SayingGrows
  <1>9. CASE Emit("announce", "publication.started", "displace")
    <2>1. pc = "announce" /\ pc' \in {"displace", "failing"}
      BY <1>9 DEF Emit
    <2>2. "publication.started" \notin Said /\ Said \subseteq Said'
          /\ (pc' = "displace" => "publication.started" \in Said')
      BY <2>1 DEF Said
    <2>3. QED BY <1>9, <2>2, SayingGrows
  <1>10. CASE Emit("complete", "attempt.published", "exit")
    <2>1. pc = "complete" /\ pc' \in {"exit", "failing"}
      BY <1>10 DEF Emit
    <2>2. "attempt.published" \notin Said /\ Said \subseteq Said' /\ (pc' = "exit" => "attempt.published" \in Said')
      BY <2>1 DEF Said
    <2>3. QED BY <1>10, <2>2, SayingGrows
  <1>11. ASSUME NEW collides \in BOOLEAN, Build(collides)
         PROVE  SayingStays
    <2>1. pc = "build" /\ pc' = "prepared" /\ flushed' = flushed /\ leaked' = leaked /\ attempt' = attempt
      BY <1>11 DEF Build
    <2>2. Said \subseteq Said'
      BY <2>1 DEF Said
    <2>3. JournalReset("payload", IF collides THEN <<Event(attempt, "foreign")>> ELSE <<>>)
      BY <1>11, BuildJournals
    <2>4. Event(attempt, "foreign").code = "foreign"
      BY DEF Event
    <2>5. PICK e : e = Event(attempt, "foreign")
      OBVIOUS
    <2>6. Journal("payload")' = <<>> \/ (Journal("payload")' = <<e>> /\ e.code \in {"foreign", "legacy"})
      BY <2>3, <2>4, <2>5 DEF JournalReset
    <2>7. \A p \in Places : \/ Journal(p)' = <<>>
                            \/ \E f : Journal(p)' = <<f>> /\ f.code \in {"foreign", "legacy"}
                            \/ \E q \in Places : Journal(p)' = Journal(q)
      <3> SUFFICES ASSUME NEW p \in Places
                   PROVE  \/ Journal(p)' = <<>>
                          \/ \E f : Journal(p)' = <<f>> /\ f.code \in {"foreign", "legacy"}
                          \/ \E q \in Places : Journal(p)' = Journal(q)
        OBVIOUS
      <3>1. CASE p = "payload"
        BY <2>6, <3>1
      <3>2. CASE p # "payload"
        BY <2>3, <3>2 DEF JournalReset
      <3>3. QED BY <3>1, <3>2
    <2>8. JournalsInOrder'
      BY <2>1, <2>7, OrderKept
    <2>9. QED BY <2>1, <2>2, <2>8, SaidMore DEF SayingStays
  <1>12. ASSUME NEW staged \in {0, attempt}, BuildFails(staged)
         PROVE  SayingStays
    <2>1. pc = "build" /\ pc' = "failing" /\ flushed' = flushed /\ leaked' = leaked /\ attempt' = attempt
      BY <1>12 DEF BuildFails
    <2>2. Said \subseteq Said'
      BY <2>1 DEF Said
    <2>3. Shuffled
      BY <1>4, <1>5, <1>12, BuildFailsJournals
    <2>4. QED BY <1>1, <2>1, <2>2, <2>3
  <1>13. CASE WriteSecondary
    <2>1. /\ pc = "secondary" /\ pc' \in {"announce", "failing"}
          /\ flushed' = flushed /\ leaked' = leaked /\ attempt' = attempt
      BY <1>13 DEF WriteSecondary
    <2>2. Said \subseteq Said'
      BY <2>1 DEF Said
    <2>3. Shuffled
      BY <1>2, <1>4, <1>5, <1>13, WriteSecondaryJournals
    <2>4. QED BY <1>1, <2>1, <2>2, <2>3
  <1>14. CASE Reject \/ Skip \/ PublishFails \/ Published \/ RolledBack \/ RollBackFails \/ Interrupt
    <2>1. fs' = fs /\ flushed' = flushed /\ leaked' = leaked /\ attempt' = attempt
      BY <1>14 DEF Reject, Skip, PublishFails, Published, RolledBack, RollBackFails, Interrupt
    <2>2. /\ pc \in {"prepared", "displace", "carry", "commit", "rollback", "returned"}
          /\ pc' \in {"failing", "commit", "rollback", "complete"}
      BY <1>14 DEF Reject, Skip, PublishFails, Published, RolledBack, RollBackFails, Interrupt, Steps
    <2>3. Said \subseteq Said'
      BY <2>2 DEF Said
    <2>4. QED BY <1>1, <1>3, <2>1, <2>3
  <1>15. CASE Rename \/ RollBack
    <2>1. flushed' = flushed /\ leaked' = leaked /\ attempt' = attempt /\ pc' = pc
      BY <1>15 DEF Rename, RollBack
    <2>2. Said \subseteq Said'
      BY <2>1 DEF Said
    <2>3. QED BY <1>1, <1>15, <2>1, <2>2, MovesShuffled
  <1>16. CASE Record
    <2>1. fs' = fs /\ flushed' = flushed /\ leaked' = leaked /\ attempt' = attempt
      BY <1>16 DEF Record
    <2>2. pc \in {"displace", "carry", "commit"} /\ pc' \in {"displace", "carry", "commit", "returned"}
      <3>1. RecordsFirstOut \/ RecordsSecondOut \/ RecordsFile \/ RecordsFirstIn \/ RecordsLast
        BY <1>16, RecordSteps
      <3>2. QED BY <3>1 DEF RecordsFirstOut, RecordsSecondOut, RecordsFile, RecordsFirstIn, RecordsLast
    <2>3. Said \subseteq Said'
      BY <2>2 DEF Said
    <2>4. QED BY <1>1, <1>3, <2>1, <2>3
  <1>17. CASE Diagnose
    <2>1. pc = "failing" /\ pc' = "report" /\ flushed' = flushed /\ leaked' = leaked /\ attempt' = attempt
      BY <1>17 DEF Diagnose
    <2>2. Said \subseteq Said'
      BY <2>1 DEF Said
    <2>3. Shuffled
      BY <1>2, <1>17, DiagnoseJournals
    <2>4. QED BY <1>1, <2>1, <2>2, <2>3
  <1>18. CASE Report
    <2>1. /\ SaidSoFar' /\ leaked' = leaked
          /\ Writes(Failure) \/ (JournalsStay /\ flushed' = flushed)
      BY <1>18, ReportWrites
    <2>2. CASE Writes(Failure)
      BY <2>1, <2>2, OrderWritten DEF SayingStays
    <2>3. CASE JournalsStay /\ flushed' = flushed
      BY <1>2, <2>1, <2>3, ShuffledOrder DEF SayingStays
    <2>4. QED BY <2>1, <2>2, <2>3
  <1>19. CASE Exit \/ Crash
    <2>1. /\ pc' = "idle" /\ fs' = Emptied /\ flushed' = flushed /\ attempt' = attempt
          /\ leaked' \subseteq leaked \cup Held
      BY <1>19 DEF Exit, Crash
    <2>2. Said \subseteq Said'
      BY <2>1 DEF Said
    <2>3. QED BY <2>1, <2>2, SaidMore, LeavingOrder DEF SayingStays
  <1>20. CASE UNCHANGED vars
    <2>1. fs' = fs /\ flushed' = flushed /\ leaked' = leaked /\ attempt' = attempt /\ pc' = pc
      BY <1>20 DEF vars
    <2>2. Said \subseteq Said'
      BY <2>1 DEF Said
    <2>3. QED BY <1>1, <1>3, <2>1, <2>2
  <1>21. QED BY <1>6, <1>7, <1>8, <1>9, <1>10, <1>11, <1>12, <1>13, <1>14, <1>15, <1>16, <1>17, <1>18, <1>19, <1>20
         DEF Next

(***************************************************************************)
(* The last event and the last good payload.                               *)
(***************************************************************************)
LEMMA EmitLast ==
  ASSUME TypeOK, NEW at, NEW code \in {"attempt.started", "payload.prepared", "publication.started",
                                       "attempt.published"}, NEW next, Emit(at, code, next)
  PROVE  /\ \/ pc' = next /\ flushed' # <<>> /\ Last(flushed') = Event(attempt, code)
            \/ pc' = "failing" /\ flushed' = flushed
         /\ pc = at /\ UNCHANGED <<attempt, good, stranded>> /\ flags'.published = flags.published
         /\ Event(attempt, code).code = code /\ ~Event(attempt, code).preserved
         /\ Event(attempt, code).attempt = attempt
PROOF
  <1>1. Event(attempt, code) \in Events /\ flushed \in Seq(Events) /\ flags \in Flags
    BY EventShape DEF TypeOK
  <1>2. PICK s \in Seq(Events), e \in Events : s = flushed /\ e = Event(attempt, code)
    BY <1>1
  <1>3. Append(s, e) # <<>> /\ Last(Append(s, e)) = e
    BY AppendShape
  <1>4. flags'.published = flags.published
    BY <1>1 DEF Emit, Flags
  <1>5. Event(attempt, code).code = code /\ ~Event(attempt, code).preserved /\ Event(attempt, code).attempt = attempt
    BY DEF Event
  <1>6. \/ pc' = next /\ flushed' # <<>> /\ Last(flushed') = Event(attempt, code)
        \/ pc' = "failing" /\ flushed' = flushed
    BY <1>2, <1>3 DEF Emit
  <1>7. pc = at /\ UNCHANGED <<attempt, good, stranded>>
    BY DEF Emit
  <1>8. QED BY <1>4, <1>5, <1>6, <1>7

LEMMA LastStep ==
  ASSUME TypeOK, RenamesInOrder, LastIsTrue, [Next]_vars
  PROVE  LastIsTrue'
PROOF
  <1> USE DEF LastIsTrue, Unsettled, Publishing, Preparing
  <1>1. CASE Start
    <2>1. /\ attempt' = attempt + 1 /\ pc' = "begin" /\ UNCHANGED <<good, stranded, flushed>>
          /\ attempt \in Nat /\ good \in Nat /\ good <= attempt
      BY <1>1 DEF Start, TypeOK
    <2>2. good # attempt + 1
      BY <2>1
    <2>3. QED BY <2>1, <2>2
  <1>2. CASE Emit("begin", "attempt.started", "build")
    <2>1. PICK e : e = Event(attempt, "attempt.started")
      OBVIOUS
    <2>2. /\ \/ pc' = "build" /\ flushed' # <<>> /\ Last(flushed') = e
             \/ pc' = "failing" /\ flushed' = flushed
          /\ pc = "begin" /\ UNCHANGED <<attempt, good, stranded>> /\ flags'.published = flags.published
          /\ e.code = "attempt.started" /\ ~e.preserved /\ e.attempt = attempt
      BY <1>2, <2>1, EmitLast
    <2>3. QED BY <2>1, <2>2
  <1>3. CASE Emit("prepared", "payload.prepared", "secondary")
    <2>1. PICK e : e = Event(attempt, "payload.prepared")
      OBVIOUS
    <2>2. /\ \/ pc' = "secondary" /\ flushed' # <<>> /\ Last(flushed') = e
             \/ pc' = "failing" /\ flushed' = flushed
          /\ pc = "prepared" /\ UNCHANGED <<attempt, good, stranded>> /\ flags'.published = flags.published
          /\ e.code = "payload.prepared" /\ ~e.preserved /\ e.attempt = attempt
      BY <1>3, <2>1, EmitLast
    <2>3. QED BY <2>1, <2>2
  <1>4. CASE Emit("announce", "publication.started", "displace")
    <2>1. PICK e : e = Event(attempt, "publication.started")
      OBVIOUS
    <2>2. /\ \/ pc' = "displace" /\ flushed' # <<>> /\ Last(flushed') = e
             \/ pc' = "failing" /\ flushed' = flushed
          /\ pc = "announce" /\ UNCHANGED <<attempt, good, stranded>> /\ flags'.published = flags.published
          /\ e.code = "publication.started" /\ ~e.preserved /\ e.attempt = attempt
      BY <1>4, <2>1, EmitLast
    <2>3. QED BY <2>1, <2>2
  <1>5. CASE Emit("complete", "attempt.published", "exit")
    <2>1. PICK e : e = Event(attempt, "attempt.published")
      OBVIOUS
    <2>2. /\ \/ pc' = "exit" /\ flushed' # <<>> /\ Last(flushed') = e
             \/ pc' = "failing" /\ flushed' = flushed
          /\ pc = "complete" /\ UNCHANGED <<attempt, good, stranded>> /\ flags'.published = flags.published
          /\ e.code = "attempt.published" /\ ~e.preserved /\ e.attempt = attempt
      BY <1>5, <2>1, EmitLast
    <2>3. QED BY <2>1, <2>2
  <1>6. ASSUME NEW collides \in BOOLEAN, Build(collides)
        PROVE  LastIsTrue'
    <2>1. pc = "build" /\ pc' = "prepared" /\ UNCHANGED <<attempt, good, stranded, flushed>>
      BY <1>6 DEF Build
    <2>2. QED BY <2>1
  <1>7. ASSUME NEW staged \in {0, attempt}, BuildFails(staged)
        PROVE  LastIsTrue'
    <2>1. pc = "build" /\ pc' = "failing" /\ UNCHANGED <<attempt, good, stranded, flushed>>
      BY <1>7 DEF BuildFails
    <2>2. QED BY <2>1
  <1>8. CASE Reject
    BY <1>8 DEF Reject
  <1>9. CASE WriteSecondary
    <2>1. pc = "secondary" /\ pc' \in {"announce", "failing"} /\ UNCHANGED <<attempt, good, stranded, flushed>>
      BY <1>9 DEF WriteSecondary
    <2>2. QED BY <2>1
  <1>10. CASE Rename
    <2>1. UNCHANGED <<pc, attempt, flags, good, stranded, flushed>>
      BY <1>10 DEF Rename
    <2>2. QED BY <2>1
  <1>11. CASE Record
    <2>1. UNCHANGED <<attempt, flags, flushed>>
      BY <1>11 DEF Record
    <2>2. \/ /\ pc \in {"displace", "carry", "commit"} /\ pc' \in {"displace", "carry", "commit"}
             /\ UNCHANGED <<good, stranded>>
          \/ pc = "commit" /\ pc' = "returned" /\ good' = attempt
      <3>1. RecordsFirstOut \/ RecordsSecondOut \/ RecordsFile \/ RecordsFirstIn \/ RecordsLast
        BY <1>11, RecordSteps
      <3>2. QED BY <3>1 DEF RecordsFirstOut, RecordsSecondOut, RecordsFile, RecordsFirstIn, RecordsLast
    <2>3. /\ Event(attempt, "publication.started").code = "publication.started"
          /\ ~Event(attempt, "publication.started").preserved
      BY DEF Event
    <2>4. QED BY <2>1, <2>2, <2>3
  <1>12. CASE Skip
    BY <1>12 DEF Skip
  <1>13. CASE PublishFails
    BY <1>13 DEF PublishFails, Steps
  <1>14. CASE Interrupt
    <2>1. /\ stranded' = TRUE /\ UNCHANGED <<attempt, flags, good, flushed>>
          /\ \/ pc \in {"displace", "carry", "commit"} /\ pc' = "rollback"
             \/ pc' = "failing"
      BY <1>14 DEF Interrupt
    <2>2. QED BY <2>1
  <1>15. CASE Published
    <2>1. /\ pc = "returned" /\ pc' = "complete" /\ UNCHANGED <<attempt, good, stranded, flushed>>
          /\ flags' = [flags EXCEPT !.published = TRUE] /\ flags \in Flags
      BY <1>15 DEF Published, TypeOK
    <2>2. flags'.published
      BY <2>1 DEF Flags
    <2>3. QED BY <2>1, <2>2
  <1>16. CASE RollBack
    <2>1. UNCHANGED <<pc, attempt, flags, good, stranded, flushed>>
      BY <1>16 DEF RollBack
    <2>2. QED BY <2>1
  <1>17. CASE RolledBack
    BY <1>17 DEF RolledBack
  <1>18. CASE RollBackFails
    <2>1. pc' = "failing" /\ stranded' = TRUE
      BY <1>18 DEF RollBackFails
    <2>2. QED BY <2>1
  <1>19. CASE Diagnose
    <2>1. /\ pc = "failing" /\ pc' = "report" /\ UNCHANGED <<attempt, good, stranded, flushed>>
          /\ flags' = flags \/ flags' = [flags EXCEPT !.noted = TRUE]
          /\ flags \in Flags
      BY <1>19 DEF Diagnose, TypeOK
    <2>2. flags'.published = flags.published
      BY <2>1 DEF Flags
    <2>3. QED BY <2>1, <2>2
  <1>20. CASE Report
    <2>1. pc = "report" /\ pc' = "exit" /\ UNCHANGED <<attempt, flags, good, stranded>>
      BY <1>20 DEF Report
    <2>2. CASE flushed' = flushed
      BY <2>1, <2>2
    <2>3. CASE flushed' = Append(flushed, Failure)
      <3>1. PICK s \in Seq(Events), e \in Events : s = flushed /\ e = Failure
        BY EventShape DEF TypeOK
      <3>2. Append(s, e) # <<>> /\ Last(Append(s, e)) = e
        BY AppendShape
      <3>3. flushed' # <<>> /\ Last(flushed') = e
        BY <2>3, <3>1, <3>2
      <3>4. e.code = "attempt.failed" /\ e.attempt = attempt /\ (e.preserved => ~flags.published)
        BY <3>1 DEF Failure
      <3>5. QED BY <2>1, <3>3, <3>4
    <2>4. QED BY <1>20, <2>2, <2>3 DEF Report
  <1>21. CASE Exit
    BY <1>21 DEF Exit
  <1>22. CASE Crash
    BY <1>22 DEF Crash
  <1>23. CASE UNCHANGED vars
    BY <1>23 DEF vars
  <1> HIDE DEF LastIsTrue
  <1>24. QED BY <1>1, <1>2, <1>3, <1>4, <1>5, <1>6, <1>7, <1>8, <1>9, <1>10, <1>11, <1>12, <1>13, <1>14, <1>15, <1>16,
                <1>17, <1>18, <1>19, <1>20, <1>21, <1>22, <1>23 DEF Next

LEMMA InitHistory == Init => HistoryStays
PROOF
  <1> SUFFICES ASSUME Init
               PROVE  HistoryStays
    OBVIOUS
  <1>1. /\ flushed = <<>> /\ leaked = {} /\ pc = "idle" /\ good = attempt /\ moved = NoMove
        /\ DOMAIN flushed = {}
    BY DEF Init
  <1>2. ~Unsettled /\ ~Preparing
    BY <1>1 DEF Unsettled, Publishing, Preparing
  <1>3. SaidSoFar /\ LastIsTrue
    BY <1>1, <1>2 DEF SaidSoFar, LastIsTrue
  <1>4. HomeIsKnown /\ CarriedOnce /\ JournalIsLive
    BY <1>1, <1>2 DEF HomeIsKnown, CarriedOnce, JournalIsLive, Recorded
  <1>5. ASSUME NEW p \in Places
        PROVE  Journal(p) = <<>>
    <2>1. "preparation.log" # JOURNAL
      BY DEF JOURNAL
    <2>2. \A payload, manifest : /\ Directory(payload, manifest).kept = [name \in Retained |-> <<>>]
                                 /\ Directory(payload, manifest).kept[JOURNAL] = <<>>
      BY JournalIsRetained DEF Directory
    <2>3. CASE fs = [q \in Places |-> Missing]
      BY <2>3 DEF Journal
    <2>4. CASE fs = Earlier
      <3>1. \A q \in Places : fs[q] = IF q = "copy" THEN IF Secondary THEN Directory(1, 1) ELSE Missing
                                      ELSE IF q = "extracted" THEN Legacy ELSE Missing
        BY <2>4, PlacesNamed DEF Earlier, Legacy
      <3>2. Legacy.kept = [Directory(1, 1).kept EXCEPT !["preparation.log"] = <<Event(1, "legacy")>>]
        BY DEF Legacy, Directory
      <3>3. Legacy.kept[JOURNAL] = <<>>
        BY <2>1, <2>2, <3>2, JournalIsRetained
      <3>4. QED BY <2>2, <3>1, <3>3 DEF Journal
    <2>5. QED BY <2>3, <2>4 DEF Init
  <1>6. JournalsInOrder
    BY <1>1, <1>5, FewInOrder DEF JournalsInOrder
  <1>7. QED BY <1>3, <1>4, <1>6 DEF HistoryStays

HistoryInv == Inv /\ HistoryStays

LEMMA HistoryInvHolds == Spec => []HistoryInv
PROOF
  <1>1. Init => HistoryInv
    BY InitType, InitPromise, InitHistory DEF HistoryInv, Inv
  <1>2. HistoryInv /\ [Next]_vars => HistoryInv'
    <2> SUFFICES ASSUME HistoryInv, [Next]_vars
                 PROVE  HistoryInv'
      OBVIOUS
    <2>1. /\ TypeOK /\ RenamesInOrder /\ RecoveryIsLast /\ SaidSoFar /\ JournalsInOrder /\ LastIsTrue
          /\ interrupted \/ Located
      BY DEF HistoryInv, HistoryStays, Inv, PromiseIsKept, Located
    <2>2. Inv'
      BY TypeStep, OrderStep, CopyStep, RecoveryStep, StagedStep, OldStep, WholeStep
         DEF HistoryInv, Inv, PromiseIsKept, OldStays
    <2>3. SaidSoFar' /\ JournalsInOrder'
      BY <2>1, SayingStep DEF SayingStays
    <2>4. LastIsTrue'
      BY <2>1, LastStep
    <2>5. interrupted => interrupted'
      <3> USE DEF publishing
      <3>1. CASE \E collides \in BOOLEAN : Build(collides)
        BY <3>1 DEF Build
      <3>2. CASE \E staged \in {0, attempt} : BuildFails(staged)
        BY <3>2 DEF BuildFails
      <3>3. CASE UNCHANGED vars
        BY <3>3 DEF vars
      <3>4. QED BY <3>1, <3>2, <3>3 DEF Next, Start, Emit, Reject, WriteSecondary, Rename, Record, Skip, PublishFails,
                   Interrupt, Published, RollBack, RolledBack, RollBackFails, Diagnose, Report, Exit, Crash
    <2>6. interrupted' \/ Located'
      BY <2>1, <2>5, LocationStep
    <2>7. QED BY <2>2, <2>3, <2>4, <2>6 DEF HistoryInv, HistoryStays, Located
  <1>3. QED BY <1>1, <1>2, PTL DEF Spec

(* Every event that was ever written can still be read after any number of *)
(* failed, crashed and published attempts, and each journal tells the       *)
(* events in the order of writing; the last one tells what became of the    *)
(* payload.  Publishing moves the live journal three times, and may stop    *)
(* between any two of them.                                                *)
THEOREM HistoryStaysTrue == Spec => []HistoryIsTrue
PROOF
  <1>1. HistoryInv => HistoryIsTrue
    <2> SUFFICES ASSUME HistoryInv
                 PROVE  HistoryKept /\ JournalTellsTruth
      BY DEF HistoryIsTrue
    <2>1. /\ TypeOK /\ OldIsInPlace /\ JournalsInOrder /\ LastIsTrue /\ RenamesInOrder
          /\ interrupted \/ Located
      BY DEF HistoryInv, HistoryStays, Inv, PromiseIsKept, Located
    <2>2. \A e : e \notin ToSet(<<>>)
      BY DEF ToSet
    <2>3. ASSUME NEW a \in DOMAIN flushed, ~interrupted
          PROVE  \E d \in Everything : flushed[a] \in ToSet(d.kept[JOURNAL])
      <3>1. Recorded(Live)
        BY <2>1, <2>3 DEF Located, JournalIsLive
      <3>2. Live \subseteq Places
        <4>1. {"extracted", "previous", "payload"} \subseteq Places
          BY PlacesNamed
        <4>2. ASSUME Unsettled
              PROVE  Live \subseteq Places
          <5>1. Home \in NearPlaces
            BY <2>1, <2>3, <4>2, UnsettledNow DEF Located
          <5>2. QED BY <4>1, <5>1 DEF Live, NearPlaces
        <4>3. ASSUME ~Unsettled, pc # "idle", ~Abandoned
              PROVE  Live \subseteq Places
          <5>1. Home = "extracted"
            BY <2>1, <2>3, <4>3, SettledNow DEF Located
          <5>2. QED BY <4>1, <5>1 DEF Live
        <4>4. QED BY <4>1, <4>2, <4>3 DEF Live
      <3>3. CASE IsLeaked(flushed[a])
        BY <3>3 DEF IsLeaked, Everything
      <3>4. ASSUME NEW p \in Places, flushed[a] \in ToSet(Journal(p))
            PROVE  \E d \in Everything : flushed[a] \in ToSet(d.kept[JOURNAL])
        BY <2>2, <3>4 DEF Journal, Everything
      <3>5. QED BY <3>1, <3>2, <3>3, <3>4 DEF Recorded
    <2>4. ASSUME NEW d \in Everything
          PROVE  InOrder(d.kept[JOURNAL])
      <3>1. CASE d \in leaked
        BY <2>1, <3>1 DEF JournalsInOrder
      <3>2. ASSUME NEW p \in Places, d = fs[p], d # Missing
            PROVE  InOrder(d.kept[JOURNAL])
        BY <2>1, <3>2 DEF JournalsInOrder, Journal
      <3>3. QED BY <3>1, <3>2 DEF Everything
    <2>5. HistoryKept
      BY <2>3, <2>4 DEF HistoryKept, InOrder, Ordered
    <2>6. JournalTellsTruth
      <3> SUFFICES ASSUME pc = "idle", ~stranded, flushed # <<>>
                   PROVE  /\ Last(flushed).code = "attempt.published" => Payload("extracted") = Last(flushed).attempt
                          /\ Last(flushed).preserved => Payload("extracted") = good /\ good # Last(flushed).attempt
        BY DEF JournalTellsTruth
      <3>1. "extracted" \in Outputs /\ ~Unsettled
        BY OutputsShape DEF Unsettled, Publishing
      <3>2. Payload("extracted") = good
        BY <2>1, <3>1 DEF OldIsInPlace
      <3>3. QED BY <2>1, <3>2 DEF LastIsTrue
    <2>7. QED BY <2>5, <2>6
  <1>2. QED BY <1>1, HistoryInvHolds, PTL

=============================================================================
