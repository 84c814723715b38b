---------------------- MODULE IntegerParametersProofs ----------------------
(***************************************************************************)
(* The integer parameters never answer a stale read, for every set of      *)
(* parameters and values and every depth of groups.                        *)
(***************************************************************************)
EXTENDS IntegerParameters, SaveJournalProofs

LEMMA PlainIntegers == NotSaved \notin Entries(Integers)
BY ParametersAssumption, SentinelsDiffer DEF Plain, Entries

(* What the type invariant says, in the form the lemmas on stores want. *)
LEMMA Shape ==
  ASSUME TypeOK
  PROVE  /\ ints \in Stores(Parameters, Integers)
         /\ truth \in TruthTables(Parameters, Integers)
         /\ Len(truth) = Depth(ints) + 1 /\ Depth(ints) <= MaxDepth
         /\ Depth(ints) \in Nat
BY StoreShape DEF TypeOK

-----------------------------------------------------------------------------
LEMMA InitType == Init => TypeOK
PROOF
  <1>1. SUFFICES ASSUME Init PROVE TypeOK
    OBVIOUS
  <1>2. PICK table \in [Parameters -> Integers] : truth = <<table>>
    BY <1>1 DEF Init
  <1>3. ints = [values |-> [k \in Parameters |-> IF k \in Preset THEN InitialValue ELSE Absent],
                scopes |-> <<>>]
    BY <1>1 DEF Init
  <1>4. [k \in Parameters |-> IF k \in Preset THEN InitialValue ELSE Absent]
           \in [Parameters -> Entries(Integers)]
    BY ParametersAssumption DEF Entries
  <1>5. ints \in Stores(Parameters, Integers)
    BY <1>3, <1>4 DEF Stores
  <1>6. Depth(ints) = 0
    BY <1>3 DEF Depth
  <1>7. QED BY <1>2, <1>5, <1>6, ParametersAssumption DEF TypeOK, TruthTables

LEMMA NextType == TypeOK /\ [Next]_vars => TypeOK'
PROOF
  <1>1. SUFFICES ASSUME TypeOK, [Next]_vars PROVE TypeOK'
    OBVIOUS
  <1>2. CASE Push
    <2>1. ints' = Pushed(ints) /\ truth' = TruePush(truth) /\ Depth(ints) < MaxDepth
      BY <1>2 DEF Push
    <2>2. ints' \in Stores(Parameters, Integers) /\ Depth(ints') = Depth(ints) + 1
      BY <1>1, <2>1, Shape, PushedType
    <2>3. truth' \in TruthTables(Parameters, Integers) /\ Len(truth') = Len(truth) + 1
      BY <1>1, <2>1, Shape DEF TruePush, TruthTables
    <2>4. QED BY <1>1, <2>1, <2>2, <2>3, Shape, ParametersAssumption DEF TypeOK
  <1>3. CASE Pop
    <2>1. ints' = Popped(ints) /\ truth' = TruePop(truth) /\ Depth(ints) > 0
      BY <1>3 DEF Pop
    <2>2. ints' \in Stores(Parameters, Integers) /\ Depth(ints') = Depth(ints) - 1
      BY <1>1, <2>1, Shape, PoppedType
    <2>3. truth' \in TruthTables(Parameters, Integers) /\ Len(truth') = Len(truth) - 1
      BY <1>1, <2>1, Shape DEF TruePop, TruthTables
    <2>4. QED BY <1>1, <2>1, <2>2, <2>3, Shape, ParametersAssumption DEF TypeOK
  <1>4. ASSUME NEW k \in Parameters, NEW v \in Integers, NEW global \in BOOLEAN,
               Assign(k, v, global)
        PROVE  TypeOK'
    <2>1. ints' = Assigned(ints, k, v, global) /\ truth' = TrueAssign(truth, k, v, global)
      BY <1>4 DEF Assign
    <2>2. ints' \in Stores(Parameters, Integers) /\ Depth(ints') = Depth(ints)
      BY <1>1, <2>1, Shape, AssignedType
    <2>3. truth' \in TruthTables(Parameters, Integers) /\ Len(truth') = Len(truth)
      BY <1>1, <2>1, Shape, TrueAssignType
    <2>4. QED BY <1>1, <2>2, <2>3, Shape DEF TypeOK
  <1>5. ASSUME NEW names \in SUBSET Parameters, NEW global \in BOOLEAN,
               Invalidate(names, global)
        PROVE  TypeOK'
    <2>1. ints' \in Stores(Parameters, Integers) /\ Depth(ints') = Depth(ints)
      BY <1>1, <1>5, Shape, DoubtedType DEF Invalidate, Doubted
    <2>2. truth' \in UnknownGlobally(truth, names, Integers)
             \/ truth' \in UnknownLocally(truth, names, Integers)
      BY <1>5 DEF Invalidate, UnknownWrites
    <2>3. truth' \in TruthTables(Parameters, Integers) /\ Len(truth') = Len(truth)
      BY <1>1, <2>2, Shape, UnknownGloballyConfined, UnknownLocallyConfined
    <2>4. QED BY <1>1, <2>1, <2>3, Shape DEF TypeOK
  <1>6. CASE UNCHANGED vars
    BY <1>1, <1>6 DEF TypeOK, vars
  <1>7. QED BY <1>1, <1>2, <1>3, <1>4, <1>5, <1>6 DEF Next

(* The stores stay stores and TeX has one table more than open groups. *)
THEOREM TypeStaysOK == Spec => []TypeOK
BY InitType, NextType, PTL DEF Spec

-----------------------------------------------------------------------------
(* Without a claimed initial state an absent key is uncertain everywhere. *)
LEMMA DefaultUncertain ==
  ASSUME ~Initex, TypeOK
  PROVE  \A i \in 1..(Depth(ints) + 1), k \in Parameters : Default[i][k] = Uncertain
BY Shape DEF Default, AbsentReads

LEMMA DefaultUncertainNext ==
  ASSUME ~Initex, TypeOK'
  PROVE  \A i \in 1..(Depth(ints') + 1), k \in Parameters : Default'[i][k] = Uncertain
BY StoreShape DEF Default, AbsentReads, TypeOK

LEMMA InitReads == ~Initex /\ Init => ReadsAreTrue
PROOF
  <1>1. SUFFICES ASSUME ~Initex, Init PROVE ReadsAreTrue
    OBVIOUS
  <1>2. PICK table \in [Parameters -> Integers] :
           /\ \A k \in Preset : table[k] = InitialValue
           /\ truth = <<table>>
    BY <1>1, ParametersAssumption DEF Init
  <1>3. ints.values = [k \in Parameters |-> IF k \in Preset THEN InitialValue ELSE Absent]
    BY <1>1 DEF Init
  <1>4. TypeOK
    BY <1>1, InitType
  <1>5. ints \in Stores(Parameters, Integers) /\ Depth(ints) = 0
    BY <1>1, <1>4 DEF Init, TypeOK, Depth
  <1>6. SUFFICES ASSUME NEW k \in Parameters PROVE SoundAt(ints, truth, Default, k)
    BY <1>5, SoundByKey DEF ReadsAreTrue
  <1>7. EntryAt(ints, 1) = ints.values /\ Default[1][k] = Uncertain
    BY <1>1, <1>4, <1>5, DefaultUncertain DEF EntryAt
  <1>8. Honest(ints.values[k], Default[1][k], truth[1][k])
    BY <1>2, <1>3, <1>7, ParametersAssumption DEF Honest, Reading, Plain
  <1>9. QED BY <1>5, <1>7, <1>8 DEF SoundAt

LEMMA NextReads == ~Initex /\ TypeOK /\ ReadsAreTrue /\ [Next]_vars => ReadsAreTrue'
PROOF
  <1>1. SUFFICES ASSUME ~Initex, TypeOK, ReadsAreTrue, [Next]_vars PROVE ReadsAreTrue'
    OBVIOUS
  <1>2. Sound(ints, truth, Default)
    BY <1>1 DEF ReadsAreTrue
  <1>3. /\ \A i \in 1..(Depth(ints) + 1), k \in Parameters : Default[i][k] = Uncertain
        /\ \A i \in 1..(Depth(ints') + 1), k \in Parameters : Default'[i][k] = Uncertain
    BY <1>1, NextType, DefaultUncertain, DefaultUncertainNext
  <1>4. CASE Push
    <2>1. ints' = Pushed(ints) /\ truth' = TruePush(truth)
      BY <1>4 DEF Push
    <2>2. Depth(ints') = Depth(ints) + 1
      BY <1>1, <2>1, Shape, PushedType
    <2>3. \A i \in 1..(Depth(ints) + 1), k \in Parameters : Default'[i][k] = Default[i][k]
      BY <1>1, <1>3, <2>2, Shape
    <2>4. \A k \in Parameters : Default'[Depth(ints) + 2][k] = Default[Depth(ints) + 1][k]
      BY <1>1, <1>3, <2>2, Shape
    <2>5. QED BY <1>1, <1>2, <2>1, <2>3, <2>4, Shape, PlainIntegers, PushedSound
              DEF ReadsAreTrue
  <1>5. CASE Pop
    <2>1. ints' = Popped(ints) /\ truth' = TruePop(truth) /\ Depth(ints) > 0
      BY <1>5 DEF Pop
    <2>2. Depth(ints') = Depth(ints) - 1
      BY <1>1, <2>1, Shape, PoppedType
    <2>3. \A i \in 1..Depth(ints), k \in Parameters : Default'[i][k] = Default[i][k]
      BY <1>1, <1>3, <2>2, Shape
    <2>4. QED BY <1>1, <1>2, <2>1, <2>3, Shape, PlainIntegers, PoppedSound
              DEF ReadsAreTrue
  <1>6. ASSUME NEW k \in Parameters, NEW v \in Integers, NEW global \in BOOLEAN,
               Assign(k, v, global)
        PROVE  ReadsAreTrue'
    <2>1. ints' = Assigned(ints, k, v, global) /\ truth' = TrueAssign(truth, k, v, global)
      BY <1>6 DEF Assign
    <2>2. Depth(ints') = Depth(ints)
      BY <1>1, <2>1, Shape, AssignedType
    <2>3. Default' = Default
      BY <2>2 DEF Default, AbsentReads
    <2>4. QED BY <1>1, <1>2, <2>1, <2>3, Shape, PlainIntegers, ParametersAssumption,
                 AssignedSound DEF ReadsAreTrue
  <1>7. ASSUME NEW names \in SUBSET Parameters, NEW global \in BOOLEAN,
               Invalidate(names, global)
        PROVE  ReadsAreTrue'
    <2> DEFINE S == Visited(names, global)
    <2>1. /\ \A j \in 1..Depth(ints) : EntryAt(ints, j) = ints.scopes[j]
          /\ EntryAt(ints, Depth(ints) + 1) = ints.values
      BY <1>1, Shape, EntriesOfStore
    <2>2. S \in SUBSET names
      BY DEF Visited
    <2>3. Depth(ints') = Depth(ints)
      BY <1>1, <1>7, Shape, DoubtedType DEF Invalidate, Doubted
    <2>4. Default' = Default
      BY <2>3 DEF Default, AbsentReads
    <2>5. CASE global
      <3>1. /\ ints' = DoubtedGlobally(ints, S)
            /\ truth' \in UnknownGlobally(truth, names, Integers)
        BY <1>7, <2>5 DEF Invalidate, Doubted, UnknownWrites
      <3>2. \A k \in names \ S : /\ ints.values[k] = Absent
                                 /\ \A i \in 1..Depth(ints) : ints.scopes[i][k] = NotSaved
        BY <2>5 DEF Visited
      <3>3. \A i \in 1..(Depth(ints) + 1), k \in names \ S :
               EntryAt(ints, i)[k] \in {Absent, NotSaved} /\ Default[i][k] = Uncertain
        BY <1>1, <1>3, <2>1, <3>2, Shape
      <3>4. QED BY <1>1, <1>2, <2>2, <2>4, <3>1, <3>3, Shape, DoubtedGloballySound
                DEF ReadsAreTrue
    <2>6. CASE ~global
      <3>1. /\ ints' = DoubtedLocally(ints, S)
            /\ truth' \in UnknownLocally(truth, names, Integers)
        BY <1>7, <2>6 DEF Invalidate, Doubted, UnknownWrites
      <3>2. \A k \in names \ S : /\ EntryAt(ints, Depth(ints) + 1)[k] = Absent
                                 /\ Default[Depth(ints) + 1][k] = Uncertain
        BY <1>1, <1>3, <2>1, Shape DEF Visited
      <3>3. QED BY <1>1, <1>2, <2>2, <2>4, <3>1, <3>2, Shape, PlainIntegers,
                   DoubtedLocallySound DEF ReadsAreTrue
    <2>7. QED BY <2>5, <2>6
  <1>8. CASE UNCHANGED vars
    BY <1>1, <1>8 DEF ReadsAreTrue, Default, AbsentReads, vars
  <1>9. QED BY <1>1, <1>4, <1>5, <1>6, <1>7, <1>8 DEF Next

(* Unless the context claims an explicit primitive initial state, an       *)
(* integer parameter or count register never answers with a value that     *)
(* unexecuted source may have replaced, now or after any group ends        *)
(* (engine/parameters.py: unexecuted writes invalidate values and saved    *)
(* outer values using their actual write scope).                           *)
THEOREM ReadsStayTrue ==
  ASSUME ~Initex PROVE Spec => []ReadsAreTrue
PROOF
  <1>1. Init => TypeOK /\ ReadsAreTrue
    BY InitType, InitReads
  <1>2. TypeOK /\ ReadsAreTrue /\ [Next]_vars => (TypeOK /\ ReadsAreTrue)'
    BY NextType, NextReads
  <1>3. QED BY <1>1, <1>2, PTL DEF Spec

=============================================================================
