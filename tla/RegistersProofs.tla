--------------------------- MODULE RegistersProofs ---------------------------
(* The registers whose undo journals follow TeX's groups: token registers   *)
(* and box registers.                                                       *)
EXTENDS TokenRegisters, StateCells, SaveJournalProofs

(***************************************************************************)
(* The token registers never answer a stale read, with or without a known  *)
(* initial state, for every set of registers and lists and every depth of  *)
(* groups.                                                                 *)
(***************************************************************************)

(* What an absent register may be relied on to read as at each level. *)
Promised ==
  [i \in DOMAIN Default |-> [k \in Registers |-> IF k \in missed THEN Uncertain ELSE Default[i][k]]]

LEMMA PlainLists == NotSaved \notin Entries(TokenLists)
BY RegistersAssumption, SentinelsDiffer DEF Plain, Entries

(* The type invariant, in the form the lemmas on stores want. *)
LEMMA Shape ==
  ASSUME TypeOK
  PROVE  /\ toks \in Stores(Registers, TokenLists)
         /\ truth \in TruthTables(Registers, TokenLists)
         /\ Len(truth) = Depth(toks) + 1 /\ Depth(toks) <= MaxDepth
         /\ Depth(toks) \in Nat
         /\ defaultUncertain \in BOOLEAN /\ missed \subseteq Nameable /\ Nameable \subseteq Registers
BY StoreShape, RegistersAssumption DEF TypeOK

LEMMA PromisedIs ==
  ASSUME TypeOK
  PROVE  \A i \in 1..(Depth(toks) + 1), k \in Registers :
            Promised[i][k] = IF k \in missed THEN Uncertain ELSE AbsentReads
BY Shape DEF Promised, Default

LEMMA PromisedIsNext ==
  ASSUME TypeOK'
  PROVE  \A i \in 1..(Depth(toks') + 1), k \in Registers :
            Promised'[i][k] = IF k \in missed' THEN Uncertain ELSE AbsentReads'
BY StoreShape DEF Promised, Default, TypeOK

-----------------------------------------------------------------------------
(* A global invalidation by name first gives the absent registers an       *)
(* uncertain value, then marks what is established.                        *)
Planted(names) ==
  [toks EXCEPT !.values = [k \in Registers |-> IF k \in names /\ toks.values[k] = Absent
                                                 THEN Uncertain ELSE toks.values[k]]]

LEMMA PlantedEntries ==
  ASSUME TypeOK, NEW names \in SUBSET Registers
  PROVE  /\ Planted(names) \in Stores(Registers, TokenLists)
         /\ Depth(Planted(names)) = Depth(toks)
         /\ \A j \in 1..Depth(toks) : EntryAt(Planted(names), j) = EntryAt(toks, j)
         /\ \A k \in Registers : EntryAt(Planted(names), Depth(toks) + 1)[k] =
               IF k \in names /\ EntryAt(toks, Depth(toks) + 1)[k] = Absent
                 THEN Uncertain ELSE EntryAt(toks, Depth(toks) + 1)[k]
PROOF
  <1> DEFINE st == Planted(names)
             planted == [k \in Registers |-> IF k \in names /\ toks.values[k] = Absent
                                               THEN Uncertain ELSE toks.values[k]]
  <1>1. toks \in Stores(Registers, TokenLists) /\ Uncertain \in Entries(TokenLists)
    BY Shape DEF Entries
  <1>2. planted \in [Registers -> Entries(TokenLists)]
    BY <1>1, StoreShape
  <1>3. st = [values |-> planted, scopes |-> toks.scopes]
    BY <1>1, StoreShape DEF Planted
  <1>4. st \in Stores(Registers, TokenLists) /\ st.scopes = toks.scopes /\ st.values = planted
    <2> HIDE DEF planted
    <2>1. QED BY <1>1, <1>2, <1>3, StoreShape DEF Stores
  <1>5. Depth(st) = Depth(toks)
    BY <1>4 DEF Depth
  <1>6. QED BY <1>1, <1>4, <1>5, EntriesOfStore

-----------------------------------------------------------------------------
LEMMA InitType == Init => TypeOK
PROOF
  <1>1. SUFFICES ASSUME Init PROVE TypeOK
    OBVIOUS
  <1>2. PICK table \in [Registers -> TokenLists] : truth = <<table>>
    BY <1>1 DEF Init
  <1>3. toks = [values |-> [k \in Registers |-> Absent], scopes |-> <<>>]
    BY <1>1 DEF Init
  <1>4. toks \in Stores(Registers, TokenLists)
    BY <1>3 DEF Stores, Entries
  <1>5. Depth(toks) = 0
    BY <1>3 DEF Depth
  <1>6. truth \in TruthTables(Registers, TokenLists) /\ Len(truth) = 1
    BY <1>2 DEF TruthTables
  <1>7. defaultUncertain \in BOOLEAN /\ missed \subseteq Nameable
    BY <1>1 DEF Init
  <1>8. Len(truth) = Depth(toks) + 1 /\ Depth(toks) <= MaxDepth
    BY <1>5, <1>6, RegistersAssumption
  <1>9. QED BY <1>4, <1>6, <1>7, <1>8 DEF TypeOK

LEMMA NextType == TypeOK /\ [Next]_vars => TypeOK'
PROOF
  <1>1. SUFFICES ASSUME TypeOK, [Next]_vars PROVE TypeOK'
    OBVIOUS
  <1>2. CASE Push
    <2>1. toks' = Pushed(toks) /\ truth' = TruePush(truth) /\ Depth(toks) < MaxDepth
      BY <1>2 DEF Push
    <2>2. toks' \in Stores(Registers, TokenLists) /\ Depth(toks') = Depth(toks) + 1
      BY <1>1, <2>1, Shape, PushedType
    <2>3. truth' \in TruthTables(Registers, TokenLists) /\ Len(truth') = Len(truth) + 1
      BY <1>1, <2>1, Shape DEF TruePush, TruthTables
    <2>4. QED BY <1>1, <1>2, <2>1, <2>2, <2>3, Shape, RegistersAssumption DEF Push, TypeOK
  <1>3. CASE Pop
    <2>1. toks' = Popped(toks) /\ truth' = TruePop(truth) /\ Depth(toks) > 0
      BY <1>3 DEF Pop
    <2>2. toks' \in Stores(Registers, TokenLists) /\ Depth(toks') = Depth(toks) - 1
      BY <1>1, <2>1, Shape, PoppedType
    <2>3. truth' \in TruthTables(Registers, TokenLists) /\ Len(truth') = Len(truth) - 1
      BY <1>1, <2>1, Shape DEF TruePop, TruthTables
    <2>4. QED BY <1>1, <1>3, <2>1, <2>2, <2>3, Shape, RegistersAssumption DEF Pop, TypeOK
  <1>4. ASSUME NEW k \in Registers, NEW v \in TokenLists, NEW global \in BOOLEAN,
               Assign(k, v, global)
        PROVE  TypeOK'
    <2>1. toks' = Assigned(toks, k, v, global) /\ truth' = TrueAssign(truth, k, v, global)
      BY <1>4 DEF Assign
    <2>2. toks' \in Stores(Registers, TokenLists) /\ Depth(toks') = Depth(toks)
      BY <1>1, <2>1, Shape, AssignedType
    <2>3. truth' \in TruthTables(Registers, TokenLists) /\ Len(truth') = Len(truth)
      BY <1>1, <2>1, Shape, TrueAssignType
    <2>4. QED BY <1>1, <1>4, <2>2, <2>3, Shape DEF Assign, TypeOK
  <1>5. CASE InvalidateAll
    <2>1. toks' \in Stores(Registers, TokenLists) /\ Depth(toks') = Depth(toks)
      BY <1>1, <1>5, Shape, MarkedEntries DEF InvalidateAll
    <2>2. truth' \in UnknownGlobally(truth, Registers, TokenLists)
      BY <1>5 DEF InvalidateAll, UnknownWrites
    <2>3. truth' \in TruthTables(Registers, TokenLists) /\ Len(truth') = Len(truth)
      BY <1>1, <2>2, Shape, UnknownGloballyConfined
    <2>4. QED BY <1>1, <1>5, <2>1, <2>3, Shape DEF InvalidateAll, TypeOK
  <1>6. ASSUME NEW names \in SUBSET Nameable, InvalidateLocally(names)
        PROVE  TypeOK'
    <2>1. toks' \in Stores(Registers, TokenLists) /\ Depth(toks') = Depth(toks)
      BY <1>1, <1>6, Shape, DoubtedType DEF InvalidateLocally
    <2>2. truth' \in UnknownLocally(truth, names, TokenLists) /\ names \in SUBSET Registers
      BY <1>1, <1>6, Shape DEF InvalidateLocally, UnknownWrites
    <2>3. truth' \in TruthTables(Registers, TokenLists) /\ Len(truth') = Len(truth)
      BY <1>1, <2>2, Shape, UnknownLocallyConfined
    <2>4. QED BY <1>1, <1>6, <2>1, <2>3, Shape DEF InvalidateLocally, TypeOK
  <1>7. ASSUME NEW names \in SUBSET Nameable, InvalidateGlobally(names)
        PROVE  TypeOK'
    <2>1. names \in SUBSET Registers
      BY <1>1, Shape
    <2>2. toks' = MarkEstablished(Planted(names), names)
      BY <1>7 DEF InvalidateGlobally, Planted
    <2>3. toks' \in Stores(Registers, TokenLists) /\ Depth(toks') = Depth(toks)
      BY <1>1, <2>1, <2>2, PlantedEntries, MarkedEntries
    <2>4. truth' \in UnknownGlobally(truth, names, TokenLists)
      BY <1>7 DEF InvalidateGlobally, UnknownWrites
    <2>5. truth' \in TruthTables(Registers, TokenLists) /\ Len(truth') = Len(truth)
      BY <1>1, <2>1, <2>4, Shape, UnknownGloballyConfined
    <2>6. missed' \subseteq Nameable /\ defaultUncertain' = defaultUncertain
      BY <1>1, <1>7, Shape DEF InvalidateGlobally
    <2>7. QED BY <1>1, <2>3, <2>5, <2>6, Shape DEF TypeOK
  <1>8. CASE UNCHANGED vars
    BY <1>1, <1>8 DEF TypeOK, vars
  <1>9. QED BY <1>1, <1>2, <1>3, <1>4, <1>5, <1>6, <1>7, <1>8 DEF Next

(* The registers and their journals stay aligned with TeX's groups         *)
(* (push and pop of engine/token_registers.py).                            *)
THEOREM TypeStaysOK == Spec => []TypeOK
BY InitType, NextType, PTL DEF Spec

-----------------------------------------------------------------------------
LEMMA InitReads == Init => ReadsAreTrue
PROOF
  <1>1. SUFFICES ASSUME Init PROVE ReadsAreTrue
    OBVIOUS
  <1>2. PICK table \in [Registers -> TokenLists] :
           (Initex => \A k \in Registers : table[k] = EmptyList) /\ truth = <<table>>
    BY <1>1 DEF Init
  <1>3. toks.values = [k \in Registers |-> Absent] /\ missed = {} /\ defaultUncertain = FALSE
    BY <1>1 DEF Init
  <1>4. TypeOK /\ Depth(toks) = 0
    BY <1>1, InitType DEF Init, Depth
  <1>5. toks \in Stores(Registers, TokenLists)
    BY <1>4, Shape
  <1>6. SUFFICES ASSUME NEW k \in Registers PROVE SoundAt(toks, truth, Promised, k)
    BY <1>5, SoundByKey DEF ReadsAreTrue, Promised
  <1>7. EntryAt(toks, 1) = toks.values /\ Promised[1][k] = IF Initex THEN EmptyList ELSE Uncertain
    BY <1>3, <1>4, PromisedIs DEF EntryAt, AbsentReads
  <1>8. Honest(toks.values[k], Promised[1][k], truth[1][k])
    BY <1>2, <1>3, <1>7 DEF Honest, Reading
  <1>9. QED BY <1>4, <1>7, <1>8 DEF SoundAt

LEMMA NextReads == TypeOK /\ ReadsAreTrue /\ [Next]_vars => ReadsAreTrue'
PROOF
  <1>1. SUFFICES ASSUME TypeOK, ReadsAreTrue, [Next]_vars PROVE ReadsAreTrue'
    OBVIOUS
  <1>2. Sound(toks, truth, Promised)
    BY <1>1 DEF ReadsAreTrue, Promised
  <1>3. SUFFICES Sound(toks', truth', Promised')
    BY DEF ReadsAreTrue, Promised
  <1>4. TypeOK'
    BY <1>1, NextType
  <1>5. toks' \in Stores(Registers, TokenLists)
    BY <1>4 DEF TypeOK
  <1>6. \A k \in Registers : SoundAt(toks, truth, Promised, k)
    BY <1>1, <1>2, Shape, SoundByKey
  <1>7. CASE Push
    <2>1. /\ toks' = Pushed(toks) /\ truth' = TruePush(truth)
          /\ missed' = missed /\ AbsentReads' = AbsentReads
      BY <1>7 DEF Push, AbsentReads
    <2>2. Depth(toks') = Depth(toks) + 1
      BY <1>1, <2>1, Shape, PushedType
    <2>3. /\ \A i \in 1..(Depth(toks) + 1), k \in Registers : Promised'[i][k] = Promised[i][k]
          /\ \A k \in Registers : Promised'[Depth(toks) + 2][k] = Promised[Depth(toks) + 1][k]
      BY <1>1, <1>4, <2>1, <2>2, Shape, PromisedIs, PromisedIsNext
    <2>4. QED BY <1>1, <1>2, <2>1, <2>3, Shape, PlainLists, PushedSound
  <1>8. CASE Pop
    <2>1. /\ toks' = Popped(toks) /\ truth' = TruePop(truth) /\ Depth(toks) > 0
          /\ missed' = missed /\ AbsentReads' = AbsentReads
      BY <1>8 DEF Pop, AbsentReads
    <2>2. Depth(toks') = Depth(toks) - 1
      BY <1>1, <2>1, Shape, PoppedType
    <2>3. \A i \in 1..Depth(toks), k \in Registers : Promised'[i][k] = Promised[i][k]
      BY <1>1, <1>4, <2>1, <2>2, Shape, PromisedIs, PromisedIsNext
    <2>4. /\ toks \in Stores(Registers, TokenLists) /\ Depth(toks) > 0
          /\ truth \in TruthTables(Registers, TokenLists) /\ Len(truth) = Depth(toks) + 1
      BY <1>1, <2>1, Shape
    <2>5. Sound(Popped(toks), TruePop(truth), Promised')
      BY <1>2, <2>3, <2>4, PlainLists, PoppedSound
    <2>6. QED BY <2>1, <2>5
  <1>9. ASSUME NEW k \in Registers, NEW v \in TokenLists, NEW global \in BOOLEAN,
               Assign(k, v, global)
        PROVE  Sound(toks', truth', Promised')
    <2>1. /\ toks' = Assigned(toks, k, v, global) /\ truth' = TrueAssign(truth, k, v, global)
          /\ missed' = missed /\ AbsentReads' = AbsentReads
      BY <1>9 DEF Assign, AbsentReads
    <2>2. Depth(toks') = Depth(toks)
      BY <1>1, <2>1, Shape, AssignedType
    <2>3. Promised' = Promised
      BY <2>1, <2>2 DEF Promised, Default
    <2>4. QED BY <1>1, <1>2, <2>1, <2>3, Shape, PlainLists, RegistersAssumption, AssignedSound
  <1>10. CASE InvalidateAll
    <2>1. toks' = MarkEstablished(toks, Registers) /\ AbsentReads' = Uncertain
      BY <1>10 DEF InvalidateAll, AbsentReads
    <2>2. /\ Depth(toks') = Depth(toks) /\ Depth(toks) \in Nat
          /\ \A j \in 1..(Depth(toks) + 1), k \in Registers :
                EntryAt(toks', j)[k] \in {Uncertain, NotSaved, Absent}
      BY <1>1, <2>1, Shape, MarkedEntries
    <2>3. \A i \in 1..(Depth(toks) + 1), k \in Registers : Promised'[i][k] = Uncertain
      BY <1>4, <2>1, <2>2, PromisedIsNext
    <2>4. \A k \in Registers : SoundAt(toks', truth', Promised', k)
      BY <1>5, <2>2, <2>3, DoubtfulKeySound
    <2>5. QED BY <1>5, <2>4, SoundByKey
  <1>11. ASSUME NEW names \in SUBSET Nameable, InvalidateLocally(names)
         PROVE  Sound(toks', truth', Promised')
    <2>1. /\ toks' = DoubtedLocally(toks, names) /\ names \in SUBSET Registers
          /\ truth' \in UnknownLocally(truth, names, TokenLists)
          /\ missed' = missed /\ AbsentReads' = AbsentReads
      BY <1>1, <1>11, Shape DEF InvalidateLocally, UnknownWrites, AbsentReads
    <2>2. Depth(toks') = Depth(toks)
      BY <1>1, <2>1, Shape, DoubtedType
    <2>3. Promised' = Promised
      BY <2>1, <2>2 DEF Promised, Default
    <2>4. QED BY <1>1, <1>2, <2>1, <2>3, Shape, PlainLists, DoubtedLocallySound
  <1>12. ASSUME NEW names \in SUBSET Nameable, InvalidateGlobally(names)
         PROVE  Sound(toks', truth', Promised')
    <2> DEFINE n == Depth(toks)
    <2>1. /\ toks' = MarkEstablished(Planted(names), names) /\ names \in SUBSET Registers
          /\ truth' \in UnknownGlobally(truth, names, TokenLists) /\ AbsentReads' = AbsentReads
          /\ missed' = missed \cup { k \in names : \E i \in 1..n : toks.scopes[i][k] = Absent }
      BY <1>1, <1>12, Shape DEF InvalidateGlobally, Planted, UnknownWrites, AbsentReads
    <2>2. /\ n \in Nat /\ Depth(toks') = n
          /\ \A j \in 1..(n + 1), k \in Registers :
                EntryAt(toks', j)[k] =
                  IF k \in names /\ EntryAt(Planted(names), j)[k] \notin {Absent, NotSaved}
                    THEN Uncertain ELSE EntryAt(Planted(names), j)[k]
      BY <1>1, <2>1, Shape, PlantedEntries, MarkedEntries
    <2>3. /\ \A j \in 1..n : EntryAt(Planted(names), j) = EntryAt(toks, j) /\ EntryAt(toks, j) = toks.scopes[j]
          /\ \A k \in Registers : EntryAt(Planted(names), n + 1)[k] =
                IF k \in names /\ EntryAt(toks, n + 1)[k] = Absent THEN Uncertain ELSE EntryAt(toks, n + 1)[k]
      BY <1>1, <2>1, Shape, PlantedEntries, EntriesOfStore
    <2>4. ASSUME NEW k \in Registers \ names
          PROVE  SoundAt(toks', truth', Promised', k)
      <3>1. \A j \in 1..(n + 1) : EntryAt(toks', j)[k] = EntryAt(toks, j)[k]
        BY <2>2, <2>3
      <3>2. \A i \in 1..(n + 1) : truth'[i][k] = truth[i][k]
        BY <1>1, <2>1, Shape, UnknownGloballyConfined
      <3>3. \A i \in 1..(n + 1) : Promised'[i][k] = Promised[i][k] \/ Promised'[i][k] = Uncertain
        BY <1>1, <1>4, <2>1, <2>2, PromisedIs, PromisedIsNext
      <3>4. QED BY <1>1, <1>5, <1>6, <2>2, <3>1, <3>2, <3>3, Shape, UntouchedKeySound
    <2>5. ASSUME NEW k \in names
          PROVE  SoundAt(toks', truth', Promised', k)
      <3>1. EntryAt(toks', n + 1)[k] \in {Uncertain, NotSaved}
        BY <2>1, <2>2, <2>3
      <3>2. ASSUME NEW j \in 1..n
            PROVE  \/ EntryAt(toks', j)[k] \in {Uncertain, NotSaved}
                   \/ EntryAt(toks', j)[k] = Absent /\ k \in missed'
        BY <2>1, <2>2, <2>3
      <3>3. k \in missed' => \A i \in 1..(n + 1) : Promised'[i][k] = Uncertain
        BY <1>4, <2>1, <2>2, PromisedIsNext
      <3>4. k \in Registers
        BY <2>1
      <3>5. QED BY <1>5, <2>2, <3>1, <3>2, <3>3, <3>4, DoubtfulKeySound
    <2>6. QED BY <1>5, <2>1, <2>4, <2>5, SoundByKey
  <1>13. CASE UNCHANGED vars
    BY <1>2, <1>13 DEF Promised, Default, AbsentReads, vars
  <1>14. QED BY <1>1, <1>7, <1>8, <1>9, <1>10, <1>11, <1>12, <1>13 DEF Next

(* No token register ever answers with a list that unexecuted source may   *)
(* have replaced, now or after any number of group ends, whether or not    *)
(* the initial state is known, except where a named global write left a    *)
(* saved absence alone (invalidate of engine/token_registers.py).          *)
THEOREM ReadsStayTrue == Spec => []ReadsAreTrue
PROOF
  <1>1. Init => TypeOK /\ ReadsAreTrue
    BY InitType, InitReads
  <1>2. TypeOK /\ ReadsAreTrue /\ [Next]_vars => (TypeOK /\ ReadsAreTrue)'
    BY NextType, NextReads
  <1>3. QED BY <1>1, <1>2, PTL DEF Spec

(***************************************************************************)
(* The box registers never answer with a box TeX has used up, resized or   *)
(* replaced, for every set of boxes and contents and every depth of        *)
(* groups. The argument rests on SlotsAreShared: the journals know exactly *)
(* which levels share a slot, so a write that saves nothing reaches as far *)
(* as TeX's does.                                                          *)
(***************************************************************************)

VoidEverywhere == [i \in DOMAIN trueBoxes |-> [k \in Boxes |-> VoidReads]]

LEMMA PlainBoxes == NotSaved \notin Entries(BoxValues) /\ Plain(BoxValues)
BY BoxesAssumption, SentinelsDiffer DEF Plain, Entries, BoxValues

(* The type invariant, in the form the lemmas on stores want. *)
LEMMA CellsShape ==
  ASSUME CellsTypeOK
  PROVE  /\ cells \in Stores(Boxes, BoxValues)
         /\ trueBoxes \in TruthTables(Boxes, BoxValues)
         /\ owner \in TruthTables(Boxes, Nat)
         /\ Len(trueBoxes) = Depth(cells) + 1 /\ Len(owner) = Depth(cells) + 1
         /\ Depth(cells) \in Nat /\ Depth(cells) <= MaxGroups
         /\ initialUncertain \in BOOLEAN
         /\ \A i \in 1..(Depth(cells) + 1), k \in Boxes : owner[i][k] \in 1..i
         /\ \A i \in 1..(Depth(cells) + 1) : owner[i] \in [Boxes -> Nat]
         /\ \A i \in 1..(Depth(cells) + 1) : trueBoxes[i] \in [Boxes -> BoxValues]
BY StoreShape DEF CellsTypeOK, TruthTables

LEMMA VoidEverywhereIs ==
  ASSUME CellsTypeOK
  PROVE  \A i \in 1..(Depth(cells) + 1), k \in Boxes : VoidEverywhere[i][k] = VoidReads
BY CellsShape DEF VoidEverywhere, TruthTables

LEMMA VoidEverywhereIsNext ==
  ASSUME CellsTypeOK'
  PROVE  \A i \in 1..(Depth(cells') + 1), k \in Boxes : VoidEverywhere'[i][k] = VoidReads'
BY StoreShape DEF VoidEverywhere, CellsTypeOK, TruthTables

-----------------------------------------------------------------------------
(* update_current changes the register's current entry and nothing else. *)
LEMMA UpdatedEntries ==
  ASSUME CellsTypeOK, NEW k \in Boxes, NEW box \in BoxValues
  PROVE  /\ update_current(k, box) \in Stores(Boxes, BoxValues)
         /\ Depth(update_current(k, box)) = Depth(cells)
         /\ update_current(k, box).scopes = cells.scopes
         /\ \A j \in 1..Depth(cells) : EntryAt(update_current(k, box), j) = EntryAt(cells, j)
         /\ \A q \in Boxes : EntryAt(update_current(k, box), Depth(cells) + 1)[q] =
               IF q = k THEN box ELSE EntryAt(cells, Depth(cells) + 1)[q]
PROOF
  <1> DEFINE st == update_current(k, box)
             values == [cells.values EXCEPT ![k] = box]
  <1>1. cells \in Stores(Boxes, BoxValues) /\ box \in Entries(BoxValues)
    BY CellsShape DEF Entries
  <1>2. values \in [Boxes -> Entries(BoxValues)]
    BY <1>1, StoreShape
  <1>3. st = [values |-> values, scopes |-> cells.scopes]
    <2>1. PICK old, journals : cells = [values |-> old, scopes |-> journals]
      BY <1>1 DEF Stores
    <2>2. st = [values |-> [old EXCEPT ![k] = box], scopes |-> journals]
      BY <2>1 DEF update_current
    <2>3. QED BY <2>1, <2>2
  <1>4. st \in Stores(Boxes, BoxValues) /\ st.scopes = cells.scopes /\ st.values = values
    <2> HIDE DEF values
    <2>1. QED BY <1>1, <1>2, <1>3, StoreShape DEF Stores
  <1>5. Depth(st) = Depth(cells)
    BY <1>4 DEF Depth
  <1>6. \A q \in Boxes : values[q] = IF q = k THEN box ELSE cells.values[q]
    BY <1>1, StoreShape
  <1> HIDE DEF values, st
  <1>7. QED BY <1>1, <1>4, <1>5, <1>6, EntriesOfStore DEF st

(* TeX's write reaches exactly the levels that share the current slot. *)
LEMMA TrueUpdateIs ==
  ASSUME CellsTypeOK, NEW k \in Boxes, NEW box \in BoxValues
  PROVE  /\ TrueUpdate(k, box) \in TruthTables(Boxes, BoxValues)
         /\ Len(TrueUpdate(k, box)) = Depth(cells) + 1
         /\ \A i \in 1..(Depth(cells) + 1), q \in Boxes :
               TrueUpdate(k, box)[i][q] =
                  IF q = k /\ owner[i][k] = owner[Depth(cells) + 1][k]
                    THEN box ELSE trueBoxes[i][q]
PROOF
  <1> DEFINE n == Depth(cells)
  <1>1. n \in Nat /\ Len(owner) = n + 1 /\ DOMAIN trueBoxes = 1..(n + 1)
    BY CellsShape DEF TruthTables
  <1>2. \A i \in 1..(n + 1) : trueBoxes[i] \in [Boxes -> BoxValues]
    BY CellsShape
  <1>3. TrueUpdate(k, box) =
          [i \in 1..(n + 1) |->
             [trueBoxes[i] EXCEPT ![k] = IF owner[i][k] = owner[n + 1][k] THEN box ELSE @]]
    BY <1>1 DEF TrueUpdate
  <1>4. TrueUpdate(k, box) \in [1..(n + 1) -> [Boxes -> BoxValues]]
    BY <1>2, <1>3
  <1>5. TrueUpdate(k, box) \in Seq([Boxes -> BoxValues]) /\ Len(TrueUpdate(k, box)) = n + 1
    BY <1>1, <1>4, FunctionIsSeq
  <1>6. \A i \in 1..(n + 1), q \in Boxes :
          TrueUpdate(k, box)[i][q] = IF q = k /\ owner[i][k] = owner[n + 1][k]
                                       THEN box ELSE trueBoxes[i][q]
    BY <1>2, <1>3
  <1>7. QED BY <1>5, <1>6 DEF TruthTables

-----------------------------------------------------------------------------
LEMMA CellsInitType == CellsInit => CellsTypeOK
PROOF
  <1>1. SUFFICES ASSUME CellsInit PROVE CellsTypeOK
    OBVIOUS
  <1>2. PICK table \in [Boxes -> BoxValues] : trueBoxes = <<table>>
    BY <1>1 DEF CellsInit
  <1>3. cells = [values |-> [k \in Boxes |-> Absent], scopes |-> <<>>]
    BY <1>1 DEF CellsInit
  <1>4. cells \in Stores(Boxes, BoxValues) /\ Depth(cells) = 0
    BY <1>3 DEF Stores, Entries, Depth
  <1>5. trueBoxes \in TruthTables(Boxes, BoxValues) /\ Len(trueBoxes) = 1
    BY <1>2 DEF TruthTables
  <1>6. /\ owner = <<[k \in Boxes |-> 1]>> /\ owner \in TruthTables(Boxes, Nat)
        /\ Len(owner) = 1 /\ DOMAIN owner = {1}
    BY <1>1 DEF CellsInit, TruthTables
  <1>7. \A i \in DOMAIN owner : \A k \in Boxes : owner[i][k] \in 1..i
    BY <1>6
  <1>8. initialUncertain \in BOOLEAN
    BY <1>1 DEF CellsInit
  <1>9. Len(trueBoxes) = Depth(cells) + 1 /\ Len(owner) = Depth(cells) + 1 /\ Depth(cells) <= MaxGroups
    BY <1>4, <1>5, <1>6, BoxesAssumption
  <1>10. QED BY <1>4, <1>5, <1>6, <1>7, <1>8, <1>9 DEF CellsTypeOK

(* The owners after a step, told from those before it. *)
LEMMA PushedOwner ==
  ASSUME CellsTypeOK
  PROVE  /\ TruePush(owner) \in TruthTables(Boxes, Nat) /\ Len(TruePush(owner)) = Depth(cells) + 2
         /\ \A i \in 1..(Depth(cells) + 1) : TruePush(owner)[i] = owner[i]
         /\ TruePush(owner)[Depth(cells) + 2] = owner[Depth(cells) + 1]
BY CellsShape DEF TruePush, TruthTables

LEMMA PoppedOwner ==
  ASSUME CellsTypeOK, Depth(cells) > 0
  PROVE  /\ TruePop(owner) \in TruthTables(Boxes, Nat) /\ Len(TruePop(owner)) = Depth(cells)
         /\ \A i \in 1..Depth(cells) : TruePop(owner)[i] = owner[i]
BY CellsShape DEF TruePop, TruthTables

LEMMA AssignedOwner ==
  ASSUME CellsTypeOK, NEW k \in Boxes, NEW global \in BOOLEAN, NEW level \in Nat
  PROVE  /\ TrueAssign(owner, k, level, global) \in TruthTables(Boxes, Nat)
         /\ Len(TrueAssign(owner, k, level, global)) = Depth(cells) + 1
         /\ \A i \in 1..(Depth(cells) + 1), q \in Boxes :
               TrueAssign(owner, k, level, global)[i][q] =
                  IF q = k /\ (global \/ i = Depth(cells) + 1) THEN level ELSE owner[i][q]
PROOF
  <1>1. /\ owner \in TruthTables(Boxes, Nat) /\ Len(owner) = Depth(cells) + 1
        /\ \A i \in 1..(Depth(cells) + 1) : owner[i] \in [Boxes -> Nat]
    BY CellsShape
  <1>2. \A i \in 1..(Depth(cells) + 1) :
          TrueAssign(owner, k, level, global)[i] =
             IF global \/ i = Depth(cells) + 1 THEN [owner[i] EXCEPT ![k] = level] ELSE owner[i]
    BY <1>1 DEF TrueAssign
  <1>3. \A i \in 1..(Depth(cells) + 1), q \in Boxes :
           TrueAssign(owner, k, level, global)[i][q] =
              IF q = k /\ (global \/ i = Depth(cells) + 1) THEN level ELSE owner[i][q]
    BY <1>1, <1>2
  <1>4. /\ TrueAssign(owner, k, level, global) \in TruthTables(Boxes, Nat)
        /\ Len(TrueAssign(owner, k, level, global)) = Len(owner)
    <2>1. Len(owner) \in Nat /\ \A i \in 1..Len(owner) : owner[i] \in [Boxes -> Nat]
      BY <1>1 DEF TruthTables
    <2>2. TrueAssign(owner, k, level, global) \in [1..Len(owner) -> [Boxes -> Nat]]
      BY <2>1 DEF TrueAssign
    <2>3. QED BY <2>1, <2>2, FunctionIsSeq DEF TruthTables
  <1>5. QED BY <1>1, <1>3, <1>4

(* The levels that own the slots stay within the open groups. *)
LEMMA OwnedInRange ==
  ASSUME NEW owners \in TruthTables(Boxes, Nat), NEW n \in Nat, Len(owners) = n + 1,
         \A i \in 1..(n + 1), k \in Boxes : owners[i][k] \in 1..i
  PROVE  \A i \in DOMAIN owners : \A k \in Boxes : owners[i][k] \in 1..i
BY DEF TruthTables

LEMMA CellsNextType == CellsTypeOK /\ [CellsNext]_cellVars => CellsTypeOK'
PROOF
  <1>1. SUFFICES ASSUME CellsTypeOK, [CellsNext]_cellVars PROVE CellsTypeOK'
    OBVIOUS
  <1> DEFINE n == Depth(cells)
  <1>a. /\ cells \in Stores(Boxes, BoxValues) /\ trueBoxes \in TruthTables(Boxes, BoxValues)
        /\ Len(trueBoxes) = n + 1 /\ n \in Nat /\ n <= MaxGroups /\ initialUncertain \in BOOLEAN
        /\ owner \in TruthTables(Boxes, Nat) /\ Len(owner) = n + 1
        /\ \A i \in 1..(n + 1), k \in Boxes : owner[i][k] \in 1..i
    BY <1>1, CellsShape
  <1>2. CASE PushBoxes
    <2>1. cells' = Pushed(cells) /\ trueBoxes' = TruePush(trueBoxes) /\ owner' = TruePush(owner)
      BY <1>2 DEF PushBoxes
    <2>2. cells' \in Stores(Boxes, BoxValues) /\ Depth(cells') = n + 1
      BY <1>a, <2>1, PushedType
    <2>3. trueBoxes' \in TruthTables(Boxes, BoxValues) /\ Len(trueBoxes') = n + 2
      BY <1>a, <2>1 DEF TruePush, TruthTables
    <2>4. \A i \in 1..(n + 2), k \in Boxes : owner'[i][k] \in 1..i
      BY <1>1, <1>a, <2>1, PushedOwner
    <2>5. owner' \in TruthTables(Boxes, Nat) /\ Len(owner') = n + 2
      BY <1>1, <2>1, PushedOwner
    <2>6. \A i \in DOMAIN owner' : \A k \in Boxes : owner'[i][k] \in 1..i
      BY <1>a, <2>4, <2>5, OwnedInRange
    <2>7. initialUncertain' = initialUncertain /\ n + 1 <= MaxGroups
      BY <1>2, <1>a, BoxesAssumption DEF PushBoxes
    <2>8. QED BY <1>a, <2>2, <2>3, <2>5, <2>6, <2>7 DEF CellsTypeOK
  <1>3. CASE PopBoxes
    <2>1. /\ cells' = Popped(cells) /\ trueBoxes' = TruePop(trueBoxes) /\ owner' = TruePop(owner)
          /\ n > 0 /\ initialUncertain' = initialUncertain
      BY <1>3 DEF PopBoxes
    <2>2. cells' \in Stores(Boxes, BoxValues) /\ Depth(cells') = n - 1
      BY <1>a, <2>1, PoppedType
    <2>3. trueBoxes' \in TruthTables(Boxes, BoxValues) /\ Len(trueBoxes') = n
      BY <1>a, <2>1 DEF TruePop, TruthTables
    <2>4. \A i \in 1..n, k \in Boxes : owner'[i][k] \in 1..i
      BY <1>1, <1>a, <2>1, PoppedOwner
    <2>5. owner' \in TruthTables(Boxes, Nat) /\ Len(owner') = n
      BY <1>1, <2>1, PoppedOwner
    <2>6. \A i \in DOMAIN owner' : \A k \in Boxes : owner'[i][k] \in 1..i
      BY <2>4, <2>5 DEF TruthTables
    <2>7. n - 1 <= MaxGroups
      BY <1>a, BoxesAssumption
    <2>8. QED BY <1>a, <2>1, <2>2, <2>3, <2>5, <2>6, <2>7 DEF CellsTypeOK
  <1>4. ASSUME NEW k \in Boxes, NEW box \in BoxValues, NEW global \in BOOLEAN,
               SetBox(k, box, global)
        PROVE  CellsTypeOK'
    <2> DEFINE level == IF global THEN 1 ELSE Len(owner)
    <2>1. /\ cells' = Assigned(cells, k, box, global)
          /\ trueBoxes' = TrueAssign(trueBoxes, k, box, global)
          /\ owner' = TrueAssign(owner, k, level, global)
          /\ initialUncertain' = initialUncertain /\ level \in 1..(n + 1)
      BY <1>4, <1>a DEF SetBox
    <2> HIDE DEF level
    <2>2. cells' \in Stores(Boxes, BoxValues) /\ Depth(cells') = n
      BY <1>a, <2>1, AssignedType
    <2>3. trueBoxes' \in TruthTables(Boxes, BoxValues) /\ Len(trueBoxes') = n + 1
      BY <1>a, <2>1, TrueAssignType
    <2>4. /\ owner' \in TruthTables(Boxes, Nat) /\ Len(owner') = n + 1
          /\ \A i \in 1..(n + 1), q \in Boxes :
               owner'[i][q] = IF q = k /\ (global \/ i = n + 1) THEN level ELSE owner[i][q]
      BY <1>1, <2>1, AssignedOwner
    <2>5. global => level = 1
      BY DEF level
    <2>6. \A i \in 1..(n + 1), q \in Boxes : owner'[i][q] \in 1..i
      BY <1>a, <2>1, <2>4, <2>5
    <2>7. \A i \in DOMAIN owner' : \A q \in Boxes : owner'[i][q] \in 1..i
      BY <1>a, <2>4, <2>6, OwnedInRange
    <2>8. QED BY <1>a, <2>1, <2>2, <2>3, <2>4, <2>7 DEF CellsTypeOK
  <1>5. ASSUME NEW k \in Boxes, NEW box \in BoxValues,
               cells' = update_current(k, box), trueBoxes' = TrueUpdate(k, box),
               UNCHANGED <<initialUncertain, owner>>
        PROVE  CellsTypeOK'
    <2>1. cells' \in Stores(Boxes, BoxValues) /\ Depth(cells') = n
      BY <1>1, <1>5, UpdatedEntries
    <2>2. trueBoxes' \in TruthTables(Boxes, BoxValues) /\ Len(trueBoxes') = n + 1
      BY <1>1, <1>5, TrueUpdateIs
    <2>3. QED BY <1>1, <1>a, <1>5, <2>1, <2>2 DEF CellsTypeOK
  <1>6. CASE DoubtBoxes
    <2>1. cells' \in Stores(Boxes, BoxValues) /\ Depth(cells') = n
      BY <1>6, <1>a, MarkedEntries DEF DoubtBoxes
    <2>2. trueBoxes' \in UnknownGlobally(trueBoxes, Boxes, BoxValues)
      BY <1>6 DEF DoubtBoxes, UnknownWrites
    <2>3. trueBoxes' \in TruthTables(Boxes, BoxValues) /\ Len(trueBoxes') = Len(trueBoxes)
      BY <1>a, <2>2, UnknownGloballyConfined
    <2>4. initialUncertain' = TRUE /\ owner' = owner
      BY <1>6 DEF DoubtBoxes
    <2>5. QED BY <1>1, <1>a, <2>1, <2>3, <2>4 DEF CellsTypeOK
  <1>7. CASE UNCHANGED cellVars
    BY <1>1, <1>7 DEF CellsTypeOK, cellVars
  <1>8. ASSUME NEW k \in Boxes, Take(k) PROVE CellsTypeOK'
    BY <1>5, <1>8 DEF Take, BoxValues
  <1>9. ASSUME NEW k \in Boxes, NEW box \in Contents, Resize(k, box) PROVE CellsTypeOK'
    BY <1>5, <1>9 DEF Resize, BoxValues
  <1>10. QED BY <1>1, <1>2, <1>3, <1>4, <1>6, <1>7, <1>8, <1>9 DEF CellsNext

(* The box store and its journals stay aligned with TeX's groups, and the  *)
(* level that owns a slot is open (push, pop and assign of                 *)
(* engine/state_cells.py).                                                 *)
THEOREM CellsStayTyped == CellsSpec => []CellsTypeOK
BY CellsInitType, CellsNextType, PTL DEF CellsSpec

-----------------------------------------------------------------------------
LEMMA InitShares == CellsInit => SlotsAreShared
PROOF
  <1>1. SUFFICES ASSUME CellsInit PROVE SlotsAreShared
    OBVIOUS
  <1>2. Depth(cells) = 0
    BY <1>1 DEF CellsInit, Depth
  <1>3. QED BY <1>2 DEF SlotsAreShared

LEMMA NextShares == CellsTypeOK /\ SlotsAreShared /\ [CellsNext]_cellVars => SlotsAreShared'
PROOF
  <1>1. SUFFICES ASSUME CellsTypeOK, SlotsAreShared, [CellsNext]_cellVars
                 PROVE  SlotsAreShared'
    OBVIOUS
  <1> DEFINE n == Depth(cells)
  <1>a. /\ cells \in Stores(Boxes, BoxValues) /\ n \in Nat
        /\ \A i \in 1..(n + 1), k \in Boxes : owner[i][k] \in 1..i
        /\ \A j \in 1..n : EntryAt(cells, j) = cells.scopes[j]
        /\ EntryAt(cells, n + 1) = cells.values
        /\ \A k \in Boxes : cells.values[k] # NotSaved
    BY <1>1, CellsShape, EntriesOfStore, StoreShape, PlainBoxes
  <1>b. \A k \in Boxes : \A j \in 1..(n + 1) : \A i \in 1..j :
           owner[i][k] = owner[j][k] <=> \A m \in i..(j - 1) : cells.scopes[m][k] = NotSaved
    BY <1>1 DEF SlotsAreShared
  <1>c. CellsTypeOK'
    BY <1>1, CellsNextType
  <1>d. cells' \in Stores(Boxes, BoxValues)
    BY <1>c DEF CellsTypeOK
  <1>e. \A j \in 1..Depth(cells') : EntryAt(cells', j) = cells'.scopes[j]
    BY <1>d, EntriesOfStore
  <1>2. CASE PushBoxes
    <2>1. cells' = Pushed(cells) /\ owner' = TruePush(owner)
      BY <1>2 DEF PushBoxes
    <2>2. Depth(cells') = n + 1
      BY <1>a, <2>1, PushedType
    <2>3. /\ \A m \in 1..n, k \in Boxes : cells'.scopes[m][k] = cells.scopes[m][k]
          /\ \A k \in Boxes : cells'.scopes[n + 1][k] = NotSaved
      BY <1>a, <2>1, StoreShape DEF Pushed, Depth
    <2>4. /\ \A i \in 1..(n + 1), k \in Boxes : owner'[i][k] = owner[i][k]
          /\ \A k \in Boxes : owner'[n + 2][k] = owner[n + 1][k]
      BY <1>1, <2>1, PushedOwner
    <2>5. ASSUME NEW k \in Boxes, NEW j \in 1..(n + 2), NEW i \in 1..j
          PROVE  owner'[i][k] = owner'[j][k]
                    <=> \A m \in i..(j - 1) : cells'.scopes[m][k] = NotSaved
      <3>1. CASE j <= n + 1
        <4>1. i \in 1..(n + 1) /\ j \in 1..(n + 1) /\ \A m \in i..(j - 1) : m \in 1..n
          BY <1>a, <3>1
        <4>2. owner'[i][k] = owner[i][k] /\ owner'[j][k] = owner[j][k]
          BY <2>4, <4>1
        <4>3. \A m \in i..(j - 1) : cells'.scopes[m][k] = cells.scopes[m][k]
          BY <2>3, <4>1
        <4>4. QED BY <1>b, <4>1, <4>2, <4>3
      <3>2. CASE j = n + 2 /\ i = n + 2
        BY <1>a, <3>2
      <3>3. CASE j = n + 2 /\ i <= n + 1
        <4>1. owner'[i][k] = owner'[j][k] <=> owner[i][k] = owner[n + 1][k]
          <5>1. i \in 1..(n + 1)
            BY <1>a, <3>3
          <5>2. owner'[i][k] = owner[i][k] /\ owner'[j][k] = owner[n + 1][k]
            BY <2>4, <3>3, <5>1
          <5>3. QED BY <5>2
        <4>2. owner[i][k] = owner[n + 1][k] <=> \A m \in i..n : cells.scopes[m][k] = NotSaved
          BY <1>a, <1>b, <3>3
        <4>3. (\A m \in i..n : cells.scopes[m][k] = NotSaved)
                 <=> \A m \in i..(n + 1) : cells'.scopes[m][k] = NotSaved
          <5>1. /\ \A m \in i..n : m \in 1..n /\ m \in i..(n + 1)
                /\ \A m \in i..(n + 1) : m = n + 1 \/ m \in i..n
            BY <1>a, <3>3
          <5>2. QED BY <2>3, <5>1
        <4>4. i..(j - 1) = i..(n + 1)
          BY <1>a, <3>3
        <4>5. (\A m \in i..(n + 1) : cells'.scopes[m][k] = NotSaved)
                 <=> \A m \in i..(j - 1) : cells'.scopes[m][k] = NotSaved
          BY <4>4
        <4>6. QED BY <4>1, <4>2, <4>3, <4>5
      <3>4. j <= n + 1 \/ (j = n + 2 /\ i = n + 2) \/ (j = n + 2 /\ i <= n + 1)
        BY <1>a
      <3>5. QED BY <3>1, <3>2, <3>3, <3>4
    <2>6. QED BY <1>a, <2>2, <2>5 DEF SlotsAreShared
  <1>3. CASE PopBoxes
    <2>1. cells' = Popped(cells) /\ owner' = TruePop(owner) /\ n > 0
      BY <1>3 DEF PopBoxes
    <2>2. Depth(cells') = n - 1
      BY <1>a, <2>1, PoppedType
    <2>3. \A m \in 1..(n - 1), k \in Boxes : cells'.scopes[m][k] = cells.scopes[m][k]
      BY <1>a, <2>1, StoreShape DEF Popped, Depth
    <2>4. \A i \in 1..n, k \in Boxes : owner'[i][k] = owner[i][k]
      BY <1>1, <2>1, PoppedOwner
    <2>5. ASSUME NEW k \in Boxes, NEW j \in 1..n, NEW i \in 1..j
          PROVE  owner'[i][k] = owner'[j][k]
                    <=> \A m \in i..(j - 1) : cells'.scopes[m][k] = NotSaved
      <3>1. i \in 1..n /\ j \in 1..(n + 1) /\ \A m \in i..(j - 1) : m \in 1..(n - 1)
        BY <1>a
      <3>2. owner'[i][k] = owner[i][k] /\ owner'[j][k] = owner[j][k]
        BY <2>4, <3>1
      <3>3. \A m \in i..(j - 1) : cells'.scopes[m][k] = cells.scopes[m][k]
        BY <2>3, <3>1
      <3>4. QED BY <1>b, <3>1, <3>2, <3>3
    <2>6. QED BY <1>a, <2>1, <2>2, <2>5 DEF SlotsAreShared
  <1>4. ASSUME NEW k \in Boxes, NEW box \in BoxValues, NEW global \in BOOLEAN,
               SetBox(k, box, global)
        PROVE  SlotsAreShared'
    <2> DEFINE level == IF global THEN 1 ELSE Len(owner)
    <2>1. /\ cells' = Assigned(cells, k, box, global)
          /\ owner' = TrueAssign(owner, k, level, global)
          /\ (global => level = 1) /\ (~global => level = n + 1) /\ level \in Nat
      BY <1>1, <1>4, CellsShape DEF SetBox
    <2> HIDE DEF level
    <2>2. Depth(cells') = n
      BY <1>a, <2>1, AssignedType
    <2>3. \A i \in 1..(n + 1), q \in Boxes :
             owner'[i][q] = IF q = k /\ (global \/ i = n + 1) THEN level ELSE owner[i][q]
      BY <1>1, <2>1, AssignedOwner
    <2>4. ASSUME NEW q \in Boxes, q # k,
                 NEW j \in 1..(n + 1), NEW i \in 1..j
          PROVE  owner'[i][q] = owner'[j][q]
                    <=> \A m \in i..(j - 1) : cells'.scopes[m][q] = NotSaved
      <3>1. \A m \in 1..n : cells'.scopes[m][q] = cells.scopes[m][q]
        BY <1>a, <1>e, <2>1, <2>2, <2>4, GlobalEntries, LocalEntries DEF Assigned
      <3>2. owner'[i][q] = owner[i][q] /\ owner'[j][q] = owner[j][q]
        BY <1>a, <2>3, <2>4
      <3>3. \A m \in i..(j - 1) : cells'.scopes[m][q] = cells.scopes[m][q]
        BY <1>a, <3>1
      <3>4. owner[i][q] = owner[j][q] <=> \A m \in i..(j - 1) : cells.scopes[m][q] = NotSaved
        BY <1>b
      <3>5. QED BY <3>2, <3>3, <3>4
    <2>5. ASSUME global, NEW j \in 1..(n + 1), NEW i \in 1..j
          PROVE  owner'[i][k] = owner'[j][k]
                    <=> \A m \in i..(j - 1) : cells'.scopes[m][k] = NotSaved
      <3>1. \A m \in 1..n : cells'.scopes[m][k] = NotSaved
        BY <1>a, <1>e, <2>1, <2>2, <2>5, GlobalEntries DEF Assigned
      <3>2. owner'[i][k] = level /\ owner'[j][k] = level
        BY <1>a, <2>3, <2>5
      <3>3. QED BY <1>a, <3>1, <3>2
    <2>6. ASSUME ~global, NEW j \in 1..(n + 1), NEW i \in 1..j
          PROVE  owner'[i][k] = owner'[j][k]
                    <=> \A m \in i..(j - 1) : cells'.scopes[m][k] = NotSaved
      <3>1. \A m \in 1..n : cells'.scopes[m][k] =
               IF m = n /\ cells.scopes[m][k] = NotSaved THEN cells.values[k]
                                                         ELSE cells.scopes[m][k]
        BY <1>a, <1>e, <2>1, <2>2, <2>6, LocalEntries DEF Assigned
      <3>2. CASE j <= n
        <4>1. /\ i \in 1..(n + 1) /\ i # n + 1 /\ j # n + 1
              /\ \A m \in i..(j - 1) : m \in 1..n /\ m # n
          BY <1>a, <3>2
        <4>2. owner'[i][k] = owner[i][k] /\ owner'[j][k] = owner[j][k]
          BY <2>3, <2>6, <4>1
        <4>3. \A m \in i..(j - 1) : cells'.scopes[m][k] = cells.scopes[m][k]
          BY <3>1, <4>1
        <4>4. QED BY <1>b, <4>2, <4>3
      <3>3. CASE j = n + 1 /\ i = n + 1
        BY <1>a, <3>3
      <3>4. CASE j = n + 1 /\ i <= n
        <4>1. owner'[j][k] = n + 1 /\ owner'[i][k] = owner[i][k]
          BY <1>a, <2>1, <2>3, <2>6, <3>4
        <4>2. owner'[i][k] # owner'[j][k]
          BY <1>a, <3>4, <4>1
        <4>3. n \in i..(j - 1) /\ cells'.scopes[n][k] # NotSaved
          BY <1>a, <3>1, <3>4
        <4>4. QED BY <4>2, <4>3
      <3>5. QED BY <1>a, <3>2, <3>3, <3>4
    <2>7. QED BY <2>2, <2>4, <2>5, <2>6 DEF SlotsAreShared
  <1>5. ASSUME NEW k \in Boxes, NEW box \in BoxValues,
               cells' = update_current(k, box), owner' = owner
        PROVE  SlotsAreShared'
    <2>1. Depth(cells') = n /\ cells'.scopes = cells.scopes
      BY <1>1, <1>5, UpdatedEntries
    <2>2. QED BY <1>b, <1>5, <2>1 DEF SlotsAreShared
  <1>6. CASE DoubtBoxes
    <2>1. cells' = MarkEstablished(cells, Boxes) /\ owner' = owner
      BY <1>6 DEF DoubtBoxes
    <2>2. Depth(cells') = n
      BY <1>a, <2>1, MarkedEntries
    <2>3. \A m \in 1..n, k \in Boxes : cells'.scopes[m][k] = NotSaved <=> cells.scopes[m][k] = NotSaved
      BY <1>a, <1>e, <2>1, <2>2, MarkedEntries, SentinelsDiffer
    <2>4. ASSUME NEW k \in Boxes, NEW j \in 1..(n + 1), NEW i \in 1..j
          PROVE  owner'[i][k] = owner'[j][k]
                    <=> \A m \in i..(j - 1) : cells'.scopes[m][k] = NotSaved
      <3>1. \A m \in i..(j - 1) : m \in 1..n
        BY <1>a
      <3>2. owner[i][k] = owner[j][k] <=> \A m \in i..(j - 1) : cells.scopes[m][k] = NotSaved
        BY <1>b
      <3>3. QED BY <2>1, <2>3, <3>1, <3>2
    <2>5. QED BY <2>2, <2>4 DEF SlotsAreShared
  <1>7. CASE UNCHANGED cellVars
    BY <1>1, <1>7 DEF SlotsAreShared, cellVars
  <1>8. ASSUME NEW k \in Boxes, Take(k) PROVE SlotsAreShared'
    BY <1>5, <1>8 DEF Take, BoxValues
  <1>9. ASSUME NEW k \in Boxes, NEW box \in Contents, Resize(k, box) PROVE SlotsAreShared'
    BY <1>5, <1>9 DEF Resize, BoxValues
  <1>10. QED BY <1>1, <1>2, <1>3, <1>4, <1>6, <1>7, <1>8, <1>9 DEF CellsNext

(* Two levels share a box's slot exactly when no journal between them      *)
(* saved it (assign, push and pop of engine/state_cells.py).               *)
THEOREM SlotsStayShared == CellsSpec => []SlotsAreShared
PROOF
  <1>1. CellsInit => CellsTypeOK /\ SlotsAreShared
    BY CellsInitType, InitShares
  <1>2. CellsTypeOK /\ SlotsAreShared /\ [CellsNext]_cellVars => (CellsTypeOK /\ SlotsAreShared)'
    BY CellsNextType, NextShares
  <1>3. QED BY <1>1, <1>2, PTL DEF CellsSpec

-----------------------------------------------------------------------------
(* An unsaved write of the current slot keeps every promise: the levels    *)
(* its new box is supplied to are those that share the slot.               *)
LEMMA UpdatedSound ==
  ASSUME CellsTypeOK, SlotsAreShared, NEW k \in Boxes, NEW box \in BoxValues,
         NEW default, Sound(cells, trueBoxes, default)
  PROVE  Sound(update_current(k, box), TrueUpdate(k, box), default)
PROOF
  <1> DEFINE n == Depth(cells)
             st == update_current(k, box)
             boxes == TrueUpdate(k, box)
  <1>1. /\ cells \in Stores(Boxes, BoxValues) /\ n \in Nat /\ KeysOf(cells) = Boxes
        /\ st \in Stores(Boxes, BoxValues) /\ Depth(st) = n /\ KeysOf(st) = Boxes
        /\ NotSaved \notin BoxValues /\ Absent \notin BoxValues
    BY CellsShape, UpdatedEntries, StoreShape, PlainBoxes DEF Plain
  <1>2. /\ \A j \in 1..n : EntryAt(st, j) = EntryAt(cells, j) /\ EntryAt(cells, j) = cells.scopes[j]
        /\ \A q \in Boxes : EntryAt(st, n + 1)[q] = IF q = k THEN box ELSE EntryAt(cells, n + 1)[q]
        /\ EntryAt(cells, n + 1) = cells.values
        /\ cells.values \in [Boxes -> Entries(BoxValues)]
    <2>1. /\ \A j \in 1..n : EntryAt(cells, j) = cells.scopes[j]
          /\ EntryAt(cells, n + 1) = cells.values
          /\ cells.values \in [Boxes -> Entries(BoxValues)]
      BY <1>1, EntriesOfStore, StoreShape
    <2>2. /\ \A j \in 1..n : EntryAt(st, j) = EntryAt(cells, j)
          /\ \A q \in Boxes : EntryAt(st, n + 1)[q] = IF q = k THEN box ELSE EntryAt(cells, n + 1)[q]
      BY UpdatedEntries
    <2>3. QED BY <2>1, <2>2
  <1>3. \A i \in 1..(n + 1), q \in Boxes :
           boxes[i][q] = IF q = k /\ owner[i][k] = owner[n + 1][k] THEN box ELSE trueBoxes[i][q]
    BY TrueUpdateIs
  <1>4. \A q \in Boxes : SoundAt(cells, trueBoxes, default, q)
    BY <1>1, SoundByKey
  <1>5. \A i \in 1..(n + 1) :
           owner[i][k] = owner[n + 1][k] <=> \A m \in i..n : cells.scopes[m][k] = NotSaved
    <2>1. n + 1 \in 1..(n + 1) /\ (n + 1) - 1 = n
      BY <1>1
    <2>2. \A i \in 1..(n + 1) :
             owner[i][k] = owner[n + 1][k] <=> \A m \in i..((n + 1) - 1) : cells.scopes[m][k] = NotSaved
      BY <2>1 DEF SlotsAreShared
    <2>3. QED BY <2>1, <2>2
  <1> HIDE DEF st, boxes, n
  <1>6. ASSUME NEW q \in Boxes, NEW i \in 1..(n + 1), NEW j \in i..(n + 1), Supplies(st, q, i, j)
        PROVE  Honest(EntryAt(st, j)[q], default[i][q], boxes[i][q])
    <2>0. \A m \in i..(j - 1) : m \in 1..n
      BY <1>1
    <2>1. CASE q = k /\ j = n + 1
      <3>1. \A m \in i..n : cells.scopes[m][k] = NotSaved
        BY <1>1, <1>2, <1>6, <2>0, <2>1 DEF Supplies
      <3>2. EntryAt(st, j)[q] = box /\ boxes[i][q] = box
        BY <1>2, <1>3, <1>5, <2>1, <3>1
      <3>3. QED BY <1>1, <3>2 DEF Honest, Reading
    <2>2. CASE q # k \/ j <= n
      <3>1. EntryAt(st, j)[q] = EntryAt(cells, j)[q]
        BY <1>1, <1>2, <2>2
      <3>2. Supplies(cells, q, i, j)
        BY <1>2, <1>6, <2>0, <3>1 DEF Supplies
      <3>3. boxes[i][q] = trueBoxes[i][q]
        <4>1. CASE q # k
          BY <1>3, <4>1
        <4>2. CASE q = k /\ j <= n
          <5>1. cells.scopes[j][k] # NotSaved /\ j \in i..n
            BY <1>1, <1>2, <3>2, <4>2 DEF Supplies
          <5>2. QED BY <1>3, <1>5, <4>2, <5>1
        <4>3. QED BY <2>2, <4>1, <4>2
      <3>4. Honest(EntryAt(cells, j)[q], default[i][q], trueBoxes[i][q])
        BY <1>1, <1>4, <3>2 DEF SoundAt, n
      <3>5. QED BY <3>1, <3>3, <3>4
    <2>3. QED BY <1>1, <2>1, <2>2
  <1>7. Sound(st, boxes, default)
    BY <1>1, <1>6 DEF Sound
  <1>8. QED BY <1>7 DEF st, boxes

LEMMA InitIsTrue == CellsInit => CellsAreTrue
PROOF
  <1>1. SUFFICES ASSUME CellsInit PROVE CellsAreTrue
    OBVIOUS
  <1>2. PICK table \in [Boxes -> BoxValues] :
           (Settled => \A k \in Boxes : table[k] = Void) /\ trueBoxes = <<table>>
    BY <1>1 DEF CellsInit
  <1>3. cells.values = [k \in Boxes |-> Absent] /\ initialUncertain = FALSE
    BY <1>1 DEF CellsInit
  <1>4. CellsTypeOK /\ Depth(cells) = 0
    BY <1>1, CellsInitType DEF CellsInit, Depth
  <1>5. cells \in Stores(Boxes, BoxValues)
    BY <1>4, CellsShape
  <1>6. SUFFICES ASSUME NEW k \in Boxes PROVE SoundAt(cells, trueBoxes, VoidEverywhere, k)
    BY <1>5, SoundByKey DEF CellsAreTrue, VoidEverywhere
  <1>7. EntryAt(cells, 1) = cells.values /\ VoidEverywhere[1][k] = IF Settled THEN Void ELSE Uncertain
    BY <1>3, <1>4, VoidEverywhereIs DEF EntryAt, VoidReads
  <1>8. Honest(cells.values[k], VoidEverywhere[1][k], trueBoxes[1][k])
    BY <1>2, <1>3, <1>7 DEF Honest, Reading
  <1>9. QED BY <1>4, <1>7, <1>8 DEF SoundAt

LEMMA NextIsTrue ==
  CellsTypeOK /\ SlotsAreShared /\ CellsAreTrue /\ [CellsNext]_cellVars => CellsAreTrue'
PROOF
  <1>1. SUFFICES ASSUME CellsTypeOK, SlotsAreShared, CellsAreTrue, [CellsNext]_cellVars
                 PROVE  CellsAreTrue'
    OBVIOUS
  <1> DEFINE n == Depth(cells)
  <1>2. Sound(cells, trueBoxes, VoidEverywhere)
    BY <1>1 DEF CellsAreTrue, VoidEverywhere
  <1>3. SUFFICES Sound(cells', trueBoxes', VoidEverywhere')
    BY DEF CellsAreTrue, VoidEverywhere
  <1>4. CellsTypeOK' /\ cells' \in Stores(Boxes, BoxValues)
    BY <1>1, CellsNextType DEF CellsTypeOK
  <1>5. /\ cells \in Stores(Boxes, BoxValues) /\ trueBoxes \in TruthTables(Boxes, BoxValues)
        /\ Len(trueBoxes) = n + 1 /\ n \in Nat
    BY <1>1, CellsShape
  <1>6. CASE PushBoxes
    <2>1. /\ cells' = Pushed(cells) /\ trueBoxes' = TruePush(trueBoxes)
          /\ VoidReads' = VoidReads
      BY <1>6 DEF PushBoxes, VoidReads
    <2>2. Depth(cells') = n + 1
      BY <1>5, <2>1, PushedType
    <2>3. /\ \A i \in 1..(n + 1), k \in Boxes : VoidEverywhere'[i][k] = VoidEverywhere[i][k]
          /\ \A k \in Boxes : VoidEverywhere'[n + 2][k] = VoidEverywhere[n + 1][k]
      BY <1>1, <1>4, <1>5, <2>1, <2>2, VoidEverywhereIs, VoidEverywhereIsNext
    <2>4. Sound(Pushed(cells), TruePush(trueBoxes), VoidEverywhere')
      BY <1>2, <1>5, <2>3, PlainBoxes, PushedSound
    <2>5. QED BY <2>1, <2>4
  <1>7. CASE PopBoxes
    <2>1. /\ cells' = Popped(cells) /\ trueBoxes' = TruePop(trueBoxes) /\ n > 0
          /\ VoidReads' = VoidReads
      BY <1>7 DEF PopBoxes, VoidReads
    <2>2. Depth(cells') = n - 1
      BY <1>5, <2>1, PoppedType
    <2>3. \A i \in 1..n, k \in Boxes : VoidEverywhere'[i][k] = VoidEverywhere[i][k]
      BY <1>1, <1>4, <1>5, <2>1, <2>2, VoidEverywhereIs, VoidEverywhereIsNext
    <2>4. Sound(Popped(cells), TruePop(trueBoxes), VoidEverywhere')
      BY <1>2, <1>5, <2>1, <2>3, PlainBoxes, PoppedSound
    <2>5. QED BY <2>1, <2>4
  <1>8. ASSUME NEW k \in Boxes, NEW box \in BoxValues, NEW global \in BOOLEAN,
               SetBox(k, box, global)
        PROVE  Sound(cells', trueBoxes', VoidEverywhere')
    <2>1. /\ cells' = Assigned(cells, k, box, global)
          /\ trueBoxes' = TrueAssign(trueBoxes, k, box, global)
          /\ VoidReads' = VoidReads
      BY <1>8 DEF SetBox, VoidReads
    <2>2. DOMAIN trueBoxes' = DOMAIN trueBoxes
      BY <1>5, <2>1 DEF TrueAssign, TruthTables
    <2>3. VoidEverywhere' = VoidEverywhere
      BY <2>1, <2>2 DEF VoidEverywhere
    <2>4. Sound(Assigned(cells, k, box, global), TrueAssign(trueBoxes, k, box, global), VoidEverywhere)
      BY <1>2, <1>5, PlainBoxes, AssignedSound
    <2>5. QED BY <2>1, <2>3, <2>4
  <1>9. ASSUME NEW k \in Boxes, NEW box \in BoxValues,
               cells' = update_current(k, box), trueBoxes' = TrueUpdate(k, box),
               initialUncertain' = initialUncertain
        PROVE  Sound(cells', trueBoxes', VoidEverywhere')
    <2>1. DOMAIN trueBoxes' = DOMAIN trueBoxes /\ VoidReads' = VoidReads
      BY <1>9 DEF TrueUpdate, VoidReads
    <2>1a. TrueUpdate(k, box) \in TruthTables(Boxes, BoxValues) /\ Len(TrueUpdate(k, box)) = n + 1
      BY <1>1, TrueUpdateIs
    <2>2. VoidEverywhere' = VoidEverywhere
      BY <1>5, <1>9, <2>1a, <2>1 DEF VoidEverywhere, TruthTables
    <2>3. Sound(update_current(k, box), TrueUpdate(k, box), VoidEverywhere)
      BY <1>1, <1>2, UpdatedSound
    <2>4. QED BY <1>9, <2>2, <2>3
  <1>10. CASE DoubtBoxes
    <2>1. cells' = MarkEstablished(cells, Boxes) /\ VoidReads' = Uncertain
      BY <1>10 DEF DoubtBoxes, VoidReads
    <2>2. /\ Depth(cells') = n
          /\ \A j \in 1..(n + 1), k \in Boxes : EntryAt(cells', j)[k] \in {Uncertain, NotSaved, Absent}
      BY <1>5, <2>1, MarkedEntries
    <2>3. \A i \in 1..(n + 1), k \in Boxes : VoidEverywhere'[i][k] = Uncertain
      BY <1>4, <2>1, <2>2, VoidEverywhereIsNext
    <2>4. \A k \in Boxes : SoundAt(cells', trueBoxes', VoidEverywhere', k)
      BY <1>4, <2>2, <2>3, DoubtfulKeySound
    <2>5. QED BY <1>4, <2>4, SoundByKey
  <1>11. CASE UNCHANGED cellVars
    BY <1>2, <1>11 DEF VoidEverywhere, VoidReads, cellVars
  <1>12. ASSUME NEW k \in Boxes, Take(k) PROVE Sound(cells', trueBoxes', VoidEverywhere')
    BY <1>9, <1>12 DEF Take, BoxValues
  <1>13. ASSUME NEW k \in Boxes, NEW box \in Contents, Resize(k, box)
         PROVE  Sound(cells', trueBoxes', VoidEverywhere')
    BY <1>9, <1>13 DEF Resize, BoxValues
  <1>14. QED BY <1>1, <1>6, <1>7, <1>8, <1>10, <1>11, <1>12, <1>13 DEF CellsNext

(* No box register ever answers with a box that TeX has used up, resized   *)
(* or replaced, now or after any number of group ends (assign,             *)
(* update_current and invalidate of engine/state_cells.py).                *)
THEOREM CellsStayTrue == CellsSpec => []CellsAreTrue
PROOF
  <1>1. CellsInit => CellsTypeOK /\ SlotsAreShared /\ CellsAreTrue
    BY CellsInitType, InitShares, InitIsTrue
  <1>2. CellsTypeOK /\ SlotsAreShared /\ CellsAreTrue /\ [CellsNext]_cellVars
           => (CellsTypeOK /\ SlotsAreShared /\ CellsAreTrue)'
    BY CellsNextType, NextShares, NextIsTrue
  <1>3. QED BY <1>1, <1>2, PTL DEF CellsSpec
==============================================================================
