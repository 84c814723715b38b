-------------------------- MODULE SaveJournalProofs --------------------------
(***************************************************************************)
(* Lemmas about the operations of SaveJournal: each returns a store of the *)
(* same keys and values, and each keeps a sound store sound when TeX's     *)
(* state moves with it.                                                    *)
(***************************************************************************)
EXTENDS SaveJournal, SequenceTheorems, TLAPS

(* A function on 1..n with values in S is a sequence over S. *)
LEMMA FunctionIsSeq ==
  ASSUME NEW S, NEW n \in Nat, NEW f \in [1..n -> S]
  PROVE  f \in Seq(S) /\ Len(f) = n
PROOF
  <1>1. f \in Seq(S)
    BY SeqDef
  <1>2. QED BY <1>1

LEMMA StoreShape ==
  ASSUME NEW K, NEW V, NEW st \in Stores(K, V)
  PROVE  /\ KeysOf(st) = K
         /\ Depth(st) \in Nat
         /\ st.values \in [K -> Entries(V)]
         /\ st.scopes \in Seq(Journals(K, V))
         /\ st = [values |-> st.values, scopes |-> st.scopes]
         /\ \A i \in 1..Depth(st) : st.scopes[i] \in [K -> Entries(V) \cup {NotSaved}]
         /\ \A i \in 1..Depth(st), k \in K : st.scopes[i][k] \in Entries(V) \cup {NotSaved}
         /\ \A k \in K : st.values[k] \in Entries(V)
BY DEF Stores, KeysOf, Depth, Journals

-----------------------------------------------------------------------------
(* push keeps the type and opens exactly one group. *)
LEMMA PushedType ==
  ASSUME NEW K, NEW V, NEW st \in Stores(K, V)
  PROVE  Pushed(st) \in Stores(K, V) /\ Depth(Pushed(st)) = Depth(st) + 1
PROOF
  <1> DEFINE empty == [k \in KeysOf(st) |-> NotSaved]
  <1>0. KeysOf(st) = K
    BY StoreShape
  <1>1. empty \in Journals(K, V)
    BY <1>0 DEF Journals
  <1>2. Append(st.scopes, empty) \in Seq(Journals(K, V))
    BY <1>1, StoreShape
  <1>3. Pushed(st) = [values |-> st.values, scopes |-> Append(st.scopes, empty)]
    BY StoreShape DEF Pushed
  <1>4. QED BY <1>2, <1>3, StoreShape DEF Stores, Depth

(* pop keeps the type and closes one group. *)
LEMMA PoppedType ==
  ASSUME NEW K, NEW V, NEW st \in Stores(K, V), Depth(st) > 0
  PROVE  Popped(st) \in Stores(K, V) /\ Depth(Popped(st)) = Depth(st) - 1
PROOF
  <1>1. SubSeq(st.scopes, 1, Depth(st) - 1) \in Seq(Journals(K, V))
    BY StoreShape DEF Depth
  <1>2. Len(SubSeq(st.scopes, 1, Depth(st) - 1)) = Depth(st) - 1
    BY StoreShape DEF Depth
  <1>3. \A k \in K : IF st.scopes[Depth(st)][k] = NotSaved
                       THEN st.values[k] \in Entries(V)
                       ELSE st.scopes[Depth(st)][k] \in Entries(V)
    BY StoreShape
  <1>4. QED BY <1>1, <1>2, <1>3, StoreShape DEF Popped, Stores, Depth

LEMMA SavedOnceType ==
  ASSUME NEW K, NEW V, NEW st \in Stores(K, V), NEW S
  PROVE  SavedOnce(st, S) \in [1..Depth(st) -> Journals(K, V)]
PROOF
  <1>1. KeysOf(st) = K
    BY StoreShape
  <1>2. \A i \in 1..Depth(st), k \in K :
          /\ st.scopes[i][k] \in Entries(V) \cup {NotSaved}
          /\ st.values[k] \in Entries(V) \cup {NotSaved}
    BY StoreShape
  <1>3. QED BY <1>1, <1>2 DEF SavedOnce, Journals

LEMMA AssignedLocallyType ==
  ASSUME NEW K, NEW V, NEW st \in Stores(K, V), NEW key \in K, NEW v \in V
  PROVE  /\ AssignedLocally(st, key, v) \in Stores(K, V)
         /\ Depth(AssignedLocally(st, key, v)) = Depth(st)
PROOF
  <1>1. [st.values EXCEPT ![key] = v] \in [K -> Entries(V)]
    BY StoreShape DEF Entries
  <1>2. SavedOnce(st, {key}) \in Seq(Journals(K, V)) /\ Len(SavedOnce(st, {key})) = Depth(st)
    BY SavedOnceType, FunctionIsSeq, StoreShape
  <1>3. QED BY <1>1, <1>2 DEF AssignedLocally, Stores, Depth

LEMMA AssignedGloballyType ==
  ASSUME NEW K, NEW V, NEW st \in Stores(K, V), NEW key \in K, NEW v \in V
  PROVE  /\ AssignedGlobally(st, key, v) \in Stores(K, V)
         /\ Depth(AssignedGlobally(st, key, v)) = Depth(st)
PROOF
  <1> DEFINE cleared == [i \in 1..Depth(st) |-> [st.scopes[i] EXCEPT ![key] = NotSaved]]
  <1>1. [st.values EXCEPT ![key] = v] \in [K -> Entries(V)]
    BY StoreShape DEF Entries
  <1>2. cleared \in [1..Depth(st) -> Journals(K, V)]
    BY StoreShape DEF Journals
  <1>3. cleared \in Seq(Journals(K, V)) /\ Len(cleared) = Depth(st)
    BY <1>2, FunctionIsSeq, StoreShape
  <1>4. QED BY <1>1, <1>3 DEF AssignedGlobally, Stores, Depth

(* Either scope keeps the type and the depth. *)
LEMMA AssignedType ==
  ASSUME NEW K, NEW V, NEW st \in Stores(K, V), NEW key \in K, NEW v \in V,
         NEW global \in BOOLEAN
  PROVE  /\ Assigned(st, key, v, global) \in Stores(K, V)
         /\ Depth(Assigned(st, key, v, global)) = Depth(st)
BY AssignedLocallyType, AssignedGloballyType DEF Assigned

LEMMA DoubtedType ==
  ASSUME NEW K, NEW V, NEW st \in Stores(K, V), NEW S
  PROVE  /\ DoubtedLocally(st, S) \in Stores(K, V) /\ Depth(DoubtedLocally(st, S)) = Depth(st)
         /\ DoubtedGlobally(st, S) \in Stores(K, V) /\ Depth(DoubtedGlobally(st, S)) = Depth(st)
PROOF
  <1> DEFINE values == [k \in KeysOf(st) |-> IF k \in S THEN Uncertain ELSE st.values[k]]
             marked == [i \in 1..Depth(st) |->
                          [k \in KeysOf(st) |-> IF k \in S THEN Uncertain ELSE st.scopes[i][k]]]
  <1>1. values \in [K -> Entries(V)]
    BY StoreShape DEF Entries
  <1>2. SavedOnce(st, S) \in Seq(Journals(K, V)) /\ Len(SavedOnce(st, S)) = Depth(st)
    BY SavedOnceType, FunctionIsSeq, StoreShape
  <1>a. KeysOf(st) = K /\ Uncertain \in Entries(V)
    BY StoreShape DEF Entries
  <1>b. \A i \in 1..Depth(st), k \in K : st.scopes[i][k] \in Entries(V) \cup {NotSaved}
    BY StoreShape
  <1>3. marked \in [1..Depth(st) -> Journals(K, V)]
    BY <1>a, <1>b DEF Journals
  <1>4. marked \in Seq(Journals(K, V)) /\ Len(marked) = Depth(st)
    BY <1>3, FunctionIsSeq, StoreShape
  <1>5. QED
    BY <1>1, <1>2, <1>4 DEF DoubtedLocally, DoubtedGlobally, Stores, Depth

-----------------------------------------------------------------------------
(* Soundness key by key. *)
SoundAt(st, truth, default, k) ==
  \A i \in 1..(Depth(st) + 1) : \A j \in i..(Depth(st) + 1) :
     Supplies(st, k, i, j) => Honest(EntryAt(st, j)[k], default[i][k], truth[i][k])

LEMMA SoundByKey ==
  ASSUME NEW K, NEW V, NEW st \in Stores(K, V), NEW truth, NEW default
  PROVE  Sound(st, truth, default) <=> \A k \in K : SoundAt(st, truth, default, k)
BY StoreShape DEF Sound, SoundAt

(* An uncertain default makes no promise. *)
LEMMA UncertainIsHonest ==
  ASSUME NEW d, NEW t
  PROVE  Honest(Uncertain, d, t) /\ Honest(Absent, Uncertain, t)
BY SentinelsDiffer DEF Honest, Reading

(* A key whose entries stay stays sound if, level by level, TeX's value    *)
(* stays and the default stays or becomes uncertain.                       *)
LEMMA UntouchedKeySound ==
  ASSUME NEW K, NEW V, NEW st \in Stores(K, V), NEW st2 \in Stores(K, V),
         Depth(st2) = Depth(st), NEW k \in K,
         NEW truth, NEW truth2, NEW default, NEW default2,
         \A j \in 1..(Depth(st) + 1) : EntryAt(st2, j)[k] = EntryAt(st, j)[k],
         \A i \in 1..(Depth(st) + 1) :
            /\ truth2[i][k] = truth[i][k]
            /\ default2[i][k] = default[i][k] \/ default2[i][k] = Uncertain,
         SoundAt(st, truth, default, k)
  PROVE  SoundAt(st2, truth2, default2, k)
PROOF
  <1>1. Depth(st) \in Nat
    BY StoreShape
  <1>2. SUFFICES ASSUME NEW i \in 1..(Depth(st) + 1), NEW j \in i..(Depth(st) + 1),
                        Supplies(st2, k, i, j)
                 PROVE  Honest(EntryAt(st2, j)[k], default2[i][k], truth2[i][k])
    BY DEF SoundAt
  <1>3. Supplies(st, k, i, j)
    BY <1>1, <1>2 DEF Supplies
  <1>4. Honest(EntryAt(st, j)[k], default[i][k], truth[i][k])
    BY <1>3 DEF SoundAt
  <1>5. QED BY <1>1, <1>4 DEF Honest, Reading

-----------------------------------------------------------------------------
(* Opening a group keeps every promise about a key, at the new level too. *)
LEMMA PushedKeySound ==
  ASSUME NEW K, NEW V, NEW st \in Stores(K, V), NEW k \in K,
         NEW truth \in TruthTables(K, V), Len(truth) = Depth(st) + 1,
         NEW default, NEW default2,
         \A i \in 1..(Depth(st) + 1) : default2[i][k] = default[i][k],
         default2[Depth(st) + 2][k] = default[Depth(st) + 1][k],
         NotSaved \notin Entries(V),
         SoundAt(st, truth, default, k)
  PROVE  SoundAt(Pushed(st), TruePush(truth), default2, k)
PROOF
  <1> DEFINE n == Depth(st)
             st2 == Pushed(st)
  <1>1. n \in Nat /\ st2 \in Stores(K, V) /\ Depth(st2) = n + 1 /\ KeysOf(st) = K
    BY StoreShape, PushedType
  <1>2. /\ \A j \in 1..n : EntryAt(st2, j)[k] = EntryAt(st, j)[k]
        /\ EntryAt(st2, n + 1)[k] = NotSaved
        /\ EntryAt(st2, n + 2)[k] = EntryAt(st, n + 1)[k]
        /\ EntryAt(st, n + 1)[k] # NotSaved
    <2>1. st.scopes \in Seq(Journals(K, V)) /\ Len(st.scopes) = n
      BY StoreShape DEF Depth
    <2>2. st.values[k] # NotSaved
      BY StoreShape
    <2>3. QED BY <1>1, <2>1, <2>2 DEF EntryAt, Pushed, Depth
  <1>3. /\ \A i \in 1..(n + 1) : TruePush(truth)[i] = truth[i]
        /\ TruePush(truth)[n + 2] = truth[n + 1]
    BY <1>1 DEF TruePush, TruthTables
  <1>4. SUFFICES ASSUME NEW i \in 1..(n + 2), NEW j \in i..(n + 2),
                        Supplies(st2, k, i, j)
                 PROVE  Honest(EntryAt(st2, j)[k], default2[i][k], TruePush(truth)[i][k])
    BY <1>1 DEF SoundAt
  <1>5. \A i2 \in 1..(n + 1), j2 \in 1..(n + 1) :
          i2 <= j2 /\ Supplies(st, k, i2, j2)
             => Honest(EntryAt(st, j2)[k], default[i2][k], truth[i2][k])
    BY <1>1 DEF SoundAt
  <1>6. CASE j <= n
    <2>1. Supplies(st, k, i, j)
      BY <1>1, <1>2, <1>4, <1>6 DEF Supplies
    <2>2. QED BY <1>1, <1>2, <1>3, <1>5, <1>6, <2>1
  <1>7. CASE j = n + 1
    BY <1>1, <1>2, <1>4, <1>7 DEF Supplies
  <1>8. CASE j = n + 2 /\ i <= n + 1
    <2>a. \A m \in i..((n + 1) - 1) : m \in 1..n /\ m \in i..(j - 1)
      BY <1>1, <1>8
    <2>b. \A m \in i..((n + 1) - 1) : EntryAt(st, m)[k] = NotSaved
      BY <1>2, <1>4, <2>a DEF Supplies
    <2>1. Supplies(st, k, i, n + 1)
      BY <1>2, <2>b DEF Supplies
    <2>2. Honest(EntryAt(st, n + 1)[k], default[i][k], truth[i][k])
      BY <1>1, <1>5, <1>8, <2>1
    <2>3. QED BY <1>1, <1>2, <1>3, <1>8, <2>2
  <1>9. CASE j = n + 2 /\ i = n + 2
    <2>1. Supplies(st, k, n + 1, n + 1)
      BY <1>1, <1>2 DEF Supplies
    <2>2. Honest(EntryAt(st, n + 1)[k], default[n + 1][k], truth[n + 1][k])
      BY <1>1, <1>5, <2>1
    <2>3. QED BY <1>1, <1>2, <1>3, <1>9, <2>2
  <1>10. QED BY <1>1, <1>6, <1>7, <1>8, <1>9

(* Opening a group keeps every promise. *)
LEMMA PushedSound ==
  ASSUME NEW K, NEW V, NEW st \in Stores(K, V),
         NEW truth \in TruthTables(K, V), Len(truth) = Depth(st) + 1,
         NEW default, NEW default2,
         \A i \in 1..(Depth(st) + 1), k \in K : default2[i][k] = default[i][k],
         \A k \in K : default2[Depth(st) + 2][k] = default[Depth(st) + 1][k],
         NotSaved \notin Entries(V),
         Sound(st, truth, default)
  PROVE  Sound(Pushed(st), TruePush(truth), default2)
PROOF
  <1>1. Pushed(st) \in Stores(K, V)
    BY PushedType
  <1>2. \A k \in K : SoundAt(st, truth, default, k)
    BY SoundByKey
  <1>3. \A k \in K : SoundAt(Pushed(st), TruePush(truth), default2, k)
    BY <1>2, PushedKeySound
  <1>4. QED BY <1>1, <1>3, SoundByKey

(* Leaving a group answers what the journal promised for that level. *)
LEMMA PoppedKeySound ==
  ASSUME NEW K, NEW V, NEW st \in Stores(K, V), Depth(st) > 0, NEW k \in K,
         NEW truth \in TruthTables(K, V), Len(truth) = Depth(st) + 1,
         NEW default, NEW default2,
         \A i \in 1..Depth(st) : default2[i][k] = default[i][k],
         NotSaved \notin Entries(V),
         SoundAt(st, truth, default, k)
  PROVE  SoundAt(Popped(st), TruePop(truth), default2, k)
PROOF
  <1> DEFINE n == Depth(st)
             st2 == Popped(st)
  <1>1. n \in Nat /\ n > 0 /\ st2 \in Stores(K, V) /\ Depth(st2) = n - 1 /\ KeysOf(st) = K
    BY StoreShape, PoppedType
  <1>2. /\ \A j \in 1..(n - 1) : EntryAt(st2, j)[k] = EntryAt(st, j)[k]
        /\ EntryAt(st2, n)[k] = IF EntryAt(st, n)[k] = NotSaved
                                  THEN EntryAt(st, n + 1)[k]
                                  ELSE EntryAt(st, n)[k]
        /\ EntryAt(st, n + 1)[k] # NotSaved
    <2>1. st.scopes \in Seq(Journals(K, V)) /\ Len(st.scopes) = n
      BY StoreShape DEF Depth
    <2>2. st.values[k] # NotSaved
      BY StoreShape
    <2>3. QED BY <1>1, <2>1, <2>2 DEF EntryAt, Popped, Depth
  <1>3. \A i \in 1..n : TruePop(truth)[i] = truth[i]
    BY <1>1 DEF TruePop, TruthTables
  <1>4. SUFFICES ASSUME NEW i \in 1..n, NEW j \in i..n,
                        Supplies(st2, k, i, j)
                 PROVE  Honest(EntryAt(st2, j)[k], default2[i][k], TruePop(truth)[i][k])
    BY <1>1 DEF SoundAt
  <1>5. \A j2 \in i..(n + 1) :
          Supplies(st, k, i, j2) => Honest(EntryAt(st, j2)[k], default[i][k], truth[i][k])
    BY <1>1 DEF SoundAt
  <1>6. CASE j < n
    <2>1. Supplies(st, k, i, j)
      BY <1>1, <1>2, <1>4, <1>6 DEF Supplies
    <2>2. QED BY <1>1, <1>2, <1>3, <1>5, <1>6, <2>1
  <1>7. CASE j = n /\ EntryAt(st, n)[k] # NotSaved
    <2>1. Supplies(st, k, i, n)
      BY <1>1, <1>2, <1>4, <1>7 DEF Supplies
    <2>2. Honest(EntryAt(st, n)[k], default[i][k], truth[i][k])
      BY <1>1, <1>5, <2>1
    <2>3. QED BY <1>1, <1>2, <1>3, <1>7, <2>2
  <1>8. CASE j = n /\ EntryAt(st, n)[k] = NotSaved
    <2>1. Supplies(st, k, i, n + 1)
      BY <1>1, <1>2, <1>4, <1>8 DEF Supplies
    <2>2. Honest(EntryAt(st, n + 1)[k], default[i][k], truth[i][k])
      BY <1>1, <1>5, <2>1
    <2>3. QED BY <1>1, <1>2, <1>3, <1>8, <2>2
  <1>9. QED BY <1>1, <1>6, <1>7, <1>8

(* Leaving a group keeps every promise about the groups around it. *)
LEMMA PoppedSound ==
  ASSUME NEW K, NEW V, NEW st \in Stores(K, V), Depth(st) > 0,
         NEW truth \in TruthTables(K, V), Len(truth) = Depth(st) + 1,
         NEW default, NEW default2,
         \A i \in 1..Depth(st), k \in K : default2[i][k] = default[i][k],
         NotSaved \notin Entries(V),
         Sound(st, truth, default)
  PROVE  Sound(Popped(st), TruePop(truth), default2)
PROOF
  <1>1. Popped(st) \in Stores(K, V)
    BY PoppedType
  <1>2. \A k \in K : SoundAt(st, truth, default, k)
    BY SoundByKey
  <1>3. \A k \in K : SoundAt(Popped(st), TruePop(truth), default2, k)
    BY <1>2, PoppedKeySound
  <1>4. QED BY <1>1, <1>3, SoundByKey

-----------------------------------------------------------------------------
(* Entries after a write: what each level holds for the key and the rest.  *)
LEMMA EntriesOfStore ==
  ASSUME NEW K, NEW V, NEW st \in Stores(K, V)
  PROVE  /\ \A j \in 1..Depth(st) : EntryAt(st, j) = st.scopes[j]
         /\ EntryAt(st, Depth(st) + 1) = st.values
BY StoreShape DEF EntryAt

LEMMA GlobalEntries ==
  ASSUME NEW K, NEW V, NEW st \in Stores(K, V), NEW key \in K, NEW v \in V
  PROVE  /\ AssignedGlobally(st, key, v) \in Stores(K, V)
         /\ Depth(AssignedGlobally(st, key, v)) = Depth(st)
         /\ \A j \in 1..Depth(st), k \in K :
               EntryAt(AssignedGlobally(st, key, v), j)[k] =
                  IF k = key THEN NotSaved ELSE EntryAt(st, j)[k]
         /\ \A k \in K : EntryAt(AssignedGlobally(st, key, v), Depth(st) + 1)[k] =
                            IF k = key THEN v ELSE EntryAt(st, Depth(st) + 1)[k]
PROOF
  <1> DEFINE n == Depth(st)
             st2 == AssignedGlobally(st, key, v)
  <1>1. st2 \in Stores(K, V) /\ Depth(st2) = n
    BY AssignedGloballyType
  <1>2. /\ n \in Nat /\ KeysOf(st) = K
        /\ st.values \in [K -> Entries(V)]
        /\ \A i \in 1..n : st.scopes[i] \in [K -> Entries(V) \cup {NotSaved}]
    BY StoreShape
  <1>3. /\ \A k \in K : st2.values[k] = IF k = key THEN v ELSE st.values[k]
        /\ \A i \in 1..n, k \in K :
              st2.scopes[i][k] = IF k = key THEN NotSaved ELSE st.scopes[i][k]
    BY <1>2 DEF AssignedGlobally
  <1>4. QED BY <1>1, <1>2, <1>3, EntriesOfStore

LEMMA LocalEntries ==
  ASSUME NEW K, NEW V, NEW st \in Stores(K, V), NEW key \in K, NEW v \in V
  PROVE  /\ AssignedLocally(st, key, v) \in Stores(K, V)
         /\ Depth(AssignedLocally(st, key, v)) = Depth(st)
         /\ \A j \in 1..Depth(st), k \in K :
               EntryAt(AssignedLocally(st, key, v), j)[k] =
                  IF j = Depth(st) /\ k = key /\ EntryAt(st, j)[k] = NotSaved
                    THEN EntryAt(st, Depth(st) + 1)[k] ELSE EntryAt(st, j)[k]
         /\ \A k \in K : EntryAt(AssignedLocally(st, key, v), Depth(st) + 1)[k] =
                            IF k = key THEN v ELSE EntryAt(st, Depth(st) + 1)[k]
PROOF
  <1> DEFINE n == Depth(st)
             st2 == AssignedLocally(st, key, v)
  <1>1. st2 \in Stores(K, V) /\ Depth(st2) = n
    BY AssignedLocallyType
  <1>2. /\ n \in Nat /\ KeysOf(st) = K
        /\ st.values \in [K -> Entries(V)]
        /\ \A i \in 1..n : st.scopes[i] \in [K -> Entries(V) \cup {NotSaved}]
    BY StoreShape
  <1>3. /\ \A k \in K : st2.values[k] = IF k = key THEN v ELSE st.values[k]
        /\ \A i \in 1..n, k \in K :
              st2.scopes[i][k] = IF i = n /\ k = key /\ st.scopes[i][k] = NotSaved
                                   THEN st.values[k] ELSE st.scopes[i][k]
    BY <1>2 DEF AssignedLocally, SavedOnce
  <1>4. QED BY <1>1, <1>2, <1>3, EntriesOfStore

(* A key written in the current group only: the promise of every outer     *)
(* level moves from the current values into the innermost journal.         *)
LEMMA SavedKeySound ==
  ASSUME NEW K, NEW V, NotSaved \notin Entries(V),
         NEW st \in Stores(K, V), NEW st2 \in Stores(K, V), Depth(st2) = Depth(st),
         NEW key \in K, NEW truth, NEW truth2, NEW default, NEW default2,
         \A j \in 1..(Depth(st) - 1) : EntryAt(st2, j)[key] = EntryAt(st, j)[key],
         Depth(st) > 0 => EntryAt(st2, Depth(st))[key] =
                            IF EntryAt(st, Depth(st))[key] = NotSaved
                              THEN EntryAt(st, Depth(st) + 1)[key]
                              ELSE EntryAt(st, Depth(st))[key],
         \A i \in 1..Depth(st) : truth2[i][key] = truth[i][key] /\ default2[i][key] = default[i][key],
         Honest(EntryAt(st2, Depth(st) + 1)[key],
                default2[Depth(st) + 1][key], truth2[Depth(st) + 1][key]),
         SoundAt(st, truth, default, key)
  PROVE  SoundAt(st2, truth2, default2, key)
PROOF
  <1> DEFINE n == Depth(st)
  <1>1. n \in Nat /\ KeysOf(st) = K
    BY StoreShape
  <1>2. EntryAt(st, n + 1)[key] # NotSaved
    BY StoreShape DEF EntryAt
  <1>3. SUFFICES ASSUME NEW i \in 1..(n + 1), NEW j \in i..(n + 1),
                        Supplies(st2, key, i, j)
                 PROVE  Honest(EntryAt(st2, j)[key], default2[i][key], truth2[i][key])
    BY DEF SoundAt
  <1>4. CASE i = n + 1
    BY <1>1, <1>4
  <1>5. CASE i # n + 1
    <2>1. n > 0 /\ i \in 1..n
      BY <1>1, <1>5
    <2>2. \A j2 \in i..(n + 1) : Supplies(st, key, i, j2)
             => Honest(EntryAt(st, j2)[key], default2[i][key], truth2[i][key])
      BY <1>1, <2>1 DEF SoundAt
    <2>3. CASE j < n
      <3>1. Supplies(st, key, i, j)
        BY <1>1, <1>3, <2>3 DEF Supplies
      <3>2. QED BY <1>1, <2>2, <2>3, <3>1
    <2>4. CASE j = n /\ EntryAt(st, n)[key] # NotSaved
      <3>1. Supplies(st, key, i, j)
        BY <1>1, <1>3, <2>4 DEF Supplies
      <3>2. QED BY <1>1, <2>1, <2>2, <2>4, <3>1
    <2>5. CASE j = n /\ EntryAt(st, n)[key] = NotSaved
      <3>1. \A m \in i..(n - 1) : EntryAt(st, m)[key] = NotSaved
        BY <1>1, <1>3, <2>1, <2>5 DEF Supplies
      <3>2. \A m \in i..((n + 1) - 1) : EntryAt(st, m)[key] = NotSaved
        BY <1>1, <2>5, <3>1
      <3>3. Supplies(st, key, i, n + 1)
        BY <1>2, <3>2 DEF Supplies
      <3>4. QED BY <1>1, <2>1, <2>2, <2>5, <3>3
    <2>6. CASE j = n + 1
      <3>1. n \in i..(j - 1)
        BY <1>1, <2>1, <2>6
      <3>2. EntryAt(st2, n)[key] = NotSaved
        BY <1>3, <3>1 DEF Supplies
      <3>3. QED BY <1>2, <2>1, <3>2
    <2>7. QED BY <1>1, <2>1, <2>3, <2>4, <2>5, <2>6
  <1>6. QED BY <1>4, <1>5

(* A key no journal can restore reads as its current value at every level. *)
LEMMA UnsavedKeySound ==
  ASSUME NEW K, NEW V, NEW st2 \in Stores(K, V), NEW key \in K,
         NEW truth2, NEW default2,
         \A j \in 1..Depth(st2) : EntryAt(st2, j)[key] = NotSaved,
         \A i \in 1..(Depth(st2) + 1) :
            Honest(EntryAt(st2, Depth(st2) + 1)[key], default2[i][key], truth2[i][key])
  PROVE  SoundAt(st2, truth2, default2, key)
PROOF
  <1>1. Depth(st2) \in Nat
    BY StoreShape
  <1>2. \A i \in 1..(Depth(st2) + 1), j \in 1..(Depth(st2) + 1) :
           Supplies(st2, key, i, j) => j = Depth(st2) + 1
    BY <1>1 DEF Supplies
  <1>3. QED BY <1>1, <1>2 DEF SoundAt

LEMMA TrueAssignType ==
  ASSUME NEW K, NEW V, NEW truth \in TruthTables(K, V), NEW key \in K, NEW v \in V,
         NEW global \in BOOLEAN
  PROVE  /\ TrueAssign(truth, key, v, global) \in TruthTables(K, V)
         /\ Len(TrueAssign(truth, key, v, global)) = Len(truth)
PROOF
  <1>1. Len(truth) \in Nat /\ \A i \in 1..Len(truth) : truth[i] \in [K -> V]
    BY DEF TruthTables
  <1>2. TrueAssign(truth, key, v, global) \in [1..Len(truth) -> [K -> V]]
    BY <1>1 DEF TrueAssign
  <1>3. QED BY <1>1, <1>2, FunctionIsSeq DEF TruthTables

-----------------------------------------------------------------------------
(* A write the reader scopes as TeX does keeps every promise about a key,  *)
(* and a global write makes the promises about its own key.                *)
LEMMA AssignedKeySound ==
  ASSUME NEW K, NEW V, Plain(V), NotSaved \notin Entries(V),
         NEW st \in Stores(K, V), NEW key \in K, NEW v \in V, NEW k \in K,
         NEW global \in BOOLEAN,
         NEW truth \in TruthTables(K, V), Len(truth) = Depth(st) + 1,
         NEW default, SoundAt(st, truth, default, k) \/ (k = key /\ global)
  PROVE  SoundAt(Assigned(st, key, v, global), TrueAssign(truth, key, v, global), default, k)
PROOF
  <1> DEFINE n == Depth(st)
             truth2 == TrueAssign(truth, key, v, global)
             st2 == Assigned(st, key, v, global)
  <1>1. n \in Nat /\ KeysOf(st) = K /\ st2 \in Stores(K, V) /\ Depth(st2) = n
    BY StoreShape, AssignedType
  <1>2. \A i \in 1..(n + 1) : truth[i] \in [K -> V]
    BY <1>1 DEF TruthTables
  <1>3. \A t, d : t = v => Honest(v, d, t)
    BY DEF Honest, Reading, Plain
  <1>4. CASE k # key
    <2>1. \A i \in 1..(n + 1) : truth2[i][k] = truth[i][k]
      BY <1>1, <1>2, <1>4 DEF TrueAssign
    <2>2. \A j \in 1..(n + 1) : EntryAt(st2, j)[k] = EntryAt(st, j)[k]
      <3>1. CASE global
        BY <1>1, <1>4, <3>1, GlobalEntries DEF Assigned
      <3>2. CASE ~global
        BY <1>1, <1>4, <3>2, LocalEntries DEF Assigned
      <3>3. QED BY <3>1, <3>2
    <2>3. QED BY <1>1, <1>4, <2>1, <2>2, UntouchedKeySound
  <1>5. CASE k = key /\ global
    <2>1. EntryAt(st2, n + 1)[key] = v /\ \A j \in 1..n : EntryAt(st2, j)[key] = NotSaved
      BY <1>5, GlobalEntries DEF Assigned
    <2>2. \A i \in 1..(n + 1) : truth2[i][key] = v
      BY <1>1, <1>2, <1>5 DEF TrueAssign
    <2>3. \A i \in 1..(n + 1) : Honest(EntryAt(st2, n + 1)[key], default[i][key], truth2[i][key])
      BY <1>3, <2>1, <2>2
    <2>4. QED BY <1>1, <1>5, <2>1, <2>3, UnsavedKeySound
  <1>6. CASE k = key /\ ~global
    <2>1. truth2[n + 1][key] = v /\ \A i \in 1..n : truth2[i][key] = truth[i][key]
      BY <1>1, <1>2, <1>6 DEF TrueAssign
    <2>a. /\ EntryAt(st2, n + 1)[key] = v
          /\ \A j \in 1..n : EntryAt(st2, j)[key] =
                IF j = n /\ EntryAt(st, j)[key] = NotSaved THEN EntryAt(st, n + 1)[key] ELSE EntryAt(st, j)[key]
      BY <1>6, LocalEntries DEF Assigned
    <2> HIDE DEF st2
    <2>2. EntryAt(st2, n + 1)[key] = v /\ \A j \in 1..(n - 1) : EntryAt(st2, j)[key] = EntryAt(st, j)[key]
      BY <1>1, <2>a
    <2>3. n > 0 => EntryAt(st2, n)[key] = IF EntryAt(st, n)[key] = NotSaved
                                            THEN EntryAt(st, n + 1)[key]
                                            ELSE EntryAt(st, n)[key]
      BY <1>1, <2>a
    <2>4. Honest(EntryAt(st2, n + 1)[key], default[n + 1][key], truth2[n + 1][key])
      BY <1>3, <2>1, <2>2
    <2>5. QED BY <1>1, <1>6, <2>1, <2>2, <2>3, <2>4, SavedKeySound DEF st2
  <1>7. QED BY <1>4, <1>5, <1>6

(* A write the reader scopes as TeX does keeps every promise. *)
LEMMA AssignedSound ==
  ASSUME NEW K, NEW V, Plain(V), NotSaved \notin Entries(V),
         NEW st \in Stores(K, V), NEW key \in K, NEW v \in V,
         NEW global \in BOOLEAN,
         NEW truth \in TruthTables(K, V), Len(truth) = Depth(st) + 1,
         NEW default, Sound(st, truth, default)
  PROVE  Sound(Assigned(st, key, v, global), TrueAssign(truth, key, v, global), default)
PROOF
  <1>1. Assigned(st, key, v, global) \in Stores(K, V)
    BY AssignedType
  <1>2. \A k \in K : SoundAt(st, truth, default, k)
    BY SoundByKey
  <1>3. \A k \in K : SoundAt(Assigned(st, key, v, global), TrueAssign(truth, key, v, global), default, k)
    BY <1>2, AssignedKeySound
  <1>4. QED BY <1>1, <1>3, SoundByKey

-----------------------------------------------------------------------------
(* Unexecuted source stays within the names its summary bounds, and within *)
(* the innermost level when they are local.                                *)
LEMMA OverwrittenConfined ==
  ASSUME NEW K, NEW V, NEW truth \in TruthTables(K, V), NEW S \in SUBSET K,
         NEW now \in [S -> V], NEW outer \in [S -> V \cup {Absent}]
  PROVE  /\ Overwritten(truth, S, now, outer) \in TruthTables(K, V)
         /\ Len(Overwritten(truth, S, now, outer)) = Len(truth)
         /\ \A i \in 1..Len(truth), k \in K :
               k \notin S \/ (outer[k] = Absent /\ i # Len(truth))
                  => Overwritten(truth, S, now, outer)[i][k] = truth[i][k]
PROOF
  <1> DEFINE n == Len(truth)
             truth2 == Overwritten(truth, S, now, outer)
  <1>1. n \in Nat /\ \A i \in 1..n : truth[i] \in [K -> V]
    BY DEF TruthTables
  <1>2. \A i \in 1..n : DOMAIN truth[i] = K /\ \A k \in K : truth[i][k] \in V
    BY <1>1
  <1>3. \A i \in 1..n : truth2[i] \in [K -> V]
    BY <1>2 DEF Overwritten
  <1>4. truth2 \in Seq([K -> V]) /\ Len(truth2) = n
    <2>1. truth2 \in [1..n -> [K -> V]]
      BY <1>3 DEF Overwritten
    <2>2. QED BY <1>1, <2>1, FunctionIsSeq
  <1>5. \A i \in 1..n, k \in K :
           k \notin S \/ (outer[k] = Absent /\ i # n) => truth2[i][k] = truth[i][k]
    BY <1>2 DEF Overwritten
  <1>6. QED BY <1>4, <1>5 DEF TruthTables

LEMMA UnknownGloballyConfined ==
  ASSUME NEW K, NEW V, NEW truth \in TruthTables(K, V), NEW S \in SUBSET K,
         NEW truth2 \in UnknownGlobally(truth, S, V)
  PROVE  /\ truth2 \in TruthTables(K, V) /\ Len(truth2) = Len(truth)
         /\ \A i \in 1..Len(truth), k \in K \ S : truth2[i][k] = truth[i][k]
PROOF
  <1>1. PICK now \in [S -> V], outer \in [S -> V \cup {Absent}] :
           truth2 = Overwritten(truth, S, now, outer)
    BY DEF UnknownGlobally
  <1>2. QED BY <1>1, OverwrittenConfined

LEMMA UnknownLocallyConfined ==
  ASSUME NEW K, NEW V, NEW truth \in TruthTables(K, V), NEW S \in SUBSET K,
         NEW truth2 \in UnknownLocally(truth, S, V)
  PROVE  /\ truth2 \in TruthTables(K, V) /\ Len(truth2) = Len(truth)
         /\ \A i \in 1..Len(truth), k \in K \ S : truth2[i][k] = truth[i][k]
         /\ \A i \in 1..Len(truth), k \in K : i # Len(truth) => truth2[i][k] = truth[i][k]
PROOF
  <1> DEFINE outer == [k \in S |-> Absent]
  <1>1. PICK now \in [S -> V] : truth2 = Overwritten(truth, S, now, outer)
    BY DEF UnknownLocally
  <1>2. outer \in [S -> V \cup {Absent}] /\ \A k \in S : outer[k] = Absent
    OBVIOUS
  <1>3. QED BY <1>1, <1>2, OverwrittenConfined

(* A key whose entries stay and which the current level may have changed   *)
(* needs only an honest current value.                                     *)
LEMMA ChangedInsideSound ==
  ASSUME NEW K, NEW V, NEW st \in Stores(K, V), NEW st2 \in Stores(K, V),
         Depth(st2) = Depth(st), NEW key \in K,
         NEW truth, NEW truth2, NEW default, NEW default2,
         \A j \in 1..(Depth(st) + 1) : EntryAt(st2, j)[key] = EntryAt(st, j)[key],
         \A i \in 1..Depth(st) : truth2[i][key] = truth[i][key] /\ default2[i][key] = default[i][key],
         Honest(EntryAt(st2, Depth(st) + 1)[key],
                default2[Depth(st) + 1][key], truth2[Depth(st) + 1][key]),
         SoundAt(st, truth, default, key)
  PROVE  SoundAt(st2, truth2, default2, key)
PROOF
  <1>1. Depth(st) \in Nat
    BY StoreShape
  <1>2. SUFFICES ASSUME NEW i \in 1..(Depth(st) + 1), NEW j \in i..(Depth(st) + 1),
                        Supplies(st2, key, i, j)
                 PROVE  Honest(EntryAt(st2, j)[key], default2[i][key], truth2[i][key])
    BY DEF SoundAt
  <1>3. CASE i = Depth(st) + 1
    BY <1>1, <1>3
  <1>4. CASE i \in 1..Depth(st)
    <2>1. Supplies(st, key, i, j)
      BY <1>1, <1>2 DEF Supplies
    <2>2. Honest(EntryAt(st, j)[key], default[i][key], truth[i][key])
      BY <1>1, <2>1 DEF SoundAt
    <2>3. QED BY <1>1, <1>4, <2>2
  <1>5. QED BY <1>1, <1>3, <1>4

(* A key whose every entry is in doubt, or absent with an uncertain        *)
(* default, promises nothing.                                              *)
LEMMA DoubtfulKeySound ==
  ASSUME NEW K, NEW V, NEW st2 \in Stores(K, V), NEW key \in K,
         NEW truth2, NEW default2,
         \A j \in 1..(Depth(st2) + 1) :
            \/ EntryAt(st2, j)[key] \in {Uncertain, NotSaved}
            \/ EntryAt(st2, j)[key] = Absent
               /\ \A i \in 1..(Depth(st2) + 1) : default2[i][key] = Uncertain
  PROVE  SoundAt(st2, truth2, default2, key)
PROOF
  <1>1. Depth(st2) \in Nat
    BY StoreShape
  <1>2. SUFFICES ASSUME NEW i \in 1..(Depth(st2) + 1), NEW j \in i..(Depth(st2) + 1),
                        EntryAt(st2, j)[key] # NotSaved
                 PROVE  Honest(EntryAt(st2, j)[key], default2[i][key], truth2[i][key])
    BY DEF SoundAt, Supplies
  <1>3. j \in 1..(Depth(st2) + 1)
    BY <1>1
  <1>4. QED BY <1>2, <1>3, UncertainIsHonest

LEMMA DoubtedGloballyEntries ==
  ASSUME NEW K, NEW V, NEW st \in Stores(K, V), NEW S
  PROVE  /\ DoubtedGlobally(st, S) \in Stores(K, V)
         /\ Depth(DoubtedGlobally(st, S)) = Depth(st)
         /\ \A j \in 1..(Depth(st) + 1), k \in K :
               EntryAt(DoubtedGlobally(st, S), j)[k] =
                  IF k \in S THEN Uncertain ELSE EntryAt(st, j)[k]
PROOF
  <1> DEFINE n == Depth(st)
             st2 == DoubtedGlobally(st, S)
  <1>1. st2 \in Stores(K, V) /\ Depth(st2) = n
    BY DoubtedType
  <1>2. n \in Nat /\ KeysOf(st) = K
    BY StoreShape
  <1>3. /\ \A k \in K : st2.values[k] = IF k \in S THEN Uncertain ELSE st.values[k]
        /\ \A i \in 1..n, k \in K :
              st2.scopes[i][k] = IF k \in S THEN Uncertain ELSE st.scopes[i][k]
    BY <1>2 DEF DoubtedGlobally
  <1>4. /\ \A j \in 1..n : EntryAt(st2, j) = st2.scopes[j] /\ EntryAt(st, j) = st.scopes[j]
        /\ EntryAt(st2, n + 1) = st2.values /\ EntryAt(st, n + 1) = st.values
    BY <1>1, EntriesOfStore
  <1>5. QED BY <1>1, <1>2, <1>3, <1>4

LEMMA DoubtedLocallyEntries ==
  ASSUME NEW K, NEW V, NEW st \in Stores(K, V), NEW S
  PROVE  /\ DoubtedLocally(st, S) \in Stores(K, V)
         /\ Depth(DoubtedLocally(st, S)) = Depth(st)
         /\ \A k \in K : EntryAt(DoubtedLocally(st, S), Depth(st) + 1)[k] =
                            IF k \in S THEN Uncertain ELSE EntryAt(st, Depth(st) + 1)[k]
         /\ \A j \in 1..Depth(st), k \in K :
               EntryAt(DoubtedLocally(st, S), j)[k] =
                  IF j = Depth(st) /\ k \in S /\ EntryAt(st, j)[k] = NotSaved
                    THEN EntryAt(st, Depth(st) + 1)[k] ELSE EntryAt(st, j)[k]
PROOF
  <1> DEFINE n == Depth(st)
             st2 == DoubtedLocally(st, S)
  <1>1. st2 \in Stores(K, V) /\ Depth(st2) = n
    BY DoubtedType
  <1>2. n \in Nat /\ KeysOf(st) = K
    BY StoreShape
  <1>3. /\ \A k \in K : st2.values[k] = IF k \in S THEN Uncertain ELSE st.values[k]
        /\ \A i \in 1..n, k \in K :
              st2.scopes[i][k] = IF i = n /\ k \in S /\ st.scopes[i][k] = NotSaved
                                   THEN st.values[k] ELSE st.scopes[i][k]
    BY <1>2 DEF DoubtedLocally, SavedOnce
  <1>4. /\ \A j \in 1..n : EntryAt(st2, j) = st2.scopes[j] /\ EntryAt(st, j) = st.scopes[j]
        /\ EntryAt(st2, n + 1) = st2.values /\ EntryAt(st, n + 1) = st.values
    BY <1>1, EntriesOfStore
  <1>5. QED BY <1>1, <1>2, <1>3, <1>4

(* Marking the keys S that unexecuted source may have written keeps every  *)
(* promise, provided the names it passes over read as uncertain already.   *)
LEMMA DoubtedGloballySound ==
  ASSUME NEW K, NEW V,
         NEW st \in Stores(K, V), NEW names \in SUBSET K, NEW S \in SUBSET names,
         NEW truth \in TruthTables(K, V), Len(truth) = Depth(st) + 1,
         NEW truth2 \in UnknownGlobally(truth, names, V),
         NEW default, NEW default2,
         \A i \in 1..(Depth(st) + 1), k \in K :
            default2[i][k] = default[i][k] \/ default2[i][k] = Uncertain,
         \A i \in 1..(Depth(st) + 1), k \in names \ S :
            EntryAt(st, i)[k] \in {Absent, NotSaved} /\ default2[i][k] = Uncertain,
         Sound(st, truth, default)
  PROVE  Sound(DoubtedGlobally(st, S), truth2, default2)
PROOF
  <1> DEFINE n == Depth(st)
             st2 == DoubtedGlobally(st, S)
  <1>1. n \in Nat /\ st2 \in Stores(K, V) /\ Depth(st2) = n
    BY StoreShape, DoubtedGloballyEntries
  <1>2. \A j \in 1..(n + 1), k \in K :
           EntryAt(st2, j)[k] = IF k \in S THEN Uncertain ELSE EntryAt(st, j)[k]
    BY DoubtedGloballyEntries
  <1>3. SUFFICES ASSUME NEW k \in K PROVE SoundAt(st2, truth2, default2, k)
    BY <1>1, SoundByKey
  <1>4. CASE k \notin names
    <2>1. \A j \in 1..(n + 1) : EntryAt(st2, j)[k] = EntryAt(st, j)[k]
      BY <1>2, <1>4
    <2>2. \A i \in 1..(n + 1) : truth2[i][k] = truth[i][k]
      BY <1>1, <1>4, UnknownGloballyConfined
    <2>3. SoundAt(st, truth, default, k)
      BY SoundByKey
    <2>4. QED BY <1>1, <2>1, <2>2, <2>3, UntouchedKeySound
  <1>5. CASE k \in S
    <2>1. \A j \in 1..(n + 1) : EntryAt(st2, j)[k] = Uncertain
      BY <1>2, <1>5
    <2>2. QED BY <1>1, <2>1, DoubtfulKeySound
  <1>6. CASE k \in names \ S
    <2>1. \A i \in 1..(n + 1) : /\ EntryAt(st2, i)[k] \in {Absent, NotSaved}
                                /\ default2[i][k] = Uncertain
      BY <1>2, <1>6
    <2>2. QED BY <1>1, <2>1, DoubtfulKeySound
  <1>7. QED BY <1>4, <1>5, <1>6

LEMMA DoubtedLocallySound ==
  ASSUME NEW K, NEW V, NotSaved \notin Entries(V),
         NEW st \in Stores(K, V), NEW names \in SUBSET K, NEW S \in SUBSET names,
         NEW truth \in TruthTables(K, V), Len(truth) = Depth(st) + 1,
         NEW truth2 \in UnknownLocally(truth, names, V),
         NEW default, NEW default2,
         \A i \in 1..Depth(st), k \in K : default2[i][k] = default[i][k],
         \A k \in K : \/ default2[Depth(st) + 1][k] = default[Depth(st) + 1][k]
                      \/ default2[Depth(st) + 1][k] = Uncertain,
         \A k \in names \ S : /\ EntryAt(st, Depth(st) + 1)[k] = Absent
                              /\ default2[Depth(st) + 1][k] = Uncertain,
         Sound(st, truth, default)
  PROVE  Sound(DoubtedLocally(st, S), truth2, default2)
PROOF
  <1> DEFINE n == Depth(st)
             st2 == DoubtedLocally(st, S)
  <1>1. n \in Nat /\ st2 \in Stores(K, V) /\ Depth(st2) = n
    BY StoreShape, DoubtedLocallyEntries
  <1>2. /\ \A k \in K : EntryAt(st2, n + 1)[k] =
                           IF k \in S THEN Uncertain ELSE EntryAt(st, n + 1)[k]
        /\ \A j \in 1..n, k \in K : EntryAt(st2, j)[k] =
              IF j = n /\ k \in S /\ EntryAt(st, j)[k] = NotSaved
                THEN EntryAt(st, n + 1)[k] ELSE EntryAt(st, j)[k]
    BY DoubtedLocallyEntries
  <1>3. SUFFICES ASSUME NEW k \in K PROVE SoundAt(st2, truth2, default2, k)
    BY <1>1, SoundByKey
  <1>4. SoundAt(st, truth, default, k)
    BY SoundByKey
  <1>5. \A i \in 1..n : truth2[i][k] = truth[i][k] /\ default2[i][k] = default[i][k]
    BY <1>1, UnknownLocallyConfined
  <1>6. CASE k \notin names
    <2>1. \A j \in 1..(n + 1) : EntryAt(st2, j)[k] = EntryAt(st, j)[k]
      BY <1>1, <1>2, <1>6
    <2>2. truth2[n + 1][k] = truth[n + 1][k]
      BY <1>1, <1>6, UnknownLocallyConfined
    <2>3. \A i \in 1..(n + 1) :
             /\ truth2[i][k] = truth[i][k]
             /\ default2[i][k] = default[i][k] \/ default2[i][k] = Uncertain
      BY <1>1, <1>5, <2>2
    <2>4. QED BY <1>1, <1>4, <2>1, <2>3, UntouchedKeySound
  <1>7. CASE k \in S
    <2>1. \A j \in 1..(n - 1) : EntryAt(st2, j)[k] = EntryAt(st, j)[k]
      BY <1>1, <1>2
    <2>2. n > 0 => EntryAt(st2, n)[k] = IF EntryAt(st, n)[k] = NotSaved
                                          THEN EntryAt(st, n + 1)[k] ELSE EntryAt(st, n)[k]
      BY <1>1, <1>2, <1>7
    <2>3. Honest(EntryAt(st2, n + 1)[k], default2[n + 1][k], truth2[n + 1][k])
      BY <1>2, <1>7, UncertainIsHonest
    <2>4. QED BY <1>1, <1>4, <1>5, <2>1, <2>2, <2>3, SavedKeySound
  <1>8. CASE k \in names \ S
    <2>1. \A j \in 1..(n + 1) : EntryAt(st2, j)[k] = EntryAt(st, j)[k]
      BY <1>1, <1>2, <1>8
    <2>2. Honest(EntryAt(st2, n + 1)[k], default2[n + 1][k], truth2[n + 1][k])
      BY <1>1, <1>8, <2>1, UncertainIsHonest
    <2>3. QED BY <1>1, <1>4, <1>5, <2>1, <2>2, ChangedInsideSound
  <1>9. QED BY <1>6, <1>7, <1>8

-----------------------------------------------------------------------------
(* Marking what is established leaves the entries that are absent, or that *)
(* no journal has, and puts the others in doubt at every level.            *)
LEMMA MarkedEntries ==
  ASSUME NEW K, NEW V, NEW st \in Stores(K, V), NEW S
  PROVE  /\ MarkEstablished(st, S) \in Stores(K, V)
         /\ Depth(MarkEstablished(st, S)) = Depth(st)
         /\ \A j \in 1..(Depth(st) + 1), k \in K :
               EntryAt(MarkEstablished(st, S), j)[k] =
                  IF k \in S /\ EntryAt(st, j)[k] \notin {Absent, NotSaved}
                    THEN Uncertain ELSE EntryAt(st, j)[k]
PROOF
  <1> DEFINE n == Depth(st)
             st2 == MarkEstablished(st, S)
             mark(e) == IF e \in {Absent, NotSaved} THEN e ELSE Uncertain
             values == [k \in K |-> IF k \in S THEN mark(st.values[k]) ELSE st.values[k]]
             scopes == [i \in 1..n |-> [k \in K |-> IF k \in S THEN mark(st.scopes[i][k])
                                                               ELSE st.scopes[i][k]]]
  <1>1. n \in Nat /\ KeysOf(st) = K /\ Uncertain \in Entries(V)
    BY StoreShape DEF Entries
  <1>2. st2 = [values |-> values, scopes |-> scopes]
    BY <1>1 DEF MarkEstablished
  <1>3. values \in [K -> Entries(V)]
    <2>1. \A k \in K : st.values[k] \in Entries(V)
      BY StoreShape
    <2>2. QED BY <1>1, <2>1
  <1>4. scopes \in [1..n -> Journals(K, V)]
    <2>1. \A i \in 1..n, k \in K : st.scopes[i][k] \in Entries(V) \cup {NotSaved}
      BY StoreShape DEF Journals
    <2>2. QED BY <1>1, <2>1 DEF Journals
  <1>5. scopes \in Seq(Journals(K, V)) /\ Len(scopes) = n
    BY <1>1, <1>4, FunctionIsSeq
  <1>6. st2 \in Stores(K, V) /\ Depth(st2) = n
    <2> HIDE DEF values, scopes, n
    <2>1. [values |-> values, scopes |-> scopes] \in Stores(K, V)
      BY <1>3, <1>5 DEF Stores
    <2>2. Depth([values |-> values, scopes |-> scopes]) = n
      BY <1>5 DEF Depth
    <2>3. QED BY <1>2, <2>1, <2>2
  <1>7. /\ \A j \in 1..n : EntryAt(st2, j) = scopes[j] /\ EntryAt(st, j) = st.scopes[j]
        /\ EntryAt(st2, n + 1) = values /\ EntryAt(st, n + 1) = st.values
    <2> HIDE DEF values, scopes
    <2>1. st2.scopes = scopes /\ st2.values = values
      BY <1>2
    <2>2. QED BY <1>6, <2>1, EntriesOfStore
  <1>8. \A k \in K : EntryAt(st2, n + 1)[k] =
           IF k \in S /\ EntryAt(st, n + 1)[k] \notin {Absent, NotSaved}
             THEN Uncertain ELSE EntryAt(st, n + 1)[k]
    BY <1>7
  <1>9. \A j \in 1..n, k \in K : EntryAt(st2, j)[k] =
           IF k \in S /\ EntryAt(st, j)[k] \notin {Absent, NotSaved}
             THEN Uncertain ELSE EntryAt(st, j)[k]
    BY <1>7
  <1>10. QED BY <1>1, <1>6, <1>8, <1>9

=============================================================================
