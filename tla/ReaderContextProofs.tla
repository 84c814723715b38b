-------------------------- MODULE ReaderContextProofs --------------------------
(***************************************************************************)
(* What the scoped reading context reports as established is TeX's, for    *)
(* every set of names, meanings, characters and effect summaries and every *)
(* depth of groups: a meaning, the parameter \globaldefs that decides how  *)
(* far every assignment reaches, and the category table.  The three depend *)
(* on each other, so they are one induction.                               *)
(***************************************************************************)
EXTENDS ReaderContext, SaveJournalProofs

(* What the type invariant says, in the form the lemmas on stores want. *)
LEMMA Shape ==
  ASSUME TypeOK, ScopesAligned
  PROVE  /\ ints \in Stores(Parameters, Settings) /\ meanings \in Stores(Names, Meanings)
         /\ trueInts \in TruthTables(Parameters, Settings)
         /\ trueMeanings \in TruthTables(Names, Meanings)
         /\ trueCats \in TruthTables(Characters, Categories)
         /\ scope_depth \in Nat
         /\ Depth(ints) = scope_depth /\ Depth(meanings) = scope_depth
         /\ Len(trueInts) = scope_depth + 1 /\ Len(trueMeanings) = scope_depth + 1
         /\ Len(trueCats) = scope_depth + 1
         /\ KeysOf(meanings) = Names /\ KeysOf(ints) = Parameters
         /\ snapshots \in Seq([catcodes: CatTables, barrier: SUBSET Names])
         /\ \A i \in 1..scope_depth : snapshots[i] \in [catcodes: CatTables, barrier: SUBSET Names]
         /\ catcodes \in CatTables /\ barrier \in SUBSET Names
PROOF
  <1>1. snapshots \in Seq([catcodes: CatTables, barrier: SUBSET Names])
    BY DEF TypeOK
  <1>2. /\ scope_depth \in Nat
        /\ \A i \in 1..scope_depth : snapshots[i] \in [catcodes: CatTables, barrier: SUBSET Names]
    <2> DEFINE Snapshots == [catcodes: CatTables, barrier: SUBSET Names]
    <2>1. snapshots \in Seq(Snapshots)
      BY <1>1
    <2> HIDE DEF Snapshots
    <2>2. Len(snapshots) \in Nat /\ \A i \in 1..Len(snapshots) : snapshots[i] \in Snapshots
      BY <2>1
    <2>3. QED BY <2>2 DEF Snapshots, scope_depth
  <1>3. KeysOf(meanings) = Names /\ KeysOf(ints) = Parameters
    BY StoreShape DEF TypeOK
  <1>4. trueCats \in TruthTables(Characters, Categories)
    BY DEF TypeOK, TruthTables, CatTables
  <1>5. QED BY <1>1, <1>2, <1>3, <1>4 DEF TypeOK, ScopesAligned

LEMMA PlainEntries == NotSaved \notin Entries(Settings) /\ NotSaved \notin Entries(Meanings)
BY ContextAssumption, SentinelsDiffer DEF Plain, Entries

(* Group brackets on TeX's tables. *)
LEMMA TruePushType ==
  ASSUME NEW K, NEW V, NEW truth \in TruthTables(K, V), Len(truth) > 0
  PROVE  TruePush(truth) \in TruthTables(K, V) /\ Len(TruePush(truth)) = Len(truth) + 1
BY DEF TruePush, TruthTables

LEMMA TruePopType ==
  ASSUME NEW K, NEW V, NEW truth \in TruthTables(K, V), Len(truth) > 0
  PROVE  TruePop(truth) \in TruthTables(K, V) /\ Len(TruePop(truth)) = Len(truth) - 1
PROOF
  <1> DEFINE T == [K -> V]
  <1>1. truth \in Seq(T)
    BY DEF TruthTables
  <1> HIDE DEF T
  <1> DEFINE n == Len(truth) - 1
  <1>2. n \in Int /\ n >= 0 /\ \A i \in 1..n : truth[i] \in T
    BY <1>1
  <1> HIDE DEF n
  <1>3. SubSeq(truth, 1, n) \in Seq(T) /\ Len(SubSeq(truth, 1, n)) = IF 1 <= n THEN n - 1 + 1 ELSE 0
    BY <1>2, SubSeqProperties
  <1>4. Len(SubSeq(truth, 1, n)) = n
    BY <1>2, <1>3
  <1>5. QED BY <1>3, <1>4 DEF n, T, TruePop, TruthTables

LEMMA UnknownType ==
  ASSUME NEW K, NEW V, NEW truth \in TruthTables(K, V), NEW S \in SUBSET K,
         NEW global \in BOOLEAN, NEW truth2 \in UnknownWrites(truth, S, V, global)
  PROVE  truth2 \in TruthTables(K, V) /\ Len(truth2) = Len(truth)
BY UnknownGloballyConfined, UnknownLocallyConfined DEF UnknownWrites

LEMMA DoubtedEither ==
  ASSUME NEW K, NEW V, NEW st \in Stores(K, V), NEW S, NEW global \in BOOLEAN
  PROVE  Doubted(st, S, global) \in Stores(K, V) /\ Depth(Doubted(st, S, global)) = Depth(st)
BY DoubtedType DEF Doubted

(* A summary, and the keys it is applied to. *)
LEMMA SummaryShape ==
  ASSUME NEW s \in Summaries
  PROVE  /\ s.names \in SUBSET Names /\ s.prefix \in SUBSET Names
         /\ s.registers \in SUBSET Parameters /\ s.global \in BOOLEAN
BY ContextAssumption DEF Parameters

-----------------------------------------------------------------------------
(* A global category assignment keeps the snapshots' shape. *)
LEMMA CatcodeSnapshots ==
  ASSUME TypeOK, ScopesAligned, NEW c \in Characters, NEW category \in Categories, NEW every \in BOOLEAN
  PROVE  LET saved == [i \in 1..scope_depth |-> IF every THEN [snapshots[i] EXCEPT !.catcodes[c] = category]
                                                         ELSE snapshots[i]]
         IN  /\ saved \in Seq([catcodes: CatTables, barrier: SUBSET Names]) /\ Len(saved) = scope_depth
             /\ \A i \in 1..scope_depth :
                   /\ saved[i].barrier = snapshots[i].barrier
                   /\ saved[i].catcodes = IF every THEN [snapshots[i].catcodes EXCEPT ![c] = category]
                                                   ELSE snapshots[i].catcodes
PROOF
  <1> DEFINE Snapshots == [catcodes: CatTables, barrier: SUBSET Names]
             new(i) == IF every THEN [snapshots[i] EXCEPT !.catcodes[c] = category] ELSE snapshots[i]
             saved == [i \in 1..scope_depth |-> new(i)]
  <1>1. scope_depth \in Nat /\ \A i \in 1..scope_depth : snapshots[i] \in Snapshots
    BY Shape
  <1>2. ASSUME NEW i \in 1..scope_depth
        PROVE  /\ new(i) \in Snapshots /\ new(i).barrier = snapshots[i].barrier
               /\ new(i).catcodes = IF every THEN [snapshots[i].catcodes EXCEPT ![c] = category]
                                             ELSE snapshots[i].catcodes
    <2>1. PICK table \in CatTables, over \in SUBSET Names :
             snapshots[i] = [catcodes |-> table, barrier |-> over]
      BY <1>1
    <2>2. [table EXCEPT ![c] = category] \in CatTables
      BY DEF CatTables
    <2>3. every => new(i) = [catcodes |-> [table EXCEPT ![c] = category], barrier |-> over]
      BY <2>1
    <2>4. ~every => new(i) = snapshots[i]
      OBVIOUS
    <2>5. CASE every
      <3>1. /\ new(i) = [catcodes |-> [table EXCEPT ![c] = category], barrier |-> over]
            /\ snapshots[i].catcodes = table /\ snapshots[i].barrier = over
        BY <2>1, <2>3, <2>5
      <3> HIDE DEF new
      <3>2. new(i).catcodes = [table EXCEPT ![c] = category] /\ new(i).barrier = over
        BY <3>1
      <3>3. new(i) \in Snapshots
        BY <2>1, <2>2, <3>1
      <3>4. QED BY <2>5, <3>1, <3>2, <3>3
    <2>6. CASE ~every
      BY <1>1, <2>4, <2>6
    <2>7. QED BY <2>5, <2>6
  <1> HIDE DEF Snapshots, new
  <1>3. saved \in [1..scope_depth -> Snapshots]
    BY <1>2
  <1>4. saved \in Seq(Snapshots) /\ Len(saved) = scope_depth
    BY <1>1, <1>3, FunctionIsSeq
  <1>5. \A i \in 1..scope_depth : saved[i] = new(i)
    OBVIOUS
  <1> HIDE DEF saved
  <1>6. QED BY <1>2, <1>4, <1>5 DEF Snapshots, saved, new

(* So does a namespace barrier that may be global. *)
LEMMA BarrierSnapshots ==
  ASSUME TypeOK, ScopesAligned, NEW covered \in SUBSET Names, NEW every \in BOOLEAN
  PROVE  LET saved == [i \in 1..scope_depth |-> IF every THEN [snapshots[i] EXCEPT !.barrier = @ \cup covered]
                                                         ELSE snapshots[i]]
         IN  /\ saved \in Seq([catcodes: CatTables, barrier: SUBSET Names]) /\ Len(saved) = scope_depth
             /\ \A i \in 1..scope_depth :
                   /\ saved[i].catcodes = snapshots[i].catcodes
                   /\ saved[i].barrier = IF every THEN snapshots[i].barrier \cup covered
                                                  ELSE snapshots[i].barrier
PROOF
  <1> DEFINE Snapshots == [catcodes: CatTables, barrier: SUBSET Names]
             new(i) == IF every THEN [snapshots[i] EXCEPT !.barrier = @ \cup covered] ELSE snapshots[i]
             saved == [i \in 1..scope_depth |-> new(i)]
  <1>1. scope_depth \in Nat /\ \A i \in 1..scope_depth : snapshots[i] \in Snapshots
    BY Shape
  <1>2. ASSUME NEW i \in 1..scope_depth
        PROVE  /\ new(i) \in Snapshots /\ new(i).catcodes = snapshots[i].catcodes
               /\ new(i).barrier = IF every THEN snapshots[i].barrier \cup covered
                                            ELSE snapshots[i].barrier
    <2>1. PICK table \in CatTables, over \in SUBSET Names :
             snapshots[i] = [catcodes |-> table, barrier |-> over]
      BY <1>1
    <2>2. every => new(i) = [catcodes |-> table, barrier |-> over \cup covered]
      BY <2>1
    <2>3. ~every => new(i) = snapshots[i]
      OBVIOUS
    <2>4. QED BY <2>1, <2>2, <2>3
  <1> HIDE DEF Snapshots, new
  <1>3. saved \in [1..scope_depth -> Snapshots]
    BY <1>2
  <1>4. saved \in Seq(Snapshots) /\ Len(saved) = scope_depth
    BY <1>1, <1>3, FunctionIsSeq
  <1>5. \A i \in 1..scope_depth : saved[i] = new(i)
    OBVIOUS
  <1> HIDE DEF saved
  <1>6. QED BY <1>2, <1>4, <1>5 DEF Snapshots, saved, new

(* A definition of unknown scope. *)
LEMMA InDoubtEntries ==
  ASSUME NEW K, NEW V, NEW st \in Stores(K, V), NEW key \in K, NEW v \in V
  PROVE  /\ RecordedInDoubt(st, key, v) \in Stores(K, V)
         /\ Depth(RecordedInDoubt(st, key, v)) = Depth(st)
         /\ \A j \in 1..(Depth(st) + 1), k \in K :
               EntryAt(RecordedInDoubt(st, key, v), j)[k] =
                  IF k # key THEN EntryAt(st, j)[k] ELSE IF j = Depth(st) + 1 THEN v ELSE Uncertain
PROOF
  <1> DEFINE n == Depth(st)
             st2 == RecordedInDoubt(st, key, v)
             scopes == [i \in 1..n |-> [st.scopes[i] EXCEPT ![key] = Uncertain]]
             values == [st.values EXCEPT ![key] = v]
  <1>1. /\ n \in Nat /\ \A i \in 1..n : st.scopes[i] \in [K -> Entries(V) \cup {NotSaved}]
        /\ st.values \in [K -> Entries(V)]
    BY StoreShape
  <1>2. st2 = [values |-> values, scopes |-> scopes]
    BY DEF RecordedInDoubt
  <1>3. values \in [K -> Entries(V)] /\ \A k \in K : values[k] = IF k = key THEN v ELSE st.values[k]
    BY <1>1 DEF Entries
  <1>4. /\ scopes \in [1..n -> Journals(K, V)]
        /\ \A i \in 1..n, k \in K : scopes[i][k] = IF k = key THEN Uncertain ELSE st.scopes[i][k]
    BY <1>1 DEF Journals, Entries
  <1>5. scopes \in Seq(Journals(K, V)) /\ Len(scopes) = n
    BY <1>1, <1>4, FunctionIsSeq
  <1> HIDE DEF values, scopes
  <1>6. st2.values = values /\ st2.scopes = scopes
    BY <1>2
  <1>7. st2 \in Stores(K, V) /\ Depth(st2) = n
    BY <1>2, <1>3, <1>5 DEF Stores, Depth
  <1> HIDE DEF st2
  <1>8. /\ \A j \in 1..n : EntryAt(st2, j) = scopes[j] /\ EntryAt(st, j) = st.scopes[j]
        /\ EntryAt(st2, n + 1) = values /\ EntryAt(st, n + 1) = st.values
    BY <1>6, <1>7, EntriesOfStore
  <1>9. \A j \in 1..(n + 1), k \in K :
           EntryAt(st2, j)[k] = IF k # key THEN EntryAt(st, j)[k] ELSE IF j = n + 1 THEN v ELSE Uncertain
    <2>1. TAKE j \in 1..(n + 1), k \in K
    <2>2. (j \in 1..n /\ j # n + 1) \/ j = n + 1
      BY <1>1
    <2>3. QED BY <1>3, <1>4, <1>8, <2>2
  <1>10. QED BY <1>7, <1>9 DEF st2

(* Declarations observed in retained source: what is saved, and what holds. *)
ObservedNames(st, names) ==
  [values |-> [n \in Names |-> IF n \in names THEN Uncertain ELSE st.values[n]],
   scopes |-> [i \in 1..scope_depth |->
                 [n \in Names |-> IF n \in names /\ st.scopes[i][n] # NotSaved
                                    THEN Uncertain ELSE st.scopes[i][n]]]]

LEMMA ObservedNamesEntries ==
  ASSUME TypeOK, ScopesAligned, NEW names \in SUBSET Names
  PROVE  /\ ObservedNames(meanings, names) \in Stores(Names, Meanings)
         /\ Depth(ObservedNames(meanings, names)) = scope_depth
         /\ \A j \in 1..(scope_depth + 1), k \in Names :
               /\ k \notin names => EntryAt(ObservedNames(meanings, names), j)[k] = EntryAt(meanings, j)[k]
               /\ k \in names => EntryAt(ObservedNames(meanings, names), j)[k] \in {Uncertain, NotSaved}
PROOF
  <1> DEFINE n == scope_depth
             st2 == ObservedNames(meanings, names)
             scopes == [i \in 1..n |-> [k \in Names |-> IF k \in names /\ meanings.scopes[i][k] # NotSaved
                                                         THEN Uncertain ELSE meanings.scopes[i][k]]]
             values == [k \in Names |-> IF k \in names THEN Uncertain ELSE meanings.values[k]]
  <1>1. /\ n \in Nat /\ Depth(meanings) = n /\ meanings \in Stores(Names, Meanings)
        /\ \A i \in 1..n, k \in Names : meanings.scopes[i][k] \in Entries(Meanings) \cup {NotSaved}
        /\ \A k \in Names : meanings.values[k] \in Entries(Meanings)
    BY Shape, StoreShape
  <1>2. st2 = [values |-> values, scopes |-> scopes]
    BY DEF ObservedNames
  <1>3. /\ values \in [Names -> Entries(Meanings)]
        /\ \A k \in Names : values[k] = IF k \in names THEN Uncertain ELSE meanings.values[k]
    BY <1>1 DEF Entries
  <1>4. /\ scopes \in [1..n -> Journals(Names, Meanings)]
        /\ \A i \in 1..n, k \in Names :
              scopes[i][k] = IF k \in names /\ meanings.scopes[i][k] # NotSaved
                               THEN Uncertain ELSE meanings.scopes[i][k]
    BY <1>1 DEF Journals, Entries
  <1>5. scopes \in Seq(Journals(Names, Meanings)) /\ Len(scopes) = n
    BY <1>1, <1>4, FunctionIsSeq
  <1> HIDE DEF values, scopes
  <1>6. st2.values = values /\ st2.scopes = scopes
    BY <1>2
  <1>7. st2 \in Stores(Names, Meanings) /\ Depth(st2) = n
    BY <1>2, <1>3, <1>5 DEF Stores, Depth
  <1> HIDE DEF st2
  <1>8. /\ \A j \in 1..n : EntryAt(st2, j) = scopes[j] /\ EntryAt(meanings, j) = meanings.scopes[j]
        /\ EntryAt(st2, n + 1) = values /\ EntryAt(meanings, n + 1) = meanings.values
    BY <1>1, <1>6, <1>7, EntriesOfStore
  <1>9. ASSUME NEW j \in 1..(n + 1), NEW k \in Names
        PROVE  /\ k \notin names => EntryAt(st2, j)[k] = EntryAt(meanings, j)[k]
               /\ k \in names => EntryAt(st2, j)[k] \in {Uncertain, NotSaved}
    <2>1. j \in 1..n \/ j = n + 1
      BY <1>1
    <2>2. QED BY <1>3, <1>4, <1>8, <2>1
  <1>10. QED BY <1>7, <1>9 DEF st2

(* Retained source without a summary: what it can observe is in doubt, saved or not. *)
Marked(e) == IF e \in Observed THEN Uncertain ELSE e
ObservedMeanings(st) ==
  [values |-> [n \in Names |-> Marked(st.values[n])],
   scopes |-> [i \in 1..scope_depth |-> [n \in Names |-> Marked(st.scopes[i][n])]]]

LEMMA ObservedMeaningsEntries ==
  ASSUME TypeOK, ScopesAligned
  PROVE  /\ ObservedMeanings(meanings) \in Stores(Names, Meanings)
         /\ Depth(ObservedMeanings(meanings)) = scope_depth
         /\ \A j \in 1..(scope_depth + 1), k \in Names :
               EntryAt(ObservedMeanings(meanings), j)[k] = Marked(EntryAt(meanings, j)[k])
PROOF
  <1> DEFINE n == scope_depth
             st2 == ObservedMeanings(meanings)
             scopes == [i \in 1..n |-> [k \in Names |-> Marked(meanings.scopes[i][k])]]
             values == [k \in Names |-> Marked(meanings.values[k])]
  <1>1. /\ n \in Nat /\ Depth(meanings) = n /\ meanings \in Stores(Names, Meanings)
        /\ \A i \in 1..n, k \in Names : meanings.scopes[i][k] \in Entries(Meanings) \cup {NotSaved}
        /\ \A k \in Names : meanings.values[k] \in Entries(Meanings)
    BY Shape, StoreShape
  <1>2. st2 = [values |-> values, scopes |-> scopes]
    BY DEF ObservedMeanings
  <1>3. /\ values \in [Names -> Entries(Meanings)]
        /\ \A k \in Names : values[k] = Marked(meanings.values[k])
    BY <1>1 DEF Entries, Marked
  <1>4. /\ scopes \in [1..n -> Journals(Names, Meanings)]
        /\ \A i \in 1..n, k \in Names : scopes[i][k] = Marked(meanings.scopes[i][k])
    BY <1>1 DEF Journals, Entries, Marked
  <1>5. scopes \in Seq(Journals(Names, Meanings)) /\ Len(scopes) = n
    BY <1>1, <1>4, FunctionIsSeq
  <1> HIDE DEF values, scopes
  <1>6. st2.values = values /\ st2.scopes = scopes
    BY <1>2
  <1>7. st2 \in Stores(Names, Meanings) /\ Depth(st2) = n
    BY <1>2, <1>3, <1>5 DEF Stores, Depth
  <1> HIDE DEF st2
  <1>8. /\ \A j \in 1..n : EntryAt(st2, j) = scopes[j] /\ EntryAt(meanings, j) = meanings.scopes[j]
        /\ EntryAt(st2, n + 1) = values /\ EntryAt(meanings, n + 1) = meanings.values
    BY <1>1, <1>6, <1>7, EntriesOfStore
  <1>9. ASSUME NEW j \in 1..(n + 1), NEW k \in Names
        PROVE  EntryAt(st2, j)[k] = Marked(EntryAt(meanings, j)[k])
    <2>1. j \in 1..n \/ j = n + 1
      BY <1>1
    <2>2. QED BY <1>3, <1>4, <1>8, <2>1
  <1>10. QED BY <1>7, <1>9 DEF st2

-----------------------------------------------------------------------------
LEMMA InitType == Init => TypeOK /\ ScopesAligned
PROOF
  <1>1. SUFFICES ASSUME Init PROVE TypeOK /\ ScopesAligned
    OBVIOUS
  <1>2. [k \in Parameters |-> 0] \in [Parameters -> Settings]
        /\ [k \in Parameters |-> 0] \in [Parameters -> Entries(Settings)]
    BY ContextAssumption DEF Entries
  <1>3. [n \in Names |-> Absent] \in [Names -> Entries(Meanings)]
        /\ [n \in Names |-> Fallback] \in [Names -> Meanings]
    BY ContextAssumption DEF Entries
  <1>4. ints \in Stores(Parameters, Settings) /\ Depth(ints) = 0
    <2>1. <<>> \in Seq(Journals(Parameters, Settings)) /\ Len(<<>>) = 0
      OBVIOUS
    <2>2. QED BY <1>1, <1>2, <2>1 DEF Init, Stores, Depth
  <1>5. meanings \in Stores(Names, Meanings) /\ Depth(meanings) = 0
    <2>1. <<>> \in Seq(Journals(Names, Meanings)) /\ Len(<<>>) = 0
      OBVIOUS
    <2>2. QED BY <1>1, <1>3, <2>1 DEF Init, Stores, Depth
  <1>6. trueInts \in TruthTables(Parameters, Settings) /\ Len(trueInts) = 1
    BY <1>1, <1>2 DEF Init, TruthTables
  <1>7. trueMeanings \in TruthTables(Names, Meanings) /\ Len(trueMeanings) = 1
    BY <1>1, <1>3 DEF Init, TruthTables
  <1>8. trueCats \in Seq(CatTables) /\ Len(trueCats) = 1
    BY <1>1 DEF Init
  <1>9. snapshots \in Seq([catcodes: CatTables, barrier: SUBSET Names]) /\ scope_depth = 0
    <2>1. <<>> \in Seq([catcodes: CatTables, barrier: SUBSET Names]) /\ Len(<<>>) = 0
      OBVIOUS
    <2>2. QED BY <1>1, <2>1 DEF Init, scope_depth
  <1>10. QED
    BY <1>1, <1>4, <1>5, <1>6, <1>7, <1>8, <1>9, ContextAssumption DEF Init, TypeOK, ScopesAligned

Typed == TypeOK /\ ScopesAligned

LEMMA NextType == Typed /\ [Next]_vars => Typed'
PROOF
  <1>1. SUFFICES ASSUME TypeOK, ScopesAligned, [Next]_vars PROVE TypeOK' /\ ScopesAligned'
    BY DEF Typed
  <1>a. TruthTables(Characters, Categories) = Seq(CatTables)
    BY DEF TruthTables, CatTables
  <1>b. scope_depth <= MaxDepth /\ MaxDepth \in Nat
    BY <1>1, ContextAssumption DEF TypeOK
  <1>c. Names \in SUBSET Names /\ Parameters \in SUBSET Parameters
    OBVIOUS
  <1>2. CASE push_scope
    <2>1. /\ ints' = Pushed(ints) /\ meanings' = Pushed(meanings) /\ scope_depth < MaxDepth
          /\ trueInts' = TruePush(trueInts) /\ trueMeanings' = TruePush(trueMeanings)
          /\ trueCats' = TruePush(trueCats) /\ catcodes' = catcodes /\ barrier' = barrier
          /\ snapshots' = Append(snapshots, [catcodes |-> catcodes, barrier |-> barrier])
      BY <1>2 DEF push_scope
    <2>2. ints' \in Stores(Parameters, Settings) /\ Depth(ints') = scope_depth + 1
      BY <1>1, <2>1, Shape, PushedType
    <2>3. meanings' \in Stores(Names, Meanings) /\ Depth(meanings') = scope_depth + 1
      BY <1>1, <2>1, Shape, PushedType
    <2>4. trueInts' \in TruthTables(Parameters, Settings) /\ Len(trueInts') = scope_depth + 2
      BY <1>1, <2>1, Shape, TruePushType
    <2>5. trueMeanings' \in TruthTables(Names, Meanings) /\ Len(trueMeanings') = scope_depth + 2
      BY <1>1, <2>1, Shape, TruePushType
    <2>6. trueCats' \in TruthTables(Characters, Categories) /\ Len(trueCats') = scope_depth + 2
      BY <1>1, <2>1, Shape, TruePushType
    <2>7. [catcodes |-> catcodes, barrier |-> barrier] \in [catcodes: CatTables, barrier: SUBSET Names]
      BY <1>1, Shape
    <2>8. /\ snapshots' \in Seq([catcodes: CatTables, barrier: SUBSET Names])
          /\ scope_depth' = scope_depth + 1
      BY <1>1, <2>1, <2>7, Shape, AppendProperties DEF scope_depth
    <2>9. QED BY <1>1, <1>a, <1>b, <2>1, <2>2, <2>3, <2>4, <2>5, <2>6, <2>8, Shape DEF TypeOK, ScopesAligned
  <1>3. CASE pop_scope
    <2>1. /\ ints' = Popped(ints) /\ meanings' = Popped(meanings) /\ scope_depth > 0
          /\ trueInts' = TruePop(trueInts) /\ trueMeanings' = TruePop(trueMeanings)
          /\ trueCats' = TruePop(trueCats)
          /\ catcodes' = snapshots[scope_depth].catcodes /\ barrier' = snapshots[scope_depth].barrier
          /\ snapshots' = SubSeq(snapshots, 1, scope_depth - 1)
      BY <1>3 DEF pop_scope
    <2>a. /\ Len(trueInts) > 0 /\ Len(trueMeanings) > 0 /\ Len(trueCats) > 0
          /\ (scope_depth + 1) - 1 = scope_depth
      BY <1>1, Shape
    <2>2. ints' \in Stores(Parameters, Settings) /\ Depth(ints') = scope_depth - 1
      BY <1>1, <2>1, Shape, PoppedType
    <2>3. meanings' \in Stores(Names, Meanings) /\ Depth(meanings') = scope_depth - 1
      BY <1>1, <2>1, Shape, PoppedType
    <2>4. trueInts' \in TruthTables(Parameters, Settings) /\ Len(trueInts') = scope_depth
      BY <1>1, <2>a, <2>1, Shape, TruePopType
    <2>5. trueMeanings' \in TruthTables(Names, Meanings) /\ Len(trueMeanings') = scope_depth
      BY <1>1, <2>a, <2>1, Shape, TruePopType
    <2>6. trueCats' \in TruthTables(Characters, Categories) /\ Len(trueCats') = scope_depth
      BY <1>1, <2>a, <2>1, Shape, TruePopType
    <2>7. scope_depth \in Nat /\ scope_depth - 1 \in Nat /\ scope_depth \in 1..scope_depth
          /\ \A i \in 1..(scope_depth - 1) : i \in 1..scope_depth
      BY <1>1, <2>1, Shape
    <2>8. catcodes' \in CatTables /\ barrier' \in SUBSET Names
      BY <1>1, <2>1, <2>7, Shape
    <2>9. /\ snapshots' \in Seq([catcodes: CatTables, barrier: SUBSET Names])
          /\ scope_depth' = scope_depth - 1
      <3> DEFINE Snapshots == [catcodes: CatTables, barrier: SUBSET Names]
                 n == scope_depth - 1
      <3>1. \A i \in 1..n : snapshots[i] \in Snapshots
        BY <1>1, <2>7, Shape
      <3>2. n \in Int /\ n >= 0
        BY <2>7
      <3> HIDE DEF Snapshots, n
      <3>3. SubSeq(snapshots, 1, n) \in Seq(Snapshots)
            /\ Len(SubSeq(snapshots, 1, n)) = IF 1 <= n THEN n - 1 + 1 ELSE 0
        BY <3>1, <3>2, SubSeqProperties
      <3>4. Len(SubSeq(snapshots, 1, n)) = n
        BY <3>2, <3>3
      <3>5. QED BY <2>1, <3>3, <3>4 DEF Snapshots, n, scope_depth
    <2>10. scope_depth' <= MaxDepth /\ scope_depth' + 1 = scope_depth
      BY <1>b, <2>7, <2>9
    <2>11. QED BY <1>a, <2>2, <2>3, <2>4, <2>5, <2>6, <2>8, <2>9, <2>10 DEF TypeOK, ScopesAligned
  <1>4. ASSUME NEW v \in Settings, NEW global \in BOOLEAN, assign_integer(v, global)
        PROVE  TypeOK' /\ ScopesAligned'
    <2>1. /\ ints' = Assigned(ints, GlobalDefs, v, AssignmentGlobal(global))
          /\ trueInts' = TrueAssign(trueInts, GlobalDefs, v, TrueGlobal(global))
          /\ UNCHANGED <<meanings, catcodes, barrier, snapshots, trueMeanings, trueCats>>
          /\ AssignmentGlobal(global) \in BOOLEAN /\ TrueGlobal(global) \in BOOLEAN
          /\ GlobalDefs \in Parameters
      BY <1>4 DEF assign_integer, AssignmentGlobal, TrueGlobal, ScopeOf, Parameters
    <2>2. ints' \in Stores(Parameters, Settings) /\ Depth(ints') = scope_depth
      BY <1>1, <2>1, Shape, AssignedType
    <2>3. trueInts' \in TruthTables(Parameters, Settings) /\ Len(trueInts') = scope_depth + 1
      BY <1>1, <2>1, Shape, TrueAssignType
    <2>4. scope_depth' = scope_depth
      BY <2>1 DEF scope_depth
    <2>5. QED BY <1>1, <2>1, <2>2, <2>3, <2>4 DEF TypeOK, ScopesAligned
  <1>5. ASSUME NEW c \in Characters, NEW category \in Categories, NEW global \in BOOLEAN,
               assign_catcode(c, category, global)
        PROVE  TypeOK' /\ ScopesAligned'
    <2>1. /\ catcodes' = [catcodes EXCEPT ![c] = category]
          /\ snapshots' = [i \in 1..scope_depth |->
                             IF AssignmentGlobal(global) THEN [snapshots[i] EXCEPT !.catcodes[c] = category]
                                                         ELSE snapshots[i]]
          /\ trueCats' = TrueAssign(trueCats, c, category, TrueGlobal(global))
          /\ UNCHANGED <<ints, meanings, barrier, trueInts, trueMeanings>>
          /\ AssignmentGlobal(global) \in BOOLEAN /\ TrueGlobal(global) \in BOOLEAN
      BY <1>5 DEF assign_catcode, AssignmentGlobal, TrueGlobal, ScopeOf
    <2>2. /\ snapshots' \in Seq([catcodes: CatTables, barrier: SUBSET Names])
          /\ scope_depth' = scope_depth
      BY <1>1, <2>1, CatcodeSnapshots DEF scope_depth
    <2>3. trueCats' \in TruthTables(Characters, Categories) /\ Len(trueCats') = scope_depth + 1
      BY <1>1, <2>1, Shape, TrueAssignType
    <2>4. catcodes' \in CatTables
      BY <1>1, <2>1, Shape DEF CatTables
    <2>5. QED BY <1>1, <1>a, <2>1, <2>2, <2>3, <2>4 DEF TypeOK, ScopesAligned
  <1>6. ASSUME NEW n \in Names, NEW m \in Meanings, NEW global \in BOOLEAN, record_meaning(n, m, global)
        PROVE  TypeOK' /\ ScopesAligned'
    <2>1. /\ trueMeanings' = TrueAssign(trueMeanings, n, m, TrueGlobal(global))
          /\ UNCHANGED <<ints, catcodes, barrier, snapshots, trueInts, trueCats>>
          /\ AssignmentGlobal(global) \in BOOLEAN /\ TrueGlobal(global) \in BOOLEAN
      BY <1>6 DEF record_meaning, AssignmentGlobal, TrueGlobal, ScopeOf
    <2>2. meanings' \in Stores(Names, Meanings) /\ Depth(meanings') = scope_depth
      <3>1. CASE meanings' = Assigned(meanings, n, m, AssignmentGlobal(global))
        BY <1>1, <2>1, <3>1, Shape, AssignedType
      <3>2. CASE meanings' = RecordedInDoubt(meanings, n, m)
        BY <1>1, <3>2, Shape, InDoubtEntries
      <3>3. QED BY <1>6, <3>1, <3>2 DEF record_meaning
    <2>3. trueMeanings' \in TruthTables(Names, Meanings) /\ Len(trueMeanings') = scope_depth + 1
      BY <1>1, <2>1, Shape, TrueAssignType
    <2>4. scope_depth' = scope_depth
      BY <2>1 DEF scope_depth
    <2>5. QED BY <1>1, <2>1, <2>2, <2>3, <2>4 DEF TypeOK, ScopesAligned
  <1>7. ASSUME NEW s \in Summaries, invalidate_writes(s)
        PROVE  TypeOK' /\ ScopesAligned'
    <2>1. /\ ints' = Doubted(ints, VisitedInts(s.registers, s.global), s.global)
          /\ meanings' = Doubted(meanings, VisitedNames(s.names, s.prefix, s.global), s.global)
          /\ barrier' = barrier \cup s.prefix
          /\ snapshots' = [i \in 1..scope_depth |->
                             IF s.global THEN [snapshots[i] EXCEPT !.barrier = @ \cup s.prefix]
                                         ELSE snapshots[i]]
          /\ trueInts' \in UnknownWrites(trueInts, s.registers, Settings, s.global)
          /\ trueMeanings' \in UnknownWrites(trueMeanings, s.names \cup s.prefix, Meanings, s.global)
          /\ UNCHANGED <<catcodes, trueCats>>
      BY <1>7 DEF invalidate_writes, DoubtWrites
    <2>2. ints' \in Stores(Parameters, Settings) /\ Depth(ints') = scope_depth
      BY <1>1, <2>1, Shape, SummaryShape, DoubtedEither
    <2>3. meanings' \in Stores(Names, Meanings) /\ Depth(meanings') = scope_depth
      BY <1>1, <2>1, Shape, SummaryShape, DoubtedEither
    <2>4. trueInts' \in TruthTables(Parameters, Settings) /\ Len(trueInts') = scope_depth + 1
      BY <1>1, <2>1, Shape, SummaryShape, UnknownType
    <2>5. trueMeanings' \in TruthTables(Names, Meanings) /\ Len(trueMeanings') = scope_depth + 1
      <3>1. s.names \cup s.prefix \in SUBSET Names
        BY SummaryShape
      <3>2. QED BY <1>1, <2>1, <3>1, Shape, SummaryShape, UnknownType
    <2>6. /\ snapshots' \in Seq([catcodes: CatTables, barrier: SUBSET Names])
          /\ scope_depth' = scope_depth
      BY <1>1, <2>1, SummaryShape, BarrierSnapshots DEF scope_depth
    <2>7. barrier' \in SUBSET Names
      BY <1>1, <2>1, Shape, SummaryShape
    <2>8. QED BY <1>1, <2>1, <2>2, <2>3, <2>4, <2>5, <2>6, <2>7 DEF TypeOK, ScopesAligned
  <1>8. ASSUME NEW names \in SUBSET Names, invalidate_meanings(names)
        PROVE  TypeOK' /\ ScopesAligned'
    <2>1. /\ meanings' = ObservedNames(meanings, names)
          /\ trueMeanings' \in UnknownGlobally(trueMeanings, names, Meanings)
          /\ UNCHANGED <<ints, catcodes, barrier, snapshots, trueInts, trueCats>>
      BY <1>8 DEF invalidate_meanings, ObservedNames, UnknownWrites
    <2>2. meanings' \in Stores(Names, Meanings) /\ Depth(meanings') = scope_depth
      BY <1>1, <2>1, ObservedNamesEntries
    <2>3. trueMeanings' \in TruthTables(Names, Meanings) /\ Len(trueMeanings') = scope_depth + 1
      BY <1>1, <1>c, <2>1, Shape, UnknownGloballyConfined
    <2>4. scope_depth' = scope_depth
      BY <2>1 DEF scope_depth
    <2>5. QED BY <1>1, <2>1, <2>2, <2>3, <2>4 DEF TypeOK, ScopesAligned
  <1>9. CASE invalidate_observed_meanings
    <2>1. /\ ints' = DoubtedGlobally(ints, VisitedInts(Parameters, TRUE))
          /\ meanings' = ObservedMeanings(meanings)
          /\ trueInts' \in UnknownGlobally(trueInts, Parameters, Settings)
          /\ trueMeanings' \in UnknownGlobally(trueMeanings, Names, Meanings)
          /\ UNCHANGED <<catcodes, barrier, snapshots, trueCats>>
      BY <1>9 DEF invalidate_observed_meanings, DoubtObserved, ObservedMeanings, Marked, BoundedWrites,
                  UnknownWrites, Doubted
    <2>2. ints' \in Stores(Parameters, Settings) /\ Depth(ints') = scope_depth
      <3>1. PICK S : ints' = DoubtedGlobally(ints, S)
        BY <2>1
      <3>2. QED BY <1>1, <3>1, Shape, DoubtedType
    <2>3. meanings' \in Stores(Names, Meanings) /\ Depth(meanings') = scope_depth
      BY <1>1, <2>1, ObservedMeaningsEntries
    <2>4. trueInts' \in TruthTables(Parameters, Settings) /\ Len(trueInts') = scope_depth + 1
      BY <1>1, <1>c, <2>1, Shape, UnknownGloballyConfined
    <2>5. trueMeanings' \in TruthTables(Names, Meanings) /\ Len(trueMeanings') = scope_depth + 1
      BY <1>1, <1>c, <2>1, Shape, UnknownGloballyConfined
    <2>6. scope_depth' = scope_depth
      BY <2>1 DEF scope_depth
    <2>7. QED BY <1>1, <2>1, <2>2, <2>3, <2>4, <2>5, <2>6 DEF TypeOK, ScopesAligned
  <1>10. CASE UNCHANGED vars
    BY <1>1, <1>10 DEF TypeOK, ScopesAligned, vars, scope_depth
  <1>11. QED BY <1>1, <1>2, <1>3, <1>4, <1>5, <1>6, <1>7, <1>8, <1>9, <1>10 DEF Next

(* Every store keeps one journal, and one snapshot, per open group          *)
(* (reading/context.py: push_scope and pop_scope).                          *)
THEOREM ScopesStayAligned == Spec => [](TypeOK /\ ScopesAligned)
PROOF
  <1>1. Init => Typed
    BY InitType DEF Typed
  <1>2. Typed => TypeOK /\ ScopesAligned
    BY DEF Typed
  <1>3. QED BY <1>1, <1>2, NextType, PTL DEF Spec

-----------------------------------------------------------------------------
(* What a level of the stores promises. *)
LEMMA SuppliedIsHonest ==
  ASSUME NEW K, NEW V, NEW st \in Stores(K, V), NEW truth, NEW default, Sound(st, truth, default),
         NEW k \in K, NEW i \in 1..(Depth(st) + 1), EntryAt(st, i)[k] # NotSaved
  PROVE  Honest(EntryAt(st, i)[k], default[i][k], truth[i][k])
PROOF
  <1>1. Depth(st) \in Nat /\ KeysOf(st) = K
    BY StoreShape
  <1>2. i \in i..(Depth(st) + 1) /\ i..(i - 1) = {}
    BY <1>1
  <1>3. Supplies(st, k, i, i)
    BY <1>2 DEF Supplies
  <1>4. QED BY <1>1, <1>2, <1>3 DEF Sound

(* Two defaults the stores never answer for. *)
LEMMA IntDefaults ==
  ASSUME TypeOK, ScopesAligned
  PROVE  \A i \in 1..(scope_depth + 1), k \in Parameters : IntDefault[i][k] = Uncertain
BY Shape DEF IntDefault

LEMMA IntDefaultsNext ==
  ASSUME TypeOK', ScopesAligned'
  PROVE  \A i \in 1..(scope_depth' + 1), k \in Parameters : IntDefault'[i][k] = Uncertain
BY DEF IntDefault

LEMMA NameDefaults ==
  ASSUME TypeOK, ScopesAligned
  PROVE  \A i \in 1..(scope_depth + 1), n \in Names :
            MeaningDefault[i][n] = IF n \in BarrierAt(i) THEN Uncertain ELSE Fallback
BY Shape DEF MeaningDefault

LEMMA NameDefaultsNext ==
  ASSUME TypeOK', ScopesAligned'
  PROVE  \A i \in 1..(scope_depth' + 1), n \in Names :
            MeaningDefault'[i][n] = IF n \in BarrierAt(i)' THEN Uncertain ELSE Fallback
PROOF
  <1>1. KeysOf(meanings') = Names
    BY StoreShape DEF TypeOK
  <1>2. QED BY <1>1 DEF MeaningDefault

(* The reader and TeX give an assignment the same scope whenever the reader *)
(* claims to know it: \globaldefs is established.                           *)
LEMMA ScopeAgrees ==
  ASSUME TypeOK, ScopesAligned, ParametersAreTrue, ScopeKnown, NEW global \in BOOLEAN
  PROVE  AssignmentGlobal(global) = TrueGlobal(global)
PROOF
  <1>1. CASE scope_depth = 0
    BY <1>1 DEF AssignmentGlobal, TrueGlobal
  <1>2. CASE scope_depth # 0
    <2>1. globaldefs # Uncertain
      BY <1>2 DEF ScopeKnown
    <2>2. /\ EntryAt(ints, scope_depth + 1) = ints.values /\ GlobalDefs \in Parameters
          /\ ints.values[GlobalDefs] \in Entries(Settings) /\ scope_depth + 1 \in 1..(scope_depth + 1)
      BY Shape, StoreShape, EntriesOfStore DEF Parameters
    <2>3. Honest(ints.values[GlobalDefs], IntDefault[scope_depth + 1][GlobalDefs],
                 trueInts[scope_depth + 1][GlobalDefs])
      BY <2>2, Shape, PlainEntries, SuppliedIsHonest DEF ParametersAreTrue
    <2>4. IntDefault[scope_depth + 1][GlobalDefs] = Uncertain
      BY <2>2, IntDefaults
    <2>5. globaldefs = trueInts[scope_depth + 1][GlobalDefs]
      BY <2>1, <2>3, <2>4 DEF globaldefs, Honest
    <2>6. globaldefs = trueGlobaldefs
      BY <2>5, Shape DEF trueGlobaldefs
    <2>7. QED BY <2>6 DEF AssignmentGlobal, TrueGlobal
  <1>3. QED BY <1>1, <1>2

-----------------------------------------------------------------------------
(* Where nothing is opened or closed, the levels and their barriers stand. *)
LEMMA SameDefaults ==
  ASSUME TypeOK, ScopesAligned, TypeOK', ScopesAligned', snapshots' = snapshots, barrier' = barrier
  PROVE  /\ scope_depth' = scope_depth
         /\ IntDefault' = IntDefault
         /\ \A i \in 1..(scope_depth + 1), n \in Names : MeaningDefault'[i][n] = MeaningDefault[i][n]
PROOF
  <1>1. scope_depth' = scope_depth
    BY DEF scope_depth
  <1>2. \A i \in 1..(scope_depth + 1) : BarrierAt(i)' = BarrierAt(i)
    BY <1>1 DEF BarrierAt
  <1>3. QED BY <1>1, <1>2, NameDefaults, NameDefaultsNext DEF IntDefault

Truthful == MeaningsAreTrue /\ ScopesAreTrue

LEMMA InitTrue == Init => Truthful
PROOF
  <1>1. SUFFICES ASSUME Init PROVE MeaningsAreTrue /\ ParametersAreTrue /\ CategoriesAreTrue
    BY DEF Truthful, ScopesAreTrue
  <1>2. TypeOK /\ ScopesAligned
    BY <1>1, InitType
  <1>3. scope_depth = 0 /\ \A i \in 1..1 : \A j \in i..1 : i = 1 /\ j = 1
    BY <1>1 DEF Init, scope_depth
  <1>4. MeaningsAreTrue
    <2>1. SUFFICES ASSUME NEW k \in Names, NEW i \in 1..1, NEW j \in i..1
                   PROVE  Honest(EntryAt(meanings, j)[k], MeaningDefault[i][k], trueMeanings[i][k])
      BY <1>2, <1>3, Shape DEF MeaningsAreTrue, Sound
    <2>2. i = 1 /\ j = 1
      BY <1>3
    <2>3. EntryAt(meanings, 1) = meanings.values
      BY <1>2, <1>3, Shape DEF EntryAt
    <2>4. meanings.values[k] = Absent /\ trueMeanings[1][k] = Fallback
      BY <1>1 DEF Init
    <2>5. MeaningDefault[1][k] \in {Uncertain, Fallback}
      BY <1>2, <1>3, NameDefaults
    <2>6. QED BY <2>2, <2>3, <2>4, <2>5 DEF Honest, Reading
  <1>5. ParametersAreTrue
    <2>1. SUFFICES ASSUME NEW k \in Parameters, NEW i \in 1..1, NEW j \in i..1
                   PROVE  Honest(EntryAt(ints, j)[k], IntDefault[i][k], trueInts[i][k])
      BY <1>2, <1>3, Shape DEF ParametersAreTrue, Sound
    <2>2. i = 1 /\ j = 1
      BY <1>3
    <2>3. EntryAt(ints, 1) = ints.values
      BY <1>2, <1>3, Shape DEF EntryAt
    <2>4. ints.values[k] = 0 /\ trueInts[1][k] = 0
      BY <1>1 DEF Init
    <2>5. 0 # Absent
      BY ContextAssumption DEF Plain
    <2>6. QED BY <2>2, <2>3, <2>4, <2>5 DEF Honest, Reading
  <1>6. CategoriesAreTrue
    BY <1>1, <1>3 DEF Init, CategoriesAreTrue
  <1>7. QED BY <1>4, <1>5, <1>6

-----------------------------------------------------------------------------
(* The snapshots after a group bracket. *)
LEMMA PushedLevels ==
  ASSUME TypeOK, ScopesAligned, push_scope
  PROVE  /\ scope_depth' = scope_depth + 1
         /\ \A i \in 1..scope_depth : snapshots'[i] = snapshots[i]
         /\ snapshots'[scope_depth + 1].catcodes = catcodes
         /\ snapshots'[scope_depth + 1].barrier = barrier
         /\ \A i \in 1..(scope_depth + 1) : BarrierAt(i)' = BarrierAt(i)
         /\ \A i \in Nat : i = scope_depth + 2 => BarrierAt(i)' = BarrierAt(scope_depth + 1)
PROOF
  <1> DEFINE Snapshots == [catcodes: CatTables, barrier: SUBSET Names]
             new == [catcodes |-> catcodes, barrier |-> barrier]
  <1>1. snapshots \in Seq(Snapshots) /\ new \in Snapshots /\ scope_depth \in Nat
        /\ snapshots' = Append(snapshots, new) /\ barrier' = barrier
    BY Shape DEF push_scope
  <1> HIDE DEF Snapshots, new
  <1>2. /\ scope_depth' = scope_depth + 1 /\ snapshots'[scope_depth + 1] = new
        /\ \A i \in 1..scope_depth : snapshots'[i] = snapshots[i]
    BY <1>1, AppendProperties DEF scope_depth
  <1>3. new.catcodes = catcodes /\ new.barrier = barrier
    BY DEF new
  <1>4. ASSUME NEW i \in 1..(scope_depth + 1)
        PROVE  BarrierAt(i)' = BarrierAt(i)
    <2>1. i # scope_depth + 2 /\ ((i \in 1..scope_depth /\ i # scope_depth + 1) \/ i = scope_depth + 1)
      BY <1>1
    <2>2. scope_depth' + 1 = scope_depth + 2
      BY <1>1, <1>2
    <2>3. QED BY <1>2, <1>3, <2>1, <2>2 DEF BarrierAt
  <1>5. ASSUME NEW i \in Nat, i = scope_depth + 2
        PROVE  BarrierAt(i)' = BarrierAt(scope_depth + 1)
    <2>1. scope_depth' + 1 = i
      BY <1>1, <1>2, <1>5
    <2>2. QED BY <1>1, <1>2, <2>1 DEF BarrierAt
  <1>6. QED BY <1>2, <1>3, <1>4, <1>5

LEMMA PoppedLevels ==
  ASSUME TypeOK, ScopesAligned, pop_scope
  PROVE  /\ scope_depth > 0 /\ scope_depth' = scope_depth - 1
         /\ \A i \in 1..(scope_depth - 1) : snapshots'[i] = snapshots[i]
         /\ \A i \in 1..scope_depth : BarrierAt(i)' = BarrierAt(i)
PROOF
  <1> DEFINE Snapshots == [catcodes: CatTables, barrier: SUBSET Names]
             n == scope_depth - 1
  <1>1. /\ snapshots \in Seq(Snapshots) /\ scope_depth \in Nat /\ scope_depth > 0
        /\ snapshots' = SubSeq(snapshots, 1, n) /\ barrier' = snapshots[scope_depth].barrier
    BY Shape DEF pop_scope
  <1>2. n \in Int /\ n >= 0 /\ \A i \in 1..n : snapshots[i] \in Snapshots
    BY <1>1, Shape
  <1> HIDE DEF Snapshots
  <1>3. Len(snapshots') = IF 1 <= n THEN n - 1 + 1 ELSE 0
    BY <1>1, <1>2, SubSeqProperties
  <1>4. \A i \in 1..(n - 1 + 1) : snapshots'[i] = snapshots[1 + i - 1]
    BY <1>1, <1>2, SubSeqProperties
  <1>5. scope_depth' = n
    <2>1. Len(snapshots') = n
      BY <1>2, <1>3
    <2>2. scope_depth' = Len(snapshots')
      BY DEF scope_depth
    <2>3. QED BY <2>1, <2>2
  <1>6. ASSUME NEW i \in 1..n PROVE snapshots'[i] = snapshots[i]
    <2>1. i \in 1..(n - 1 + 1) /\ 1 + i - 1 = i
      BY <1>2
    <2>2. QED BY <1>4, <2>1
  <1>7. ASSUME NEW i \in 1..scope_depth PROVE BarrierAt(i)' = BarrierAt(i)
    <2>1. i \in 1..n \/ i = scope_depth
      BY <1>1
    <2>2. scope_depth' + 1 = scope_depth /\ i # scope_depth + 1 /\ \A j \in 1..n : j # scope_depth
      BY <1>1, <1>5
    <2>3. QED BY <1>1, <1>6, <2>1, <2>2 DEF BarrierAt
  <1>8. QED BY <1>1, <1>5, <1>6, <1>7

-----------------------------------------------------------------------------
LEMMA NextParameters ==
  ASSUME TypeOK, ScopesAligned, Truthful, [Next]_vars
  PROVE  ParametersAreTrue'
PROOF
  <1>1. Sound(ints, trueInts, IntDefault) /\ ParametersAreTrue
    BY DEF Truthful, ScopesAreTrue, ParametersAreTrue
  <1>2. TypeOK' /\ ScopesAligned'
    BY NextType DEF Typed
  <1>3. /\ \A i \in 1..(scope_depth + 1), k \in Parameters : IntDefault[i][k] = Uncertain
        /\ \A i \in 1..(scope_depth' + 1), k \in Parameters : IntDefault'[i][k] = Uncertain
    BY <1>2, IntDefaults, IntDefaultsNext
  <1>4. CASE push_scope
    <2>1. ints' = Pushed(ints) /\ trueInts' = TruePush(trueInts)
      BY <1>4 DEF push_scope
    <2>2. scope_depth' = scope_depth + 1 /\ scope_depth \in Nat
      BY <1>4, Shape, PushedLevels
    <2>3. /\ \A i \in 1..(scope_depth + 1), k \in Parameters : IntDefault'[i][k] = IntDefault[i][k]
          /\ \A k \in Parameters : IntDefault'[scope_depth + 2][k] = IntDefault[scope_depth + 1][k]
      BY <1>3, <2>2
    <2>4. QED BY <1>1, <2>1, <2>3, Shape, PlainEntries, PushedSound DEF ParametersAreTrue
  <1>5. CASE pop_scope
    <2>1. ints' = Popped(ints) /\ trueInts' = TruePop(trueInts)
      BY <1>5 DEF pop_scope
    <2>2. scope_depth' = scope_depth - 1 /\ scope_depth > 0 /\ scope_depth \in Nat
      BY <1>5, Shape, PoppedLevels
    <2>3. \A i \in 1..scope_depth, k \in Parameters : IntDefault'[i][k] = IntDefault[i][k]
      BY <1>3, <2>2
    <2>4. QED BY <1>1, <2>1, <2>2, <2>3, Shape, PlainEntries, PoppedSound DEF ParametersAreTrue
  <1>6. ASSUME NEW v \in Settings, NEW global \in BOOLEAN, assign_integer(v, global)
        PROVE  ParametersAreTrue'
    <2>1. PICK every \in BOOLEAN : /\ ints' = Assigned(ints, GlobalDefs, v, every)
                                   /\ trueInts' = TrueAssign(trueInts, GlobalDefs, v, every)
      <3>1. AssignmentGlobal(global) = TrueGlobal(global)
        BY <1>1, <1>6, ScopeAgrees DEF assign_integer
      <3>2. AssignmentGlobal(global) \in BOOLEAN
        BY DEF AssignmentGlobal, ScopeOf
      <3>3. QED BY <1>6, <3>1, <3>2 DEF assign_integer
    <2>2. IntDefault' = IntDefault /\ GlobalDefs \in Parameters /\ Plain(Settings)
      BY <1>2, <1>6, SameDefaults, ContextAssumption DEF assign_integer, Parameters
    <2>3. QED BY <1>1, <2>1, <2>2, Shape, PlainEntries, AssignedSound DEF ParametersAreTrue
  <1>7. ASSUME NEW names \in SUBSET Parameters, NEW global \in BOOLEAN,
               ints' = Doubted(ints, VisitedInts(names, global), global),
               trueInts' \in UnknownWrites(trueInts, names, Settings, global),
               scope_depth' = scope_depth
        PROVE  ParametersAreTrue'
    <2> DEFINE S == VisitedInts(names, global)
    <2>1. /\ \A j \in 1..scope_depth : EntryAt(ints, j) = ints.scopes[j]
          /\ EntryAt(ints, scope_depth + 1) = ints.values
      BY Shape, EntriesOfStore
    <2>2. S \in SUBSET names
      BY DEF VisitedInts
    <2>3. /\ scope_depth \in Nat /\ scope_depth + 1 \in 1..(scope_depth + 1)
          /\ \A i \in 1..(scope_depth + 1) : i \in 1..scope_depth \/ i = scope_depth + 1
          /\ \A i \in 1..scope_depth : i \in 1..(scope_depth + 1)
      BY Shape
    <2>4. /\ \A i \in 1..(scope_depth + 1), k \in Parameters : IntDefault'[i][k] = IntDefault[i][k]
          /\ \A i \in 1..scope_depth, k \in Parameters : IntDefault'[i][k] = IntDefault[i][k]
          /\ \A i \in 1..(scope_depth + 1), k \in names : IntDefault'[i][k] = Uncertain
      BY <1>3, <1>7, <2>3
    <2>5. CASE global
      <3>1. ints' = DoubtedGlobally(ints, S) /\ trueInts' \in UnknownGlobally(trueInts, names, Settings)
        BY <1>7, <2>5 DEF Doubted, UnknownWrites
      <3>2. \A k \in names \ S : /\ ints.values[k] = Absent
                                 /\ \A i \in 1..scope_depth : ints.scopes[i][k] = NotSaved
        BY <2>5 DEF VisitedInts
      <3>3. \A i \in 1..(scope_depth + 1), k \in names \ S :
               EntryAt(ints, i)[k] \in {Absent, NotSaved} /\ IntDefault'[i][k] = Uncertain
        BY <2>1, <2>3, <2>4, <3>2
      <3>4. QED BY <1>1, <2>2, <2>4, <3>1, <3>3, Shape, DoubtedGloballySound DEF ParametersAreTrue
    <2>6. CASE ~global
      <3>1. ints' = DoubtedLocally(ints, S) /\ trueInts' \in UnknownLocally(trueInts, names, Settings)
        BY <1>7, <2>6 DEF Doubted, UnknownWrites
      <3>2. \A k \in names \ S : /\ EntryAt(ints, scope_depth + 1)[k] = Absent
                                 /\ IntDefault'[scope_depth + 1][k] = Uncertain
        BY <2>1, <2>3, <2>4 DEF VisitedInts
      <3>3. QED BY <1>1, <2>2, <2>3, <2>4, <3>1, <3>2, Shape, PlainEntries, DoubtedLocallySound
                DEF ParametersAreTrue
    <2>7. QED BY <2>5, <2>6
  <1>8. ASSUME NEW s \in Summaries, invalidate_writes(s)
        PROVE  ParametersAreTrue'
    <2>1. scope_depth' = scope_depth
      <3>1. snapshots' = [i \in 1..scope_depth |->
                             IF s.global THEN [snapshots[i] EXCEPT !.barrier = @ \cup s.prefix]
                                         ELSE snapshots[i]]
        BY <1>8 DEF invalidate_writes, DoubtWrites
      <3>2. QED BY <3>1, SummaryShape, BarrierSnapshots DEF scope_depth
    <2>2. QED BY <1>7, <1>8, <2>1, SummaryShape DEF invalidate_writes, DoubtWrites
  <1>9. CASE invalidate_observed_meanings
    <2>1. scope_depth' = scope_depth
      BY <1>9 DEF invalidate_observed_meanings, DoubtObserved, scope_depth
    <2>2. TRUE \in BOOLEAN /\ Parameters \in SUBSET Parameters
      OBVIOUS
    <2>3. /\ ints' = Doubted(ints, VisitedInts(Parameters, TRUE), TRUE)
          /\ trueInts' \in UnknownWrites(trueInts, Parameters, Settings, TRUE)
      BY <1>9 DEF invalidate_observed_meanings, DoubtObserved
    <2>4. QED BY <1>7, <2>1, <2>2, <2>3
  <1>10. CASE UNCHANGED <<ints, trueInts, scope_depth>>
    BY <1>1, <1>10 DEF ParametersAreTrue, IntDefault
  <1>11. ASSUME NEW c \in Characters, NEW category \in Categories, NEW global \in BOOLEAN,
                assign_catcode(c, category, global)
         PROVE  ParametersAreTrue'
    <2>1. AssignmentGlobal(global) \in BOOLEAN
      BY DEF AssignmentGlobal, ScopeOf
    <2>2. UNCHANGED <<ints, trueInts, scope_depth>>
      BY <1>11, <2>1, CatcodeSnapshots DEF assign_catcode, scope_depth
    <2>3. QED BY <1>10, <2>2
  <1>12. CASE UNCHANGED <<ints, trueInts, snapshots>>
    BY <1>10, <1>12 DEF scope_depth
  <1>13. QED
    BY <1>4, <1>5, <1>6, <1>8, <1>9, <1>11, <1>12 DEF Next, vars, record_meaning, invalidate_meanings

-----------------------------------------------------------------------------
LEMMA NextCategories ==
  ASSUME TypeOK, ScopesAligned, Truthful, [Next]_vars
  PROVE  CategoriesAreTrue'
PROOF
  <1>1. /\ catcodes = trueCats[scope_depth + 1] /\ \A i \in 1..scope_depth : snapshots[i].catcodes = trueCats[i]
        /\ scope_depth \in Nat /\ trueCats \in TruthTables(Characters, Categories)
        /\ Len(trueCats) = scope_depth + 1
        /\ \A i \in 1..(scope_depth + 1) : trueCats[i] \in CatTables
    <2>1. trueCats \in Seq(CatTables) /\ Len(trueCats) = scope_depth + 1
      BY Shape DEF TypeOK
    <2>2. \A i \in 1..(scope_depth + 1) : trueCats[i] \in CatTables
      BY <2>1
    <2>3. QED BY <2>1, <2>2, Shape DEF Truthful, ScopesAreTrue, CategoriesAreTrue
  <1>2. TypeOK' /\ ScopesAligned'
    BY NextType DEF Typed
  <1>3. SUFFICES /\ catcodes' = trueCats'[scope_depth' + 1]
                 /\ \A i \in 1..scope_depth' : snapshots'[i].catcodes = trueCats'[i]
    BY <1>2 DEF CategoriesAreTrue, ScopesAligned
  <1>4. CASE push_scope
    <2>1. /\ scope_depth' = scope_depth + 1 /\ \A i \in 1..scope_depth : snapshots'[i] = snapshots[i]
          /\ snapshots'[scope_depth + 1].catcodes = catcodes /\ catcodes' = catcodes
      BY <1>4, PushedLevels DEF push_scope
    <2>2. trueCats' = Append(trueCats, trueCats[scope_depth + 1])
      BY <1>1, <1>4 DEF push_scope, TruePush
    <2>3. /\ \A i \in 1..(scope_depth + 1) : trueCats'[i] = trueCats[i]
          /\ trueCats'[scope_depth + 2] = trueCats[scope_depth + 1]
      <3>1. trueCats \in Seq(CatTables) /\ trueCats[scope_depth + 1] \in CatTables
        BY <1>1 DEF TypeOK
      <3>2. QED BY <1>1, <2>2, <3>1, AppendProperties
    <2>4. /\ scope_depth' + 1 = scope_depth + 2
          /\ \A i \in 1..scope_depth' : i \in 1..(scope_depth + 1) /\ (i \in 1..scope_depth \/ i = scope_depth + 1)
      BY <1>1, <2>1
    <2>5. QED BY <1>1, <2>1, <2>3, <2>4
  <1>5. CASE pop_scope
    <2>1. /\ scope_depth' = scope_depth - 1 /\ scope_depth > 0
          /\ \A i \in 1..(scope_depth - 1) : snapshots'[i] = snapshots[i]
          /\ catcodes' = snapshots[scope_depth].catcodes
      BY <1>5, PoppedLevels DEF pop_scope
    <2>2. trueCats' = SubSeq(trueCats, 1, scope_depth)
      BY <1>1, <1>5 DEF pop_scope, TruePop
    <2>3. \A i \in 1..scope_depth : trueCats'[i] = trueCats[i]
      <3>1. \A i \in 1..scope_depth : trueCats[i] \in CatTables
        BY <1>1
      <3>2. \A i \in 1..(scope_depth - 1 + 1) : trueCats'[i] = trueCats[1 + i - 1]
        BY <1>1, <2>2, <3>1, SubSeqProperties
      <3>3. \A i \in 1..scope_depth : i \in 1..(scope_depth - 1 + 1) /\ 1 + i - 1 = i
        BY <1>1
      <3>4. QED BY <3>2, <3>3
    <2>4. /\ scope_depth \in 1..scope_depth /\ scope_depth' + 1 = scope_depth
          /\ \A i \in 1..scope_depth' : i \in 1..scope_depth /\ i \in 1..(scope_depth - 1)
      BY <1>1, <2>1
    <2>5. QED BY <1>1, <2>1, <2>3, <2>4
  <1>6. ASSUME NEW c \in Characters, NEW category \in Categories, NEW global \in BOOLEAN,
               assign_catcode(c, category, global)
        PROVE  /\ catcodes' = trueCats'[scope_depth' + 1]
               /\ \A i \in 1..scope_depth' : snapshots'[i].catcodes = trueCats'[i]
    <2>1. AssignmentGlobal(global) = TrueGlobal(global) /\ AssignmentGlobal(global) \in BOOLEAN
      BY <1>6, ScopeAgrees DEF assign_catcode, Truthful, ScopesAreTrue, AssignmentGlobal, ScopeOf
    <2>2. /\ scope_depth' = scope_depth
          /\ \A i \in 1..scope_depth :
                snapshots'[i].catcodes = IF TrueGlobal(global) THEN [snapshots[i].catcodes EXCEPT ![c] = category]
                                                               ELSE snapshots[i].catcodes
      BY <1>6, <2>1, CatcodeSnapshots DEF assign_catcode, scope_depth
    <2>3. trueCats' = TrueAssign(trueCats, c, category, TrueGlobal(global))
          /\ catcodes' = [catcodes EXCEPT ![c] = category]
      BY <1>6 DEF assign_catcode
    <2>4. \A i \in 1..(scope_depth + 1) :
             trueCats'[i] = IF TrueGlobal(global) \/ i = scope_depth + 1
                              THEN [trueCats[i] EXCEPT ![c] = category] ELSE trueCats[i]
      BY <1>1, <2>3 DEF TrueAssign
    <2>5. /\ scope_depth + 1 \in 1..(scope_depth + 1)
          /\ \A i \in 1..scope_depth : i \in 1..(scope_depth + 1) /\ i # scope_depth + 1
      BY <1>1
    <2>6. catcodes' = trueCats'[scope_depth + 1]
      BY <1>1, <2>3, <2>4, <2>5
    <2>7. ASSUME NEW i \in 1..scope_depth
          PROVE  snapshots'[i].catcodes = trueCats'[i]
      <3>1. snapshots[i].catcodes = trueCats[i] /\ i \in 1..(scope_depth + 1) /\ i # scope_depth + 1
        BY <1>1, <2>5
      <3>2. trueCats'[i] = IF TrueGlobal(global) THEN [trueCats[i] EXCEPT ![c] = category] ELSE trueCats[i]
        BY <2>4, <3>1
      <3>3. QED BY <2>2, <3>1, <3>2
    <2>8. QED BY <2>2, <2>6, <2>7
  <1>7. ASSUME NEW s \in Summaries, invalidate_writes(s)
        PROVE  /\ catcodes' = trueCats'[scope_depth' + 1]
               /\ \A i \in 1..scope_depth' : snapshots'[i].catcodes = trueCats'[i]
    <2>1. /\ snapshots' = [i \in 1..scope_depth |->
                             IF s.global THEN [snapshots[i] EXCEPT !.barrier = @ \cup s.prefix]
                                         ELSE snapshots[i]]
          /\ catcodes' = catcodes /\ trueCats' = trueCats
      BY <1>7 DEF invalidate_writes, DoubtWrites
    <2>2. /\ scope_depth' = scope_depth
          /\ \A i \in 1..scope_depth : snapshots'[i].catcodes = snapshots[i].catcodes
      BY <2>1, SummaryShape, BarrierSnapshots DEF scope_depth
    <2>3. QED BY <1>1, <2>1, <2>2
  <1>8. CASE UNCHANGED <<catcodes, snapshots, trueCats>>
    BY <1>1, <1>8 DEF scope_depth
  <1>9. QED
    BY <1>4, <1>5, <1>6, <1>7, <1>8
       DEF Next, vars, assign_integer, record_meaning, invalidate_meanings,
           invalidate_observed_meanings, DoubtObserved

-----------------------------------------------------------------------------
LEMMA NextMeanings ==
  ASSUME TypeOK, ScopesAligned, Truthful, [Next]_vars
  PROVE  MeaningsAreTrue'
PROOF
  <1>1. Sound(meanings, trueMeanings, MeaningDefault) /\ ParametersAreTrue
    BY DEF Truthful, MeaningsAreTrue, ScopesAreTrue
  <1>2. TypeOK' /\ ScopesAligned'
    BY NextType DEF Typed
  <1>3. /\ \A i \in 1..(scope_depth + 1), n \in Names :
              MeaningDefault[i][n] = IF n \in BarrierAt(i) THEN Uncertain ELSE Fallback
        /\ \A i \in 1..(scope_depth' + 1), n \in Names :
              MeaningDefault'[i][n] = IF n \in BarrierAt(i)' THEN Uncertain ELSE Fallback
    BY <1>2, NameDefaults, NameDefaultsNext
  <1>a. /\ scope_depth \in Nat /\ Depth(meanings) = scope_depth /\ scope_depth + 1 \in 1..(scope_depth + 1)
        /\ \A i \in 1..scope_depth : i \in 1..(scope_depth + 1) /\ i # scope_depth + 1
        /\ \A i \in 1..(scope_depth + 1) : i \in 1..scope_depth \/ i = scope_depth + 1
    BY Shape
  <1>b. /\ \A j \in 1..scope_depth : EntryAt(meanings, j) = meanings.scopes[j]
        /\ EntryAt(meanings, scope_depth + 1) = meanings.values
    BY Shape, EntriesOfStore
  <1>4. CASE push_scope
    <2>1. meanings' = Pushed(meanings) /\ trueMeanings' = TruePush(trueMeanings)
      BY <1>4 DEF push_scope
    <2>2. /\ scope_depth' = scope_depth + 1
          /\ \A i \in 1..(scope_depth + 1) : BarrierAt(i)' = BarrierAt(i)
          /\ \A i \in Nat : i = scope_depth + 2 => BarrierAt(i)' = BarrierAt(scope_depth + 1)
      BY <1>4, PushedLevels
    <2>3. \A i \in 1..(scope_depth + 1), k \in Names : MeaningDefault'[i][k] = MeaningDefault[i][k]
      BY <1>3, <1>a, <2>2
    <2>4. \A k \in Names : MeaningDefault'[scope_depth + 2][k] = MeaningDefault[scope_depth + 1][k]
      <3>1. PICK i \in Nat : i = scope_depth + 2 /\ i \in 1..(scope_depth' + 1)
        BY <1>a, <2>2
      <3>2. \A k \in Names : MeaningDefault'[i][k] = MeaningDefault[scope_depth + 1][k]
        BY <1>3, <1>a, <2>2, <3>1
      <3>3. QED BY <3>1, <3>2
    <2>5. QED BY <1>1, <2>1, <2>3, <2>4, Shape, PlainEntries, PushedSound DEF MeaningsAreTrue
  <1>5. CASE pop_scope
    <2>1. meanings' = Popped(meanings) /\ trueMeanings' = TruePop(trueMeanings)
      BY <1>5 DEF pop_scope
    <2>2. /\ scope_depth' = scope_depth - 1 /\ scope_depth > 0
          /\ \A i \in 1..scope_depth : BarrierAt(i)' = BarrierAt(i)
      BY <1>5, PoppedLevels
    <2>3. \A i \in 1..scope_depth : i \in 1..(scope_depth' + 1)
      BY <1>a, <2>2
    <2>4. \A i \in 1..scope_depth, k \in Names : MeaningDefault'[i][k] = MeaningDefault[i][k]
      BY <1>3, <1>a, <2>2, <2>3
    <2>5. QED BY <1>1, <2>1, <2>2, <2>4, Shape, PlainEntries, PoppedSound DEF MeaningsAreTrue
  <1>6. ASSUME NEW n \in Names, NEW m \in Meanings, NEW global \in BOOLEAN, record_meaning(n, m, global)
        PROVE  MeaningsAreTrue'
    <2>1. \A i \in 1..(scope_depth + 1), k \in Names : MeaningDefault'[i][k] = MeaningDefault[i][k]
      BY <1>2, <1>6, SameDefaults DEF record_meaning
    <2>2. Plain(Meanings) /\ meanings \in Stores(Names, Meanings) /\ meanings' \in Stores(Names, Meanings)
          /\ Depth(meanings') = scope_depth
      BY <1>2, <1>6, Shape, ContextAssumption DEF TypeOK, ScopesAligned, record_meaning, scope_depth
    <2> DEFINE every == TrueGlobal(global)
    <2>3. /\ every \in BOOLEAN /\ trueMeanings' = TrueAssign(trueMeanings, n, m, every)
      BY <1>6 DEF record_meaning, TrueGlobal, ScopeOf
    <2>4. CASE ScopeKnown /\ meanings' = Assigned(meanings, n, m, AssignmentGlobal(global))
      <3>1. meanings' = Assigned(meanings, n, m, every)
        BY <1>1, <2>4, ScopeAgrees
      <3> HIDE DEF every
      <3>2. Sound(meanings', trueMeanings', MeaningDefault)
        BY <1>1, <2>2, <2>3, <3>1, Shape, PlainEntries, AssignedSound
      <3>3. \A k \in Names : SoundAt(meanings', trueMeanings', MeaningDefault, k)
        BY <2>2, <3>2, SoundByKey
      <3>4. ASSUME NEW k \in Names PROVE SoundAt(meanings', trueMeanings', MeaningDefault', k)
        BY <1>a, <2>1, <2>2, <3>3, UntouchedKeySound
      <3>5. QED BY <2>2, <3>4, SoundByKey DEF MeaningsAreTrue
    <2>5. CASE meanings' = RecordedInDoubt(meanings, n, m)
      <3>1. \A j \in 1..(scope_depth + 1), k \in Names :
               EntryAt(meanings', j)[k] =
                  IF k # n THEN EntryAt(meanings, j)[k] ELSE IF j = scope_depth + 1 THEN m ELSE Uncertain
        BY <1>a, <2>2, <2>5, InDoubtEntries
      <3>2. \A i \in 1..(scope_depth + 1), k \in Names :
               /\ k # n => trueMeanings'[i][k] = trueMeanings[i][k]
               /\ i = scope_depth + 1 => trueMeanings'[i][n] = m
        <4>1. \A i \in 1..(scope_depth + 1) : trueMeanings[i] \in [Names -> Meanings]
          <5>1. trueMeanings \in Seq([Names -> Meanings]) /\ Len(trueMeanings) = scope_depth + 1
            BY Shape DEF TruthTables
          <5>2. QED BY <5>1
        <4>2. \A i \in 1..(scope_depth + 1) :
                 trueMeanings'[i] = IF every \/ i = scope_depth + 1
                                      THEN [trueMeanings[i] EXCEPT ![n] = m] ELSE trueMeanings[i]
          BY <2>3, Shape DEF TrueAssign
        <4> HIDE DEF every
        <4>3. QED BY <4>1, <4>2
      <3>3. ASSUME NEW k \in Names PROVE SoundAt(meanings', trueMeanings', MeaningDefault', k)
        <4>1. CASE k # n
          <5>1. SoundAt(meanings, trueMeanings, MeaningDefault, k)
            BY <1>1, <2>2, SoundByKey
          <5>2. QED BY <1>a, <2>1, <2>2, <3>1, <3>2, <4>1, <5>1, UntouchedKeySound
        <4>2. CASE k = n
          <5>1. SUFFICES ASSUME NEW i \in 1..(scope_depth + 1), NEW j \in i..(scope_depth + 1),
                                Supplies(meanings', k, i, j)
                         PROVE  Honest(EntryAt(meanings', j)[k], MeaningDefault'[i][k], trueMeanings'[i][k])
            BY <2>2 DEF SoundAt
          <5>2. CASE j # scope_depth + 1
            <6>1. j \in 1..(scope_depth + 1)
              BY <1>a, <5>1
            <6>2. EntryAt(meanings', j)[k] = Uncertain
              BY <3>1, <4>2, <5>2, <6>1
            <6>3. QED BY <6>2, UncertainIsHonest
          <5>3. CASE j = scope_depth + 1
            <6>1. EntryAt(meanings', j)[k] = m /\ j \in 1..(scope_depth + 1)
              BY <1>a, <3>1, <4>2, <5>3
            <6>2. i = scope_depth + 1
              <7>1. CASE i < j
                <8>1. i \in i..(j - 1) /\ i \in 1..(scope_depth + 1) /\ i # scope_depth + 1
                  BY <1>a, <5>1, <5>3, <7>1
                <8>2. EntryAt(meanings', i)[k] = Uncertain
                  BY <3>1, <4>2, <8>1
                <8>3. EntryAt(meanings', i)[k] = NotSaved
                  BY <5>1, <8>1 DEF Supplies
                <8>4. QED BY <8>2, <8>3, SentinelsDiffer
              <7>2. CASE ~(i < j)
                BY <1>a, <5>1, <5>3, <7>2
              <7>3. QED BY <7>1, <7>2
            <6>3. trueMeanings'[i][k] = m
              BY <3>2, <4>2, <5>1, <6>2
            <6>4. m # Absent
              BY <2>2 DEF Plain
            <6>5. QED BY <6>1, <6>3, <6>4 DEF Honest, Reading
          <5>4. QED BY <5>2, <5>3
        <4>3. QED BY <4>1, <4>2
      <3>4. QED BY <2>2, <3>3, SoundByKey DEF MeaningsAreTrue
    <2>6. QED BY <1>6, <2>4, <2>5 DEF record_meaning
  <1>7. ASSUME NEW s \in Summaries, invalidate_writes(s)
        PROVE  MeaningsAreTrue'
    <2> DEFINE S == VisitedNames(s.names, s.prefix, s.global)
               names == s.names \cup s.prefix
    <2>1. /\ meanings' = Doubted(meanings, S, s.global)
          /\ trueMeanings' \in UnknownWrites(trueMeanings, names, Meanings, s.global)
          /\ barrier' = barrier \cup s.prefix
          /\ snapshots' = [i \in 1..scope_depth |->
                             IF s.global THEN [snapshots[i] EXCEPT !.barrier = @ \cup s.prefix]
                                         ELSE snapshots[i]]
      BY <1>7 DEF invalidate_writes, DoubtWrites
    <2>2. /\ names \in SUBSET Names /\ S \in SUBSET names /\ s.prefix \in SUBSET Names
          /\ s.global \in BOOLEAN
      BY SummaryShape DEF VisitedNames
    <2>3. /\ scope_depth' = scope_depth
          /\ \A i \in 1..scope_depth :
                snapshots'[i].barrier = IF s.global THEN snapshots[i].barrier \cup s.prefix
                                                    ELSE snapshots[i].barrier
      BY <2>1, SummaryShape, BarrierSnapshots DEF scope_depth
    <2>4. \A i \in 1..(scope_depth + 1) :
             BarrierAt(i)' = IF s.global \/ i = scope_depth + 1 THEN BarrierAt(i) \cup s.prefix ELSE BarrierAt(i)
      BY <1>a, <2>1, <2>3 DEF BarrierAt
    <2>5. \A i \in 1..(scope_depth + 1), k \in Names :
             /\ MeaningDefault'[i][k] = MeaningDefault[i][k] \/ MeaningDefault'[i][k] = Uncertain
             /\ ~s.global /\ i # scope_depth + 1 => MeaningDefault'[i][k] = MeaningDefault[i][k]
             /\ (s.global \/ i = scope_depth + 1) /\ k \in s.prefix => MeaningDefault'[i][k] = Uncertain
      BY <1>3, <2>3, <2>4
    <2>6. \A k \in names \ S : k \in s.prefix /\ k \in Names
      BY <2>2 DEF VisitedNames
    <2>7. CASE s.global
      <3>1. /\ meanings' = DoubtedGlobally(meanings, S)
            /\ trueMeanings' \in UnknownGlobally(trueMeanings, names, Meanings)
        BY <2>1, <2>7 DEF Doubted, UnknownWrites
      <3>2. \A k \in names \ S : /\ meanings.values[k] = Absent
                                 /\ \A i \in 1..scope_depth : meanings.scopes[i][k] = NotSaved
        BY <2>7 DEF VisitedNames
      <3>3. \A i \in 1..(scope_depth + 1), k \in names \ S :
               EntryAt(meanings, i)[k] \in {Absent, NotSaved} /\ MeaningDefault'[i][k] = Uncertain
        <4>1. TAKE i \in 1..(scope_depth + 1), k \in names \ S
        <4> HIDE DEF S, names
        <4>2. MeaningDefault'[i][k] = Uncertain
          BY <2>5, <2>6, <2>7
        <4>3. CASE i \in 1..scope_depth
          BY <1>b, <3>2, <4>2, <4>3
        <4>4. CASE i = scope_depth + 1
          BY <1>b, <3>2, <4>2, <4>4
        <4>5. QED BY <1>a, <4>3, <4>4
      <3>4. \A i \in 1..(scope_depth + 1), k \in Names :
               MeaningDefault'[i][k] = MeaningDefault[i][k] \/ MeaningDefault'[i][k] = Uncertain
        BY <2>5
      <3> HIDE DEF S, names
      <3>5. QED BY <1>1, <2>2, <3>1, <3>3, <3>4, Shape, DoubtedGloballySound DEF MeaningsAreTrue
    <2>8. CASE ~s.global
      <3>1. /\ meanings' = DoubtedLocally(meanings, S)
            /\ trueMeanings' \in UnknownLocally(trueMeanings, names, Meanings)
        BY <2>1, <2>8 DEF Doubted, UnknownWrites
      <3>2. \A k \in names \ S : meanings.values[k] = Absent
        BY DEF VisitedNames
      <3>3. \A k \in names \ S : /\ EntryAt(meanings, scope_depth + 1)[k] = Absent
                                 /\ MeaningDefault'[scope_depth + 1][k] = Uncertain
        BY <1>a, <1>b, <2>5, <2>6, <3>2
      <3>4. \A i \in 1..scope_depth, k \in Names : MeaningDefault'[i][k] = MeaningDefault[i][k]
        BY <1>a, <2>5, <2>8
      <3>5. \A k \in Names : \/ MeaningDefault'[scope_depth + 1][k] = MeaningDefault[scope_depth + 1][k]
                             \/ MeaningDefault'[scope_depth + 1][k] = Uncertain
        BY <1>a, <2>5
      <3> HIDE DEF S, names
      <3>6. QED BY <1>1, <2>2, <3>1, <3>3, <3>4, <3>5, Shape, PlainEntries, DoubtedLocallySound
                DEF MeaningsAreTrue
    <2>9. QED BY <2>7, <2>8
  <1>8. ASSUME NEW names \in SUBSET Names, invalidate_meanings(names)
        PROVE  MeaningsAreTrue'
    <2>1. /\ meanings' = ObservedNames(meanings, names)
          /\ trueMeanings' \in UnknownGlobally(trueMeanings, names, Meanings)
          /\ snapshots' = snapshots /\ barrier' = barrier
      BY <1>8 DEF invalidate_meanings, ObservedNames, UnknownWrites
    <2>2. \A i \in 1..(scope_depth + 1), k \in Names : MeaningDefault'[i][k] = MeaningDefault[i][k]
      BY <1>2, <2>1, SameDefaults
    <2>3. /\ meanings \in Stores(Names, Meanings) /\ meanings' \in Stores(Names, Meanings)
          /\ Depth(meanings') = scope_depth
          /\ \A j \in 1..(scope_depth + 1), k \in Names :
                /\ k \notin names => EntryAt(meanings', j)[k] = EntryAt(meanings, j)[k]
                /\ k \in names => EntryAt(meanings', j)[k] \in {Uncertain, NotSaved}
      BY <2>1, Shape, ObservedNamesEntries
    <2>4. \A i \in 1..(scope_depth + 1), k \in Names \ names : trueMeanings'[i][k] = trueMeanings[i][k]
      BY <2>1, Shape, UnknownGloballyConfined
    <2>5. ASSUME NEW k \in Names PROVE SoundAt(meanings', trueMeanings', MeaningDefault', k)
      <3>1. CASE k \notin names
        <4>1. SoundAt(meanings, trueMeanings, MeaningDefault, k)
          BY <1>1, <2>3, SoundByKey
        <4>2. QED BY <1>a, <2>2, <2>3, <2>4, <3>1, <4>1, UntouchedKeySound
      <3>2. CASE k \in names
        BY <2>3, <3>2, DoubtfulKeySound
      <3>3. QED BY <3>1, <3>2
    <2>6. QED BY <2>3, <2>5, SoundByKey DEF MeaningsAreTrue
  <1>9. CASE invalidate_observed_meanings
    <2>1. /\ meanings' = ObservedMeanings(meanings) /\ trueMeanings' \in BoundedWrites
          /\ snapshots' = snapshots /\ barrier' = barrier
      BY <1>9 DEF invalidate_observed_meanings, DoubtObserved, ObservedMeanings, Marked
    <2>2. \A i \in 1..(scope_depth + 1), k \in Names : MeaningDefault'[i][k] = MeaningDefault[i][k]
      BY <1>2, <2>1, SameDefaults
    <2>3. /\ meanings \in Stores(Names, Meanings) /\ meanings' \in Stores(Names, Meanings)
          /\ Depth(meanings') = scope_depth
          /\ \A j \in 1..(scope_depth + 1), k \in Names :
                EntryAt(meanings', j)[k] = Marked(EntryAt(meanings, j)[k])
      BY <2>1, Shape, ObservedMeaningsEntries
    <2>4. \A i \in 1..(scope_depth + 1), k \in Names :
             trueMeanings[i][k] \notin Observed => trueMeanings'[i][k] = trueMeanings[i][k]
      BY <2>1, Shape DEF BoundedWrites
    <2>5. ASSUME NEW k \in Names, NEW i \in 1..(scope_depth + 1), NEW j \in i..(scope_depth + 1),
                 Supplies(meanings', k, i, j)
          PROVE  Honest(EntryAt(meanings', j)[k], MeaningDefault'[i][k], trueMeanings'[i][k])
      <3>1. /\ j \in 1..(scope_depth + 1)
            /\ \A l \in i..(j - 1) : l \in 1..(scope_depth + 1)
        BY <1>a, <2>5
      <3>2. NotSaved \notin Observed /\ Absent \notin Observed /\ Uncertain # NotSaved /\ Fallback \notin Observed
        BY ContextAssumption, SentinelsDiffer DEF Plain
      <3>3. Supplies(meanings, k, i, j)
        <4>1. EntryAt(meanings, j)[k] # NotSaved
          BY <2>3, <2>5, <3>1, <3>2 DEF Supplies, Marked
        <4>2. \A l \in i..(j - 1) : EntryAt(meanings, l)[k] = NotSaved
          BY <2>3, <2>5, <3>1, <3>2 DEF Supplies, Marked
        <4>3. QED BY <4>1, <4>2 DEF Supplies
      <3>4. Honest(EntryAt(meanings, j)[k], MeaningDefault[i][k], trueMeanings[i][k])
        BY <1>1, <1>a, <3>1, <3>3, Shape DEF Sound
      <3>5. CASE EntryAt(meanings, j)[k] \in Observed
        <4>1. EntryAt(meanings', j)[k] = Uncertain
          BY <2>3, <3>1, <3>5 DEF Marked
        <4>2. QED BY <4>1, UncertainIsHonest
      <3>6. CASE EntryAt(meanings, j)[k] \notin Observed
        <4>1. EntryAt(meanings', j)[k] = EntryAt(meanings, j)[k]
          BY <2>3, <3>1, <3>6 DEF Marked
        <4>2. MeaningDefault'[i][k] = MeaningDefault[i][k] /\ MeaningDefault[i][k] \in {Uncertain, Fallback}
          BY <1>3, <2>2
        <4>3. trueMeanings[i][k] \notin Observed => trueMeanings'[i][k] = trueMeanings[i][k]
          BY <2>4
        <4>4. QED BY <3>2, <3>4, <3>6, <4>1, <4>2, <4>3 DEF Honest, Reading
      <3>7. QED BY <3>5, <3>6
    <2>6. \A k \in Names : SoundAt(meanings', trueMeanings', MeaningDefault', k)
      BY <2>3, <2>5 DEF SoundAt
    <2>7. QED BY <2>3, <2>6, SoundByKey DEF MeaningsAreTrue
  <1>10. CASE UNCHANGED <<meanings, trueMeanings, barrier, snapshots>>
    <2>1. \A i \in 1..(scope_depth + 1) : BarrierAt(i)' = BarrierAt(i)
      BY <1>10 DEF BarrierAt, scope_depth
    <2>2. MeaningDefault' = MeaningDefault
      BY <1>10, <2>1 DEF MeaningDefault, scope_depth
    <2>3. QED BY <1>1, <1>10, <2>2 DEF MeaningsAreTrue
  <1>11. ASSUME NEW c \in Characters, NEW category \in Categories, NEW global \in BOOLEAN,
                assign_catcode(c, category, global)
         PROVE  MeaningsAreTrue'
    <2>1. AssignmentGlobal(global) \in BOOLEAN
      BY DEF AssignmentGlobal, ScopeOf
    <2>2. /\ scope_depth' = scope_depth /\ barrier' = barrier
          /\ \A i \in 1..scope_depth : snapshots'[i].barrier = snapshots[i].barrier
          /\ meanings' = meanings /\ trueMeanings' = trueMeanings
      BY <1>11, <2>1, CatcodeSnapshots DEF assign_catcode, scope_depth
    <2>3. \A i \in 1..(scope_depth + 1) : BarrierAt(i)' = BarrierAt(i)
      BY <1>a, <2>2 DEF BarrierAt
    <2>4. MeaningDefault' = MeaningDefault
      BY <2>2, <2>3 DEF MeaningDefault
    <2>5. QED BY <1>1, <2>2, <2>4 DEF MeaningsAreTrue
  <1>12. QED
    BY <1>4, <1>5, <1>6, <1>7, <1>8, <1>9, <1>10, <1>11 DEF Next, vars, assign_integer

-----------------------------------------------------------------------------
LEMMA EverTrue == Spec => [](Typed /\ Truthful)
PROOF
  <1>1. Init => Typed /\ Truthful
    BY InitType, InitTrue DEF Typed
  <1>2. Typed /\ Truthful /\ [Next]_vars => (Typed /\ Truthful)'
    <2>1. SUFFICES ASSUME TypeOK, ScopesAligned, Truthful, [Next]_vars PROVE Typed' /\ Truthful'
      BY DEF Typed
    <2>2. Typed'
      BY <2>1, NextType DEF Typed
    <2>3. MeaningsAreTrue' /\ ParametersAreTrue' /\ CategoriesAreTrue'
      BY <2>1, NextMeanings, NextParameters, NextCategories
    <2>4. QED BY <2>2, <2>3 DEF Truthful, ScopesAreTrue
  <1>3. QED BY <1>1, <1>2, PTL DEF Spec

(* A meaning the reader still reports as established is TeX's, now and      *)
(* after any group end, whatever definitions of unknown scope, retained     *)
(* source and namespace barriers came before (reading/context.py:           *)
(* lookup_meaning, record_meaning and the invalidations).                   *)
THEOREM MeaningsStayTrue == Spec => []MeaningsAreTrue
PROOF
  <1>1. Typed /\ Truthful => MeaningsAreTrue
    BY DEF Truthful
  <1>2. QED BY <1>1, EverTrue, PTL

(* So are \globaldefs, which scopes every assignment, and the category      *)
(* tables of all open groups.                                               *)
THEOREM ScopesStayTrue == Spec => []ScopesAreTrue
PROOF
  <1>1. Typed /\ Truthful => ScopesAreTrue
    BY DEF Truthful
  <1>2. QED BY <1>1, EverTrue, PTL

===============================================================================
