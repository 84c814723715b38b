---------------------------- MODULE PackagesProofs ----------------------------
(***************************************************************************)
(* What a session answers about packages is proved for any packages,       *)
(* options, groups and number of steps, with load markers set, let and     *)
(* retained in any group.                                                  *)
(*                                                                         *)
(* The invariant speaks of each marker by itself, at every level: the      *)
(* entry a number of group ends will bring back is honest, except for a    *)
(* missed name.  An answer that a package is not loaded makes TeX load it  *)
(* and the program record it globally; one that cannot be given leaves a   *)
(* marker whose entries are all in doubt, or a missed one.  A package that *)
(* is retained whole takes its caller's markers back: the handoff it saved *)
(* has the depth of the group it was entered in.                           *)
(***************************************************************************)
EXTENDS Packages, SaveJournalProofs, TLAPS

Claims == MarkerMeanings \cup {Nothing}

Typed(st, truth) ==
  /\ st \in Stores(Sources, Claims)
  /\ truth \in TruthTables(Sources, Claims) /\ Len(truth) = Depth(st) + 1

(* An absent marker reads as d at every level. *)
Defaults(n, d) == [i \in 1..n |-> [k \in Sources |-> d]]

(* What is claimed of every marker but those of S is true at every level. *)
Honestly(st, truth, d, S) ==
  \A n \in Sources \ S : SoundAt(st, truth, Defaults(Depth(st) + 1, d), n)

(***************************************************************************)
(* Markers.                                                                *)
(***************************************************************************)
LEMMA TypedShape ==
  ASSUME NEW st, NEW truth, Typed(st, truth)
  PROVE  /\ KeysOf(st) = Sources /\ Depth(st) \in Nat /\ Len(truth) = Depth(st) + 1
         /\ st \in Stores(Sources, Claims) /\ truth \in TruthTables(Sources, Claims)
         /\ DOMAIN truth = 1..(Depth(st) + 1)
         /\ \A i \in 1..(Depth(st) + 1) : truth[i] \in [Sources -> Claims]
BY StoreShape DEF Typed, TruthTables

LEMMA ClaimsArePlain ==
  ASSUME MeaningsArePlain
  PROVE  Plain(Claims) /\ NotSaved \notin Entries(Claims) /\ Uncertain # Nothing
BY SentinelsDiffer DEF MeaningsArePlain, Plain, Entries, Claims

LEMMA DefaultsAre ==
  ASSUME NEW n, NEW d
  PROVE  \A i \in 1..n, k \in Sources : Defaults(n, d)[i][k] = d
BY DEF Defaults

LEMMA PushKept ==
  ASSUME MeaningsArePlain, NEW st, NEW truth, Typed(st, truth), NEW d, NEW S, Honestly(st, truth, d, S)
  PROVE  /\ Typed(Pushed(st), TruePush(truth)) /\ Honestly(Pushed(st), TruePush(truth), d, S)
         /\ Depth(Pushed(st)) = Depth(st) + 1
<1>1. /\ Depth(st) \in Nat /\ Len(truth) = Depth(st) + 1
      /\ st \in Stores(Sources, Claims) /\ truth \in TruthTables(Sources, Claims)
  BY TypedShape
<1>2. Pushed(st) \in Stores(Sources, Claims) /\ Depth(Pushed(st)) = Depth(st) + 1
  BY <1>1, PushedType
<1>3. TruePush(truth) \in TruthTables(Sources, Claims) /\ Len(TruePush(truth)) = Depth(st) + 2
  BY <1>1 DEF TruePush, TruthTables
<1>4. /\ \A i \in 1..(Depth(st) + 1), k \in Sources :
            Defaults(Depth(st) + 2, d)[i][k] = Defaults(Depth(st) + 1, d)[i][k]
      /\ \A k \in Sources : Defaults(Depth(st) + 2, d)[Depth(st) + 2][k] = Defaults(Depth(st) + 1, d)[Depth(st) + 1][k]
  BY <1>1 DEF Defaults
<1>5. \A k \in Sources \ S : SoundAt(Pushed(st), TruePush(truth), Defaults(Depth(st) + 2, d), k)
  BY <1>1, <1>4, ClaimsArePlain, PushedKeySound DEF Honestly
<1>6. Depth(Pushed(st)) + 1 = Depth(st) + 2
  BY <1>1, <1>2
<1> QED
  BY <1>2, <1>3, <1>5, <1>6 DEF Typed, Honestly

LEMMA PopKept ==
  ASSUME MeaningsArePlain, NEW st, NEW truth, Typed(st, truth), Depth(st) > 0,
         NEW d, NEW S, Honestly(st, truth, d, S)
  PROVE  /\ Typed(Popped(st), TruePop(truth)) /\ Honestly(Popped(st), TruePop(truth), d, S)
         /\ Depth(Popped(st)) = Depth(st) - 1
<1>1. /\ Depth(st) \in Nat /\ Len(truth) = Depth(st) + 1
      /\ st \in Stores(Sources, Claims) /\ truth \in TruthTables(Sources, Claims)
  BY TypedShape
<1>2. Popped(st) \in Stores(Sources, Claims) /\ Depth(Popped(st)) = Depth(st) - 1
  BY <1>1, PoppedType
<1>3. TruePop(truth) \in TruthTables(Sources, Claims) /\ Len(TruePop(truth)) = Depth(st)
  BY <1>1 DEF TruePop, TruthTables
<1>4. \A i \in 1..Depth(st), k \in Sources :
         Defaults(Depth(st), d)[i][k] = Defaults(Depth(st) + 1, d)[i][k]
  BY <1>1 DEF Defaults
<1>5. \A k \in Sources \ S : SoundAt(Popped(st), TruePop(truth), Defaults(Depth(st), d), k)
  BY <1>1, <1>4, ClaimsArePlain, PoppedKeySound DEF Honestly
<1>6. Depth(Popped(st)) + 1 = Depth(st)
  BY <1>1, <1>2
<1> QED
  BY <1>2, <1>3, <1>5, <1>6 DEF Typed, Honestly

(* What is claimed of the levels is claimed of the innermost one. *)
LEMMA LastIndex ==
  ASSUME NEW n \in Nat
  PROVE  n + 1 \in 1..(n + 1)
OBVIOUS

LEMMA NoneBetween ==
  ASSUME NEW n \in Nat
  PROVE  n + 1 \in (n + 1)..(n + 1) /\ \A m \in (n + 1)..((n + 1) - 1) : FALSE
OBVIOUS

LEMMA EarlierOrLast ==
  ASSUME NEW n \in Nat, NEW j \in 1..(n + 1)
  PROVE  j \in 1..n \/ j = n + 1
OBVIOUS

LEMMA NowHonest ==
  ASSUME NEW st \in Stores(Sources, Claims), NotSaved \notin Entries(Claims), NEW k \in Sources,
         NEW truth, NEW default, SoundAt(st, truth, default, k)
  PROVE  Honest(st.values[k], default[Depth(st) + 1][k], truth[Depth(st) + 1][k])
<1>1. Depth(st) \in Nat /\ st.values[k] # NotSaved /\ EntryAt(st, Depth(st) + 1) = st.values
  BY StoreShape, EntriesOfStore
<1>2. Supplies(st, k, Depth(st) + 1, Depth(st) + 1)
  BY <1>1, NoneBetween DEF Supplies
<1> QED
  BY <1>1, <1>2, LastIndex, NoneBetween DEF SoundAt

(* A marker is given a meaning; a global one makes its claim true. *)
LEMMA AssignKept ==
  ASSUME MeaningsArePlain, NEW st, NEW truth, Typed(st, truth), NEW d, NEW S, Honestly(st, truth, d, S),
         NEW key \in Sources, NEW v \in Claims, NEW global \in BOOLEAN,
         NEW T, T = IF global THEN S \ {key} ELSE S
  PROVE  /\ Typed(Assigned(st, key, v, global), TrueAssign(truth, key, v, global))
         /\ Honestly(Assigned(st, key, v, global), TrueAssign(truth, key, v, global), d, T)
         /\ Depth(Assigned(st, key, v, global)) = Depth(st)
<1>1. /\ Depth(st) \in Nat /\ Len(truth) = Depth(st) + 1
      /\ st \in Stores(Sources, Claims) /\ truth \in TruthTables(Sources, Claims)
  BY TypedShape
<1>2. /\ Assigned(st, key, v, global) \in Stores(Sources, Claims)
      /\ Depth(Assigned(st, key, v, global)) = Depth(st)
  BY <1>1, AssignedType
<1>3. /\ TrueAssign(truth, key, v, global) \in TruthTables(Sources, Claims)
      /\ Len(TrueAssign(truth, key, v, global)) = Len(truth)
  BY <1>1, TrueAssignType
<1>4. PICK default : default = Defaults(Depth(st) + 1, d)
  OBVIOUS
<1>5. ASSUME NEW k \in Sources \ T
      PROVE  SoundAt(Assigned(st, key, v, global), TrueAssign(truth, key, v, global), default, k)
  <2>1. SoundAt(st, truth, default, k) \/ (k = key /\ global)
    BY <1>4 DEF Honestly
  <2> QED
    BY <1>1, <2>1, ClaimsArePlain, AssignedKeySound
<1> QED
  BY <1>1, <1>2, <1>3, <1>4, <1>5 DEF Typed, Honestly

-----------------------------------------------------------------------------
(* What retained source can do to the markers, and what is claimed of them *)
(* afterwards.                                                             *)
LEMMA MarkTyped ==
  ASSUME NEW st, NEW truth, Typed(st, truth), NEW visible \in SUBSET Sources,
         NEW t \in Hidden(truth, visible)
  PROVE  /\ Typed(MarkEstablished(st, Sources), t)
         /\ Depth(MarkEstablished(st, Sources)) = Depth(st)
<1>1. MarkEstablished(st, Sources) \in Stores(Sources, Claims) /\ Depth(MarkEstablished(st, Sources)) = Depth(st)
  BY MarkedEntries DEF Typed
<1>2. t \in TruthTables(Sources, Claims) /\ Len(t) = Len(truth)
  <2>1. PICK n \in Sources : t \in UnknownGlobally(truth, {n}, Claims)
    BY DEF Hidden, Claims
  <2> QED
    BY <2>1, UnknownGloballyConfined DEF Typed
<1> QED
  BY <1>1, <1>2 DEF Typed

(* In doubt about everything absent, nothing is claimed. *)
LEMMA DoubtedClaims ==
  ASSUME NEW st \in Stores(Sources, Claims), NEW t
  PROVE  Honestly(MarkEstablished(st, Sources), t, Uncertain, {})
<1>1. /\ MarkEstablished(st, Sources) \in Stores(Sources, Claims)
      /\ Depth(MarkEstablished(st, Sources)) = Depth(st)
      /\ \A j \in 1..(Depth(st) + 1), k \in Sources :
            EntryAt(MarkEstablished(st, Sources), j)[k] \in {Uncertain, NotSaved, Absent}
  BY MarkedEntries
<1>2. PICK default : default = Defaults(Depth(st) + 1, Uncertain)
  OBVIOUS
<1>3. \A i \in 1..(Depth(st) + 1), k \in Sources : default[i][k] = Uncertain
  BY <1>2, DefaultsAre
<1>4. PICK st2 : st2 = MarkEstablished(st, Sources)
  OBVIOUS
<1>5. \A k \in Sources : SoundAt(st2, t, default, k)
  BY <1>1, <1>3, <1>4, DoubtfulKeySound
<1> QED
  BY <1>1, <1>2, <1>4, <1>5 DEF Honestly

(* A marker every journal has in doubt, or none has. *)
LEMMA NothingAbsent ==
  ASSUME NEW st \in Stores(Sources, Claims), NEW t, NEW d, NEW k \in Sources,
         \A j \in 1..(Depth(st) + 1) : EntryAt(st, j)[k] # Absent
  PROVE  SoundAt(MarkEstablished(st, Sources), t, Defaults(Depth(st) + 1, d), k)
<1>1. PICK st2 : st2 = MarkEstablished(st, Sources)
  OBVIOUS
<1>2. /\ st2 \in Stores(Sources, Claims) /\ Depth(st2) = Depth(st)
      /\ \A j \in 1..(Depth(st) + 1) : EntryAt(st2, j)[k] \in {Uncertain, NotSaved}
  BY <1>1, MarkedEntries
<1> QED
  BY <1>1, <1>2, DoubtfulKeySound

(* Where nothing is visible, what was absent and not in doubt is not loaded. *)
LEMMA UnseenKey ==
  ASSUME NEW st \in Stores(Sources, Claims), NEW truth, NEW t, NEW d, NEW default, NEW k \in Sources,
         d \in {Nothing, Uncertain}, \A i \in 1..(Depth(st) + 1) : default[i][k] = d,
         \A i \in 1..(Depth(st) + 1) : truth[i][k] = Nothing => t[i][k] = Nothing,
         Uncertain # Nothing, SoundAt(st, truth, default, k)
  PROVE  SoundAt(MarkEstablished(st, Sources), t, default, k)
<1>1. PICK st2 : st2 = MarkEstablished(st, Sources)
  OBVIOUS
<1>2. /\ st2 \in Stores(Sources, Claims) /\ Depth(st2) = Depth(st) /\ Depth(st) \in Nat
      /\ \A j \in 1..(Depth(st) + 1) : EntryAt(st2, j)[k] =
            IF EntryAt(st, j)[k] \notin {Absent, NotSaved} THEN Uncertain ELSE EntryAt(st, j)[k]
  BY <1>1, MarkedEntries, StoreShape
<1>3. SUFFICES ASSUME NEW i \in 1..(Depth(st) + 1), NEW j \in i..(Depth(st) + 1), Supplies(st2, k, i, j)
               PROVE  Honest(EntryAt(st2, j)[k], default[i][k], t[i][k])
  BY <1>1, <1>2 DEF SoundAt
<1>4. j \in 1..(Depth(st) + 1) /\ \A m \in i..(j - 1) : m \in 1..(Depth(st) + 1)
  BY <1>2
<1>5. CASE EntryAt(st, j)[k] = Absent
  <2>1. Supplies(st, k, i, j)
    BY <1>2, <1>3, <1>4, <1>5, SentinelsDiffer DEF Supplies
  <2>2. Honest(Absent, d, truth[i][k]) /\ EntryAt(st2, j)[k] = Absent
    BY <1>2, <1>4, <1>5, <2>1 DEF SoundAt
  <2> QED
    BY <2>2 DEF Honest, Reading
<1>6. CASE EntryAt(st, j)[k] # Absent
  <2>1. EntryAt(st2, j)[k] = Uncertain
    BY <1>2, <1>3, <1>4, <1>6 DEF Supplies
  <2> QED
    BY <2>1, UncertainIsHonest
<1> QED
  BY <1>5, <1>6

LEMMA UnseenClaims ==
  ASSUME MeaningsArePlain, NEW st, NEW truth, Typed(st, truth), NEW d \in {Nothing, Uncertain}, NEW S,
         Honestly(st, truth, d, S), NEW t \in Hidden(truth, {})
  PROVE  Honestly(MarkEstablished(st, Sources), t, d, S)
<1>1. st \in Stores(Sources, Claims) /\ Uncertain # Nothing
      /\ Depth(MarkEstablished(st, Sources)) = Depth(st)
  BY MarkTyped, ClaimsArePlain DEF Typed
<1>2. \A i \in 1..(Depth(st) + 1), n \in Sources : truth[i][n] = Nothing => t[i][n] = Nothing
  BY TypedShape DEF Hidden
<1>3. PICK default : default = Defaults(Depth(st) + 1, d)
  OBVIOUS
<1>4. \A i \in 1..(Depth(st) + 1), k \in Sources : default[i][k] = d
  BY <1>3, DefaultsAre
<1>5. ASSUME NEW k \in Sources \ S
      PROVE  SoundAt(MarkEstablished(st, Sources), t, default, k)
  <2>1. SoundAt(st, truth, default, k)
    BY <1>3 DEF Honestly
  <2> QED
    BY <1>1, <1>2, <1>4, <2>1, UnseenKey
<1> QED
  BY <1>1, <1>3, <1>5 DEF Honestly

(* Loading a package leaves the other markers alone. *)
LEMMA LoadKept ==
  ASSUME NEW st, NEW truth, Typed(st, truth), NEW n \in Sources, NEW global \in BOOLEAN
  PROVE  /\ Typed(st, TrueAssign(truth, n, "loaded", global))
         /\ \A i \in 1..(Depth(st) + 1), k \in Sources \ {n} :
               TrueAssign(truth, n, "loaded", global)[i][k] = truth[i][k]
<1>1. "loaded" \in Claims /\ truth \in TruthTables(Sources, Claims)
  BY DEF Claims, MarkerMeanings, Typed
<1>2. /\ TrueAssign(truth, n, "loaded", global) \in TruthTables(Sources, Claims)
      /\ Len(TrueAssign(truth, n, "loaded", global)) = Len(truth)
  BY <1>1, TrueAssignType
<1>3. \A i \in 1..(Depth(st) + 1), k \in Sources \ {n} :
         TrueAssign(truth, n, "loaded", global)[i][k] = truth[i][k]
  BY TypedShape DEF TrueAssign
<1> QED
  BY <1>2, <1>3 DEF Typed

(***************************************************************************)
(* Frames.                                                                 *)
(***************************************************************************)
IsFrame(f) ==
  f = [name |-> f.name, items |-> f.items, globals |-> f.globals, depth |-> f.depth, queue |-> f.queue,
       scope |-> f.scope, uncertain |-> f.uncertain, real |-> f.real, ran |-> f.ran, saved |-> f.saved]

Requests == [name : Sources, options : OptionLists]

(* An open input: its requests, the depth it was entered at, and options    *)
(* that are TeX's unless they are in doubt.                                *)
FrameOK(f) ==
  /\ IsFrame(f)
  /\ f.queue \in Seq(Requests) /\ f.depth \in Nat /\ f.uncertain \in BOOLEAN
  /\ f.uncertain = FALSE => f.scope = f.real

(* The markers of the handoff are those of the depth it happened at. *)
HandoffOK(f) ==
  LET st == f.saved[1].markers
  IN  st \in Stores(Sources, Claims) /\ Depth(st) = f.depth

(* What a step changes of a frame, and what it leaves. *)
Stays(f, g) == g.name = f.name /\ g.depth = f.depth /\ g.saved = f.saved

LEMMA FrameLiteral ==
  ASSUME NEW a, NEW b, NEW c, NEW d, NEW e, NEW h, NEW i, NEW j, NEW k, NEW l, NEW g,
         g = [name |-> a, items |-> b, globals |-> c, depth |-> d, queue |-> e,
              scope |-> h, uncertain |-> i, real |-> j, ran |-> k, saved |-> l]
  PROVE  /\ g.name = a /\ g.items = b /\ g.globals = c /\ g.depth = d /\ g.queue = e
         /\ g.scope = h /\ g.uncertain = i /\ g.real = j /\ g.ran = k /\ g.saved = l
         /\ IsFrame(g)
BY DEF IsFrame

LEMMA FrameFields ==
  ASSUME NEW f, IsFrame(f)
  PROVE  \E a, b, c, d, e, h, i, j, k, l :
           f = [name |-> a, items |-> b, globals |-> c, depth |-> d, queue |-> e,
                scope |-> h, uncertain |-> i, real |-> j, ran |-> k, saved |-> l]
BY Zenon DEF IsFrame

LEMMA QueueChanges ==
  ASSUME NEW f, IsFrame(f), NEW v, NEW g, g = [f EXCEPT !.queue = v]
  PROVE  /\ IsFrame(g) /\ Stays(f, g)
         /\ g.queue = v /\ g.scope = f.scope /\ g.uncertain = f.uncertain /\ g.real = f.real
<1>1. PICK a, b, c, d, e, h, i, j, k, l :
         f = [name |-> a, items |-> b, globals |-> c, depth |-> d, queue |-> e,
              scope |-> h, uncertain |-> i, real |-> j, ran |-> k, saved |-> l]
  BY FrameFields
<1>2. /\ f.name = a /\ f.depth = d /\ f.queue = e /\ f.scope = h /\ f.uncertain = i
      /\ f.real = j /\ f.saved = l
  BY <1>1, FrameLiteral
<1>3. g = [name |-> a, items |-> b, globals |-> c, depth |-> d, queue |-> v,
              scope |-> h, uncertain |-> i, real |-> j, ran |-> k, saved |-> l]
  BY <1>1
<1>4. /\ IsFrame(g) /\ g.name = a /\ g.depth = d /\ g.queue = v /\ g.scope = h /\ g.uncertain = i
      /\ g.real = j /\ g.saved = l
  BY ONLY <1>3, FrameLiteral
<1> QED
  BY ONLY <1>2, <1>4 DEF Stays

LEMMA ScopeChanges ==
  ASSUME NEW f, IsFrame(f), NEW v, NEW g, g = [f EXCEPT !.scope = v]
  PROVE  /\ IsFrame(g) /\ Stays(f, g)
         /\ g.queue = f.queue /\ g.scope = v /\ g.uncertain = f.uncertain /\ g.real = f.real
<1>1. PICK a, b, c, d, e, h, i, j, k, l :
         f = [name |-> a, items |-> b, globals |-> c, depth |-> d, queue |-> e,
              scope |-> h, uncertain |-> i, real |-> j, ran |-> k, saved |-> l]
  BY FrameFields
<1>2. /\ f.name = a /\ f.depth = d /\ f.queue = e /\ f.scope = h /\ f.uncertain = i
      /\ f.real = j /\ f.saved = l
  BY <1>1, FrameLiteral
<1>3. g = [name |-> a, items |-> b, globals |-> c, depth |-> d, queue |-> e,
              scope |-> v, uncertain |-> i, real |-> j, ran |-> k, saved |-> l]
  BY <1>1
<1>4. /\ IsFrame(g) /\ g.name = a /\ g.depth = d /\ g.queue = e /\ g.scope = v /\ g.uncertain = i
      /\ g.real = j /\ g.saved = l
  BY ONLY <1>3, FrameLiteral
<1> QED
  BY ONLY <1>2, <1>4 DEF Stays

LEMMA UncertainChanges ==
  ASSUME NEW f, IsFrame(f), NEW v, NEW g, g = [f EXCEPT !.uncertain = v]
  PROVE  /\ IsFrame(g) /\ Stays(f, g)
         /\ g.queue = f.queue /\ g.scope = f.scope /\ g.uncertain = v /\ g.real = f.real
<1>1. PICK a, b, c, d, e, h, i, j, k, l :
         f = [name |-> a, items |-> b, globals |-> c, depth |-> d, queue |-> e,
              scope |-> h, uncertain |-> i, real |-> j, ran |-> k, saved |-> l]
  BY FrameFields
<1>2. /\ f.name = a /\ f.depth = d /\ f.queue = e /\ f.scope = h /\ f.uncertain = i
      /\ f.real = j /\ f.saved = l
  BY <1>1, FrameLiteral
<1>3. g = [name |-> a, items |-> b, globals |-> c, depth |-> d, queue |-> e,
              scope |-> h, uncertain |-> v, real |-> j, ran |-> k, saved |-> l]
  BY <1>1
<1>4. /\ IsFrame(g) /\ g.name = a /\ g.depth = d /\ g.queue = e /\ g.scope = h /\ g.uncertain = v
      /\ g.real = j /\ g.saved = l
  BY ONLY <1>3, FrameLiteral
<1> QED
  BY ONLY <1>2, <1>4 DEF Stays

LEMMA RealChanges ==
  ASSUME NEW f, IsFrame(f), NEW v, NEW g, g = [f EXCEPT !.real = v]
  PROVE  /\ IsFrame(g) /\ Stays(f, g)
         /\ g.queue = f.queue /\ g.scope = f.scope /\ g.uncertain = f.uncertain /\ g.real = v
<1>1. PICK a, b, c, d, e, h, i, j, k, l :
         f = [name |-> a, items |-> b, globals |-> c, depth |-> d, queue |-> e,
              scope |-> h, uncertain |-> i, real |-> j, ran |-> k, saved |-> l]
  BY FrameFields
<1>2. /\ f.name = a /\ f.depth = d /\ f.queue = e /\ f.scope = h /\ f.uncertain = i
      /\ f.real = j /\ f.saved = l
  BY <1>1, FrameLiteral
<1>3. g = [name |-> a, items |-> b, globals |-> c, depth |-> d, queue |-> e,
              scope |-> h, uncertain |-> i, real |-> v, ran |-> k, saved |-> l]
  BY <1>1
<1>4. /\ IsFrame(g) /\ g.name = a /\ g.depth = d /\ g.queue = e /\ g.scope = h /\ g.uncertain = i
      /\ g.real = v /\ g.saved = l
  BY ONLY <1>3, FrameLiteral
<1> QED
  BY ONLY <1>2, <1>4 DEF Stays

LEMMA RanChanges ==
  ASSUME NEW f, IsFrame(f), NEW v, NEW g, g = [f EXCEPT !.ran = v]
  PROVE  /\ IsFrame(g) /\ Stays(f, g)
         /\ g.queue = f.queue /\ g.scope = f.scope /\ g.uncertain = f.uncertain /\ g.real = f.real
<1>1. PICK a, b, c, d, e, h, i, j, k, l :
         f = [name |-> a, items |-> b, globals |-> c, depth |-> d, queue |-> e,
              scope |-> h, uncertain |-> i, real |-> j, ran |-> k, saved |-> l]
  BY FrameFields
<1>2. /\ f.name = a /\ f.depth = d /\ f.queue = e /\ f.scope = h /\ f.uncertain = i
      /\ f.real = j /\ f.saved = l
  BY <1>1, FrameLiteral
<1>3. g = [name |-> a, items |-> b, globals |-> c, depth |-> d, queue |-> e,
              scope |-> h, uncertain |-> i, real |-> j, ran |-> v, saved |-> l]
  BY <1>1
<1>4. /\ IsFrame(g) /\ g.name = a /\ g.depth = d /\ g.queue = e /\ g.scope = h /\ g.uncertain = i
      /\ g.real = j /\ g.saved = l
  BY ONLY <1>3, FrameLiteral
<1> QED
  BY ONLY <1>2, <1>4 DEF Stays

(* fs is a sequence, of whatever its elements are. *)
Listed(fs) == fs \in Seq({ fs[i] : i \in 1..Len(fs) }) /\ Len(fs) \in Nat

FramesOK(fs, d) ==
  /\ Listed(fs) /\ Len(fs) > 0
  /\ \A i \in 1..Len(fs) : FrameOK(fs[i])
  /\ \A i \in 2..Len(fs) : HandoffOK(fs[i])
  /\ \A i, j \in 1..Len(fs) : i <= j => fs[i].depth <= fs[j].depth
  /\ fs[Len(fs)].depth <= d

LEMMA ListedIf ==
  ASSUME NEW n \in Nat, NEW f, f = [i \in 1..n |-> f[i]]
  PROVE  Listed(f) /\ Len(f) = n
<1>1. f \in [1..n -> { f[i] : i \in 1..n }]
  OBVIOUS
<1>2. f \in Seq({ f[i] : i \in 1..n }) /\ Len(f) = n
  BY <1>1, FunctionIsSeq
<1> QED
  BY <1>2 DEF Listed

LEMMA SequenceIsListed ==
  ASSUME NEW S, NEW f \in Seq(S)
  PROVE  Listed(f)
<1>1. Len(f) \in Nat /\ f = [i \in 1..Len(f) |-> f[i]]
  OBVIOUS
<1> QED
  BY <1>1, ListedIf

(* One frame changes, and keeps its place. *)
LEMMA FrameChanges ==
  ASSUME NEW fs, NEW d, FramesOK(fs, d), NEW k \in 1..Len(fs), NEW g,
         FrameOK(g), g.depth = fs[k].depth, g.saved = fs[k].saved
  PROVE  FramesOK([fs EXCEPT ![k] = g], d) /\ Len([fs EXCEPT ![k] = g]) = Len(fs)
<1> DEFINE fs2 == [fs EXCEPT ![k] = g]
<1>1. Len(fs) \in Nat /\ DOMAIN fs = 1..Len(fs)
  BY DEF FramesOK, Listed
<1>2. fs2 = [i \in 1..Len(fs) |-> fs2[i]]
  BY <1>1
<1>3. Listed(fs2) /\ Len(fs2) = Len(fs)
  BY <1>1, <1>2, ListedIf
<1>4. \A i \in 1..Len(fs) : fs2[i] = IF i = k THEN g ELSE fs[i]
  BY <1>1
<1>5. \A i \in 1..Len(fs) : fs2[i].depth = fs[i].depth /\ fs2[i].saved = fs[i].saved
  BY <1>4
<1>6. \A i \in 1..Len(fs) : HandoffOK(fs2[i]) <=> HandoffOK(fs[i])
  BY <1>5 DEF HandoffOK
<1> HIDE DEF fs2
<1>7. \A i \in 1..Len(fs) : FrameOK(fs2[i])
  BY <1>4 DEF FramesOK
<1>8. \A i \in 2..Len(fs) : HandoffOK(fs2[i])
  <2>1. \A i \in 2..Len(fs) : i \in 1..Len(fs)
    BY <1>1
  <2> QED
    BY <1>6, <2>1 DEF FramesOK
<1>9. Len(fs) \in 1..Len(fs)
  BY <1>1 DEF FramesOK
<1>10. fs2[Len(fs)].depth <= d /\ \A i, j \in 1..Len(fs) : i <= j => fs2[i].depth <= fs2[j].depth
  BY <1>5, <1>9 DEF FramesOK
<1>11. Len(fs) > 0
  BY DEF FramesOK
<1>12. FramesOK(fs2, d)
  BY <1>3, <1>7, <1>8, <1>10, <1>11 DEF FramesOK
<1> QED
  BY <1>3, <1>12 DEF fs2

LEMMA FramesDeeper ==
  ASSUME NEW fs, NEW d, FramesOK(fs, d), NEW e, fs[Len(fs)].depth <= e
  PROVE  FramesOK(fs, e)
BY DEF FramesOK

LEMMA TopIs ==
  ASSUME NEW d, FramesOK(frames, d)
  PROVE  /\ Len(frames) \in 1..Len(frames) /\ Innermost = frames[Len(frames)] /\ FrameOK(Innermost)
         /\ DOMAIN frames = 1..Len(frames) /\ Len(frames) \in Nat
BY DEF FramesOK, Listed, Innermost, Last

LEMMA FrameLeaves ==
  ASSUME NEW fs, NEW d \in Nat, FramesOK(fs, d), Len(fs) > 1
  PROVE  /\ FramesOK(Front(fs), fs[Len(fs)].depth) /\ FramesOK(Front(fs), d)
         /\ HandoffOK(fs[Len(fs)]) /\ fs[Len(fs)].depth \in Nat
<1> DEFINE m == Len(fs) - 1
           front == Front(fs)
<1>1. Len(fs) \in Nat /\ m \in Nat /\ m > 0
  BY DEF FramesOK, Listed
<1>2. Len(front) = m /\ front = [i \in 1..m |-> fs[i]]
  BY <1>1 DEF Front, FramesOK, Listed
<1>3. Listed(front) /\ \A i \in 1..m : front[i] = fs[i]
  BY <1>1, <1>2, ListedIf
<1>4. \A i \in 1..m : i \in 1..Len(fs)
  BY <1>1
<1>5. \A i, j \in 1..Len(fs) : i <= j => fs[i].depth <= fs[j].depth
  BY DEF FramesOK
<1>6. m \in 1..Len(fs) /\ Len(fs) \in 1..Len(fs) /\ m <= Len(fs) /\ Len(fs) \in 2..Len(fs)
  BY <1>1
<1>7. fs[m].depth <= fs[Len(fs)].depth /\ fs[Len(fs)].depth <= d
      /\ fs[m].depth \in Nat /\ fs[Len(fs)].depth \in Nat /\ front[m] = fs[m]
  BY <1>1, <1>3, <1>5, <1>6 DEF FramesOK, FrameOK
<1> HIDE DEF front
<1>8. \A e : front[m].depth <= e => FramesOK(front, e)
  <2>1. \A i \in 1..m : FrameOK(front[i])
    BY <1>3, <1>4 DEF FramesOK
  <2>2. \A i \in 2..m : HandoffOK(front[i])
    <3>1. \A i \in 2..m : i \in 2..Len(fs) /\ i \in 1..m
      BY <1>1
    <3> QED
      BY <1>3, <3>1 DEF FramesOK
  <2>3. \A i, j \in 1..m : i <= j => front[i].depth <= front[j].depth
    BY <1>3, <1>4, <1>5
  <2>4. Len(front) = m /\ Listed(front)
    BY <1>2, <1>3
  <2> HIDE DEF m
  <2> QED
    BY <1>1, <2>1, <2>2, <2>3, <2>4 DEF FramesOK
<1>9. HandoffOK(fs[Len(fs)])
  BY <1>6 DEF FramesOK
<1>10. front[m].depth <= fs[Len(fs)].depth /\ front[m].depth <= d
  BY <1>7
<1> QED
  BY <1>7, <1>8, <1>9, <1>10 DEF front

LEMMA FrameEnters ==
  ASSUME NEW fs, NEW d \in Nat, FramesOK(fs, d), NEW g, FrameOK(g), HandoffOK(g), g.depth = d
  PROVE  FramesOK(Append(fs, g), d)
<1> DEFINE n == Len(fs)
           S == { fs[i] : i \in 1..Len(fs) } \cup {g}
           fs2 == Append(fs, g)
<1>1. n \in Nat /\ n > 0
  BY DEF FramesOK, Listed
<1>2. fs \in Seq(S) /\ g \in S
  <2>1. fs \in [1..n -> S]
    BY DEF FramesOK, Listed
  <2> QED
    BY <1>1, <2>1, FunctionIsSeq
<1> HIDE DEF S
<1>3. fs2 \in Seq(S) /\ Len(fs2) = n + 1 /\ fs2[n + 1] = g /\ \A i \in 1..n : fs2[i] = fs[i]
  BY <1>1, <1>2
<1> HIDE DEF fs2
<1>a. Listed(fs2)
  BY <1>3, SequenceIsListed
<1>4. \A i \in 1..n : fs[i].depth <= d /\ FrameOK(fs[i]) /\ fs[i].depth \in Nat
  <2>1. n \in 1..n
    BY <1>1
  <2> QED
    BY <1>1, <2>1 DEF FramesOK, FrameOK
<1>5. \A i \in 1..(n + 1) : i \in 1..n \/ i = n + 1
  BY <1>1
<1>6. \A i \in 1..(n + 1) : FrameOK(fs2[i])
  BY <1>3, <1>4, <1>5
<1>7. \A i \in 2..(n + 1) : HandoffOK(fs2[i])
  <2>1. \A i \in 2..(n + 1) : i \in 2..n \/ i = n + 1
    BY <1>1
  <2> QED
    BY <1>1, <1>3, <2>1 DEF FramesOK
<1>8. \A i, j \in 1..(n + 1) : i <= j => fs2[i].depth <= fs2[j].depth
  <2>1. SUFFICES ASSUME NEW i \in 1..(n + 1), NEW j \in 1..(n + 1), i <= j
                 PROVE  fs2[i].depth <= fs2[j].depth
    OBVIOUS
  <2>2. CASE j = n + 1
    BY <1>3, <1>4, <1>5, <2>2
  <2>3. CASE j # n + 1
    <3>1. i \in 1..n /\ j \in 1..n
      BY <1>1, <2>1, <2>3
    <3> QED
      BY <1>3, <2>1, <3>1 DEF FramesOK
  <2> QED
    BY <2>2, <2>3
<1>9. fs2[n + 1].depth <= d
  BY <1>3
<1> QED
  BY <1>1, <1>3, <1>a, <1>6, <1>7, <1>8, <1>9 DEF FramesOK, fs2

(***************************************************************************)
(* The invariant.                                                          *)
(***************************************************************************)
Kept(st, truth, d, S) == Typed(st, truth) /\ Honestly(st, truth, d, S)

Inv ==
  /\ Kept(markers, trueMarkers, Default, missed) /\ doubted \in BOOLEAN
  /\ FramesOK(frames, depth)

LEMMA Doubts ==
  ASSUME Inv
  PROVE  Default \in {Nothing, Uncertain} /\ depth \in Nat /\ Len(trueMarkers) = depth + 1
BY TypedShape DEF Inv, Kept, Default, depth

LEMMA InitKept ==
  ASSUME LoadsInit
  PROVE  Inv
<1>1. /\ markers.values = [n \in Sources |-> Absent] /\ markers.scopes = <<>>
      /\ trueMarkers = <<[n \in Sources |-> Nothing]>> /\ doubted = FALSE /\ frames = <<Document>>
      /\ markers = [values |-> [n \in Sources |-> Absent], scopes |-> <<>>]
  BY DEF LoadsInit
<1>2. markers \in Stores(Sources, Claims) /\ Depth(markers) = 0
  BY <1>1 DEF Stores, Entries, Depth
<1>3. Typed(markers, trueMarkers)
  BY <1>1, <1>2 DEF Typed, TruthTables, Claims
<1>4. Honestly(markers, trueMarkers, Default, missed)
  <2>1. SUFFICES ASSUME NEW n \in Sources, NEW i \in 1..1, NEW j \in i..1
                 PROVE  Honest(EntryAt(markers, j)[n], Defaults(1, Default)[i][n], trueMarkers[i][n])
    BY <1>2 DEF Honestly, SoundAt
  <2>2. Default = Nothing /\ i = 1 /\ j = 1
    BY <1>1 DEF Default
  <2>3. EntryAt(markers, 1)[n] = Absent /\ trueMarkers[1][n] = Nothing
    BY <1>1, <1>2 DEF EntryAt
  <2>4. Defaults(1, Nothing)[1][n] = Nothing
    BY DefaultsAre
  <2> QED
    BY <2>2, <2>3, <2>4 DEF Honest, Reading
<1>5. Listed(frames) /\ Len(frames) = 1 /\ frames[1] = Document
  <2>1. frames \in Seq({Document})
    BY <1>1
  <2> QED
    BY <1>1, <2>1, SequenceIsListed
<1>6. FrameOK(Document) /\ Document.depth = 0
  BY DEF FrameOK, IsFrame, Document, Requests
<1>7. FramesOK(frames, 0)
  BY <1>5, <1>6 DEF FramesOK
<1> QED
  BY <1>1, <1>2, <1>3, <1>4, <1>7 DEF Inv, Kept, depth

-----------------------------------------------------------------------------
(* What retained source can have done to the options of open packages is   *)
(* in doubt.                                                               *)
LEMMA ScopesDoubted ==
  ASSUME NEW fs, NEW d, FramesOK(fs, d), NEW k \in DOMAIN fs, NEW real \in Alternatives(fs[k]),
         NEW fs2, fs2 = DoubtedScopes([fs EXCEPT ![k].real = real])
  PROVE  FramesOK(fs2, d)
<1>1. Len(fs) \in Nat /\ Len(fs) > 0 /\ DOMAIN fs = 1..Len(fs) /\ \A i \in 1..Len(fs) : FrameOK(fs[i])
  BY DEF FramesOK, Listed
<1> DEFINE fs1 == [fs EXCEPT ![k].real = real]
<1>2. /\ DOMAIN fs1 = 1..Len(fs)
      /\ \A i \in 1..Len(fs) : fs1[i] = IF i = k /\ fs[i].name # Nothing THEN [fs[i] EXCEPT !.real = real] ELSE fs[i]
  <2>1. DOMAIN fs1 = 1..Len(fs)
    BY <1>1
  <2>2. \A i \in 1..Len(fs) : i # k => fs1[i] = fs[i]
    BY <1>1
  <2>3. fs1[k] = [fs[k] EXCEPT !.real = real]
    BY <1>1
  <2>4. [fs[k] EXCEPT !.real = fs[k].real] = fs[k]
    BY <1>1 DEF FrameOK, IsFrame
  <2>5. fs[k].name = Nothing => real = fs[k].real
    BY DEF Alternatives
  <2> QED
    BY <2>1, <2>2, <2>3, <2>4, <2>5
<1>3. fs2 = [i \in 1..Len(fs) |-> [fs1[i] EXCEPT !.uncertain = @ \/ fs1[i].name # Nothing]]
  BY <1>2 DEF DoubtedScopes
<1> HIDE DEF fs1
<1>4. fs2 = [i \in 1..Len(fs) |-> fs2[i]]
  BY <1>3
<1>5. Listed(fs2) /\ Len(fs2) = Len(fs)
  BY <1>1, <1>4, ListedIf
<1>6. ASSUME NEW i \in 1..Len(fs)
      PROVE  FrameOK(fs2[i]) /\ fs2[i].depth = fs[i].depth /\ fs2[i].saved = fs[i].saved
  <2>1. FrameOK(fs[i])
    BY <1>1
  <2>2. fs2[i] = [fs1[i] EXCEPT !.uncertain = @ \/ fs1[i].name # Nothing]
    BY <1>3
  <2>3. IsFrame(fs[i]) /\ fs[i].uncertain \in BOOLEAN
    BY <2>1 DEF FrameOK
  <2>4. /\ IsFrame(fs1[i]) /\ Stays(fs[i], fs1[i]) /\ fs1[i].queue = fs[i].queue
        /\ fs1[i].uncertain = fs[i].uncertain /\ fs1[i].scope = fs[i].scope
        /\ fs1[i].name = Nothing => fs1[i].real = fs[i].real
    <3>1. CASE i = k /\ fs[i].name # Nothing
      <4>1. fs1[i] = [fs[i] EXCEPT !.real = real]
        BY <1>2, <3>1
      <4> QED
        BY <2>3, <3>1, <4>1, RealChanges DEF Stays
    <3>2. CASE ~(i = k /\ fs[i].name # Nothing)
      BY <1>2, <2>3, <3>2 DEF Stays
    <3> QED
      BY <3>1, <3>2
  <2>5. PICK u \in BOOLEAN : fs2[i] = [fs1[i] EXCEPT !.uncertain = u] /\ (u = FALSE => fs1[i].uncertain = FALSE /\ fs1[i].name = Nothing)
    BY <2>2, <2>3, <2>4
  <2>6. /\ IsFrame(fs2[i]) /\ Stays(fs1[i], fs2[i])
        /\ fs2[i].queue = fs1[i].queue /\ fs2[i].scope = fs1[i].scope
        /\ fs2[i].uncertain = u /\ fs2[i].real = fs1[i].real
    BY <2>4, <2>5, UncertainChanges
  <2> QED
    BY <2>1, <2>4, <2>5, <2>6 DEF FrameOK, Stays
<1>7. \A i \in 2..Len(fs) : HandoffOK(fs2[i])
  <2>1. \A i \in 2..Len(fs) : i \in 1..Len(fs) /\ HandoffOK(fs[i])
    BY <1>1 DEF FramesOK
  <2> QED
    BY <1>6, <2>1 DEF HandoffOK
<1>8. /\ \A i, j \in 1..Len(fs) : i <= j => fs2[i].depth <= fs2[j].depth
      /\ fs2[Len(fs)].depth <= d
  <2>1. Len(fs) \in 1..Len(fs)
    BY <1>1
  <2> QED
    BY <1>6, <2>1 DEF FramesOK
<1> QED
  BY <1>1, <1>5, <1>6, <1>7, <1>8 DEF FramesOK

(* The request is not the last thing the innermost input does. *)
LEMMA RequestTaken ==
  ASSUME Inv, ~Idle
  PROVE  FramesOK(Taken, depth) /\ Asked \in Sources /\ Len(Taken) = Len(frames)
<1>1. /\ Len(frames) \in 1..Len(frames) /\ Innermost = frames[Len(frames)] /\ FrameOK(Innermost)
      /\ DOMAIN frames = 1..Len(frames)
  BY TopIs DEF Inv
<1>2. Innermost.queue \in Seq(Requests) /\ Innermost.queue # <<>>
  BY <1>1 DEF FrameOK, Idle
<1>3. Head(Innermost.queue) \in Requests /\ Tail(Innermost.queue) \in Seq(Requests)
  BY <1>2
<1>a. PICK rest : rest = Tail(Innermost.queue)
  OBVIOUS
<1>b. PICK g : g = [Innermost EXCEPT !.queue = rest]
  OBVIOUS
<1>4. FrameOK(g) /\ g.depth = Innermost.depth /\ g.saved = Innermost.saved
  <2>1. IsFrame(Innermost)
    BY <1>1 DEF FrameOK
  <2>2. /\ IsFrame(g) /\ Stays(Innermost, g) /\ g.queue = rest /\ g.scope = Innermost.scope
        /\ g.uncertain = Innermost.uncertain /\ g.real = Innermost.real
    BY <2>1, <1>b, QueueChanges
  <2> QED
    BY <1>1, <1>3, <1>a, <2>2 DEF FrameOK, Stays
<1>5. Taken = [frames EXCEPT ![Len(frames)] = g]
  BY <1>1, <1>a, <1>b DEF Taken
<1>6. FramesOK(Taken, depth) /\ Len(Taken) = Len(frames)
  BY <1>1, <1>4, <1>5, FrameChanges DEF Inv
<1> QED
  BY <1>3, <1>6 DEF Asked, Requests

-----------------------------------------------------------------------------
(* defer_effects, with the state it starts from. *)
LEMMA DeferStep ==
  ASSUME MeaningsArePlain, NEW st, NEW truth, Typed(st, truth), NEW fs, FramesOK(fs, Depth(st)),
         NEW visible \in SUBSET Sources, DeferEffects(st, fs, truth, visible)
  PROVE  /\ Typed(markers', trueMarkers') /\ FramesOK(frames', depth')
         /\ markers' = MarkEstablished(st, Sources) /\ depth' = Depth(st)
         /\ Honestly(markers', trueMarkers', Uncertain, {})
         /\ visible = {} => \A d \in {Nothing, Uncertain}, S \in SUBSET Sources :
              Honestly(st, truth, d, S) => Honestly(markers', trueMarkers', d, S)
<1>1. /\ markers' = MarkEstablished(st, Sources) /\ trueMarkers' \in Hidden(truth, visible)
      /\ \E i \in DOMAIN fs : \E real \in Alternatives(fs[i]) :
           frames' = DoubtedScopes([fs EXCEPT ![i].real = real])
  BY DEF DeferEffects
<1>2. Typed(markers', trueMarkers') /\ depth' = Depth(st)
  BY <1>1, MarkTyped DEF depth
<1>3. FramesOK(frames', Depth(st))
  BY <1>1, ScopesDoubted
<1>4. Honestly(markers', trueMarkers', Uncertain, {})
  BY <1>1, DoubtedClaims DEF Typed
<1>5. ASSUME visible = {}, NEW d \in {Nothing, Uncertain}, NEW S \in SUBSET Sources, Honestly(st, truth, d, S)
      PROVE  Honestly(markers', trueMarkers', d, S)
  BY <1>1, <1>5, UnseenClaims
<1> QED
  BY <1>1, <1>2, <1>3, <1>4, <1>5

(* What happens without a load in sight, and with one. *)
LEMMA DefersQuietly ==
  ASSUME MeaningsArePlain, Inv, NEW st, NEW truth, Kept(st, truth, Default, missed), NEW fs, FramesOK(fs, Depth(st)),
         DeferEffects(st, fs, truth, {}), UNCHANGED <<doubted, missed>>
  PROVE  Inv'
<1>1. Default' = Default /\ Default \in {Nothing, Uncertain}
  BY Doubts DEF Default
<1>2. PICK S : S = Sources \cap missed
  OBVIOUS
<1>3. Honestly(st, truth, Default, S)
  BY <1>2 DEF Kept, Honestly
<1>4. Honestly(markers', trueMarkers', Default, S)
  BY <1>1, <1>2, <1>3, DeferStep DEF Kept
<1>5. Honestly(markers', trueMarkers', Default, missed)
  BY <1>2, <1>4 DEF Honestly
<1> QED
  BY <1>1, <1>5, DeferStep DEF Inv, Kept

LEMMA DefersInDoubt ==
  ASSUME MeaningsArePlain, NEW st, NEW truth, Typed(st, truth), NEW fs, FramesOK(fs, Depth(st)),
         NEW visible \in SUBSET Sources, DeferEffects(st, fs, truth, visible), doubted' = TRUE, missed' = {}
  PROVE  Inv'
<1>1. Default' = Uncertain
  BY DEF Default
<1> QED
  BY <1>1, DeferStep DEF Inv, Kept

LEMMA Recovers ==
  ASSUME MeaningsArePlain, NEW truth, Typed(markers, truth), NEW fs, FramesOK(fs, depth), RecoverRequest(fs, truth)
  PROVE  Inv'
<1>1. DeferEffects(markers, fs, truth, Sources) /\ doubted' = TRUE /\ missed' = {} /\ Sources \in SUBSET Sources
  BY DEF RecoverRequest
<1> QED
  BY <1>1, DefersInDoubt DEF depth

LEMMA TrueLoadLeaves ==
  ASSUME Inv, NEW n \in Sources
  PROVE  /\ Typed(markers, TrueLoad(n))
         /\ \A i \in 1..(depth + 1), k \in Sources \ {n} : TrueLoad(n)[i][k] = trueMarkers[i][k]
<1>1. Typed(markers, trueMarkers)
  BY DEF Inv, Kept
<1>2. CASE TrueLoad(n) = trueMarkers
  BY <1>1, <1>2
<1>3. CASE TrueLoad(n) = TrueAssign(trueMarkers, n, "loaded", TRUE)
  <2>1. \A global \in BOOLEAN :
          /\ Typed(markers, TrueAssign(trueMarkers, n, "loaded", global))
          /\ \A i \in 1..(Depth(markers) + 1), k \in Sources \ {n} :
                TrueAssign(trueMarkers, n, "loaded", global)[i][k] = trueMarkers[i][k]
    BY <1>1, LoadKept
  <2>2. /\ Typed(markers, TrueAssign(trueMarkers, n, "loaded", TRUE))
        /\ \A i \in 1..(Depth(markers) + 1), k \in Sources \ {n} :
              TrueAssign(trueMarkers, n, "loaded", TRUE)[i][k] = trueMarkers[i][k]
    BY <2>1, Zenon
  <2> QED
    BY <1>3, <2>2 DEF depth
<1> QED
  BY <1>2, <1>3 DEF TrueLoad

(* A package held not to be loaded is not loaded, unless it was missed. *)
LEMMA NotLoaded ==
  ASSUME MeaningsArePlain, Inv, NEW n \in Sources \ missed, Status(n) = "not loaded"
  PROVE  TrueLoad(n) = TrueAssign(trueMarkers, n, "loaded", TRUE)
<1>1. Reading(markers.values[n], Default) \notin {Uncertain, "loaded"}
  BY DEF Status, MeaningsArePlain, Plain
<1>2. /\ markers \in Stores(Sources, Claims) /\ depth \in Nat /\ Len(trueMarkers) = depth + 1
      /\ SoundAt(markers, trueMarkers, Defaults(depth + 1, Default), n)
  BY Doubts DEF Inv, Kept, Honestly, Typed, depth
<1>3. PICK default : default = Defaults(depth + 1, Default)
  OBVIOUS
<1>4. Honest(markers.values[n], default[depth + 1][n], trueMarkers[depth + 1][n])
  BY <1>2, <1>3, ClaimsArePlain, NowHonest DEF depth
<1>5. Last(trueMarkers) = trueMarkers[depth + 1] /\ default[depth + 1][n] = Default
  <2>0. depth \in Nat
    BY <1>2
  <2>1. depth + 1 \in 1..(depth + 1)
    BY ONLY <2>0, LastIndex
  <2>2. default[depth + 1][n] = Default
    BY <1>3, <2>1 DEF Defaults
  <2>3. Last(trueMarkers) = trueMarkers[Len(trueMarkers)]
    BY DEF Last
  <2> QED
    BY <1>2, <2>2, <2>3
<1>6. Last(trueMarkers)[n] # "loaded"
  BY <1>1, <1>4, <1>5 DEF Honest
<1> QED
  BY <1>6 DEF TrueLoad

(* Reading it loads it. *)
LEMMA RecordKept ==
  ASSUME MeaningsArePlain, Inv, NEW n \in Sources, Status(n) = "not loaded"
  PROVE  /\ Kept(record(n), TrueLoad(n), Default, missed) /\ Depth(record(n)) = depth
<1>1. "loaded" \in Claims /\ Plain(Claims) /\ NotSaved \notin Entries(Claims)
  BY ClaimsArePlain DEF Claims, MarkerMeanings
<1>2. /\ markers \in Stores(Sources, Claims) /\ depth \in Nat /\ Len(trueMarkers) = depth + 1
      /\ trueMarkers \in TruthTables(Sources, Claims)
  BY Doubts DEF Inv, Kept, Typed
<1>3. PICK default : default = Defaults(depth + 1, Default)
  OBVIOUS
<1>4. PICK st2 : st2 = record(n)
  OBVIOUS
<1>5. PICK t : t = TrueLoad(n)
  OBVIOUS
<1>6. /\ st2 \in Stores(Sources, Claims) /\ Depth(st2) = Depth(markers)
      /\ \A j \in 1..(depth + 1), k \in Sources \ {n} : EntryAt(st2, j)[k] = EntryAt(markers, j)[k]
  <2>1. \A j \in 1..(depth + 1) : j \in 1..depth \/ j = depth + 1
    BY <1>2, EarlierOrLast
  <2>2. /\ st2 \in Stores(Sources, Claims) /\ Depth(st2) = Depth(markers)
        /\ \A j \in 1..Depth(markers), k \in Sources \ {n} : EntryAt(st2, j)[k] = EntryAt(markers, j)[k]
        /\ \A k \in Sources \ {n} : EntryAt(st2, Depth(markers) + 1)[k] = EntryAt(markers, Depth(markers) + 1)[k]
    <3>1. st2 = AssignedGlobally(markers, n, "loaded")
      BY <1>4 DEF record
    <3> QED
      BY ONLY <1>1, <1>2, <3>1, n \in Sources, GlobalEntries
  <2> QED
    BY <2>1, <2>2 DEF depth
<1>7. \A i \in 1..(depth + 1), k \in Sources \ {n} : t[i][k] = trueMarkers[i][k]
  BY <1>5, TrueLoadLeaves
<1>8. t \in TruthTables(Sources, Claims) /\ Len(t) = depth + 1
  BY <1>5, TrueLoadLeaves DEF Typed, depth
<1>9. ASSUME NEW k \in Sources \ missed, k # n
      PROVE  SoundAt(st2, t, default, k)
  <2>1. SoundAt(markers, trueMarkers, default, k)
    BY <1>3 DEF Inv, Kept, Honestly, depth
  <2>2. /\ \A j \in 1..(Depth(markers) + 1) : EntryAt(st2, j)[k] = EntryAt(markers, j)[k]
        /\ \A i \in 1..(Depth(markers) + 1) : t[i][k] = trueMarkers[i][k]
    BY <1>6, <1>7, <1>9 DEF depth
  <2> QED
    BY <1>2, <1>6, <2>1, <2>2, UntouchedKeySound
<1>10. ASSUME n \notin missed
       PROVE  SoundAt(st2, t, default, n)
  <2>1. t = TrueAssign(trueMarkers, n, "loaded", TRUE) /\ st2 = Assigned(markers, n, "loaded", TRUE)
    BY <1>4, <1>5, <1>10, NotLoaded DEF record, Assigned
  <2>2. \A global \in BOOLEAN : global =>
          SoundAt(Assigned(markers, n, "loaded", global), TrueAssign(trueMarkers, n, "loaded", global), default, n)
    BY <1>1, <1>2, AssignedKeySound DEF depth
  <2>3. SoundAt(Assigned(markers, n, "loaded", TRUE), TrueAssign(trueMarkers, n, "loaded", TRUE), default, n)
    BY <2>2, Zenon
  <2> QED
    BY <2>1, <2>3
<1>11. Typed(st2, t)
  BY <1>6, <1>8 DEF Typed, depth
<1>12. Honestly(st2, t, Default, missed)
  BY <1>3, <1>6, <1>9, <1>10 DEF Honestly, depth
<1> QED
  BY <1>4, <1>5, <1>6, <1>11, <1>12 DEF Kept, depth

(***************************************************************************)
(* The steps.                                                              *)
(***************************************************************************)
(* Steps that leave the markers alone. *)
LEMMA MarkersStay ==
  ASSUME Inv, UNCHANGED <<markers, trueMarkers, doubted, missed>>, FramesOK(frames', depth)
  PROVE  Inv'
BY DEF Inv, Kept, Default, depth, Typed, Honestly

(* And change the innermost frame. *)
LEMMA TopChanges ==
  ASSUME Inv, UNCHANGED <<markers, trueMarkers, doubted, missed>>,
         NEW g, FrameOK(g), Stays(Innermost, g), frames' = [frames EXCEPT ![Len(frames)] = g]
  PROVE  Inv'
<1>1. Len(frames) \in 1..Len(frames) /\ Innermost = frames[Len(frames)]
  BY TopIs DEF Inv
<1>2. FramesOK(frames', depth)
  BY <1>1, FrameChanges DEF Inv, Stays
<1> QED
  BY <1>2, MarkersStay

LEMMA TopFacts ==
  ASSUME Inv
  PROVE  /\ Len(frames) \in 1..Len(frames) /\ Innermost = frames[Len(frames)] /\ DOMAIN frames = 1..Len(frames)
         /\ IsFrame(Innermost) /\ Innermost.queue \in Seq(Requests) /\ Innermost.depth \in Nat /\ Innermost.uncertain \in BOOLEAN
         /\ Innermost.uncertain = FALSE => Innermost.scope = Innermost.real
BY TopIs DEF Inv, FrameOK

LEMMA RequestKept ==
  ASSUME Inv, NEW names \in { <<n>> : n \in Sources } \cup Pairs, NEW options \in OptionLists,
         Request(names, options)
  PROVE  Inv'
<1>1. names \in Seq(Sources)
  <2>1. CASE names \in { <<n>> : n \in Sources }
    <3>1. PICK n \in Sources : names = <<n>>
      BY <2>1
    <3> QED
      BY <3>1
  <2>2. CASE names \in Pairs
    <3>1. PICK n, m \in Sources : names = <<n, m>>
      BY <2>2 DEF Pairs
    <3> QED
      BY <3>1
  <2> QED
    BY <2>1, <2>2
<1> DEFINE asking == [i \in DOMAIN names |-> [name |-> names[i], options |-> options]]
<1>2. asking \in [1..Len(names) -> Requests] /\ Len(names) \in Nat
  BY <1>1 DEF Requests
<1>3. asking \in Seq(Requests)
  BY <1>2, FunctionIsSeq
<1>4. PICK queue : queue = asking
  OBVIOUS
<1>5. PICK g : g = [Innermost EXCEPT !.queue = queue]
  OBVIOUS
<1>6. frames' = [frames EXCEPT ![Len(frames)] = g]
  BY <1>4, <1>5, TopFacts DEF Request
<1>7. /\ IsFrame(g) /\ Stays(Innermost, g) /\ g.queue = queue /\ g.scope = Innermost.scope
      /\ g.uncertain = Innermost.uncertain /\ g.real = Innermost.real
  BY <1>5, TopFacts, QueueChanges
<1>8. FrameOK(g)
  BY <1>3, <1>4, <1>7, TopFacts DEF FrameOK, Stays
<1> QED
  BY <1>6, <1>7, <1>8, TopChanges DEF Request

LEMMA LoadedKept ==
  ASSUME MeaningsArePlain, Inv, PackageLoaded
  PROVE  Inv'
<1>1. FramesOK(Taken, depth)
  BY RequestTaken DEF PackageLoaded, Meets
<1>2. CASE frames' = Taken /\ UNCHANGED <<markers, trueMarkers, doubted, missed>>
  BY <1>1, <1>2, MarkersStay
<1>3. CASE DeferEffects(markers, Taken, trueMarkers, {}) /\ UNCHANGED <<doubted, missed>>
  BY <1>1, <1>3, DefersQuietly DEF Inv, depth
<1> QED
  BY <1>2, <1>3 DEF PackageLoaded

(* Asked about without an answer, a name is left in doubt at every level,   *)
(* or missed.                                                              *)
LEMMA UnsettledQuietly ==
  ASSUME MeaningsArePlain, Inv, NEW n \in Sources, Status(n) = Uncertain, NEW fs, FramesOK(fs, depth),
         DeferEffects(markers, fs, TrueLoad(n), {}), UNCHANGED doubted,
         missed' = IF ~doubted /\ SavedAbsent(n) THEN missed \cup {n} ELSE missed
  PROVE  Inv'
<1>1. Default' = Default /\ Default \in {Nothing, Uncertain} /\ depth \in Nat
  BY Doubts DEF Default
<1>2. Typed(markers, TrueLoad(n)) /\ markers \in Stores(Sources, Claims)
  BY TrueLoadLeaves DEF Typed
<1>3. PICK S : S = (Sources \cap missed) \cup {n}
  OBVIOUS
<1>4. PICK t : t = TrueLoad(n)
  OBVIOUS
<1>5. Honestly(markers, t, Default, S)
  <2>1. PICK default : default = Defaults(depth + 1, Default)
    OBVIOUS
  <2>2. ASSUME NEW k \in Sources \ S
        PROVE  SoundAt(markers, t, default, k)
    <3>1. SoundAt(markers, trueMarkers, default, k) /\ k # n
      BY <1>3, <2>1 DEF Inv, Kept, Honestly, depth
    <3>2. \A i \in 1..(Depth(markers) + 1) : t[i][k] = trueMarkers[i][k]
      BY <1>4, <3>1, TrueLoadLeaves DEF depth
    <3> QED
      BY <1>2, <3>1, <3>2, UntouchedKeySound
  <2> QED
    BY <2>1, <2>2 DEF Honestly, depth
<1>6. /\ Typed(markers', trueMarkers') /\ FramesOK(frames', depth')
      /\ markers' = MarkEstablished(markers, Sources) /\ depth' = depth
      /\ Honestly(markers', trueMarkers', Uncertain, {})
      /\ Honestly(markers', trueMarkers', Default, S)
  BY <1>1, <1>2, <1>3, <1>4, <1>5, DeferStep DEF depth
<1>7. CASE doubted
  <2>1. Default = Uncertain
    BY <1>7 DEF Default
  <2>2. Honestly(markers', trueMarkers', Default, missed')
    BY <1>6, <2>1 DEF Honestly
  <2> QED
    BY <1>1, <1>6, <2>2 DEF Inv, Kept
<1>8. CASE ~doubted /\ SavedAbsent(n)
  <2>1. Honestly(markers', trueMarkers', Default, missed')
    BY <1>3, <1>6, <1>8 DEF Honestly
  <2> QED
    BY <1>1, <1>6, <2>1 DEF Inv, Kept
<1>9. CASE ~doubted /\ ~SavedAbsent(n)
  <2>1. Default = Nothing /\ Uncertain # Nothing
    BY <1>9, ClaimsArePlain DEF Default
  <2>2. Reading(markers.values[n], Default) = Uncertain
    BY DEF Status, MeaningsArePlain, Plain, MarkerMeanings
  <2>3. markers.values[n] # Absent
    BY <2>1, <2>2 DEF Reading
  <2>4. \A j \in 1..(Depth(markers) + 1) : EntryAt(markers, j)[n] # Absent
    <3>1. \A j \in 1..(depth + 1) : j \in 1..depth \/ j = depth + 1
      BY <1>1, EarlierOrLast
    <3>2. \A j \in 1..depth : markers.scopes[j][n] # Absent
      BY <1>9 DEF SavedAbsent
    <3> QED
      BY <1>2, <2>3, <3>1, <3>2, EntriesOfStore DEF depth
  <2>5. SoundAt(MarkEstablished(markers, Sources), trueMarkers', Defaults(Depth(markers) + 1, Default), n)
    BY <1>2, <2>4, NothingAbsent
  <2>6. PICK default : default = Defaults(depth + 1, Default)
    OBVIOUS
  <2>7. SoundAt(markers', trueMarkers', default, n)
    BY <1>6, <2>5, <2>6 DEF depth
  <2>8. \A k \in Sources \ S : SoundAt(markers', trueMarkers', default, k)
    BY <1>6, <2>6 DEF Honestly, depth
  <2>9. \A k \in Sources \ missed' : SoundAt(markers', trueMarkers', default, k)
    BY <1>3, <1>9, <2>7, <2>8
  <2>10. Honestly(markers', trueMarkers', Default, missed')
    BY <1>6, <2>6, <2>9 DEF Honestly, depth
  <2> QED
    BY <1>1, <1>6, <2>10 DEF Inv, Kept
<1> QED
  BY <1>7, <1>8, <1>9

LEMMA UnsettledStep ==
  ASSUME MeaningsArePlain, Inv, PackageUnsettled
  PROVE  Inv'
<1>1. FramesOK(Taken, depth) /\ Asked \in Sources
  BY RequestTaken DEF PackageUnsettled, Meets
<1>2. Status(Asked) = Uncertain
  BY DEF PackageUnsettled, Meets
<1>3. CASE DeferEffects(markers, Taken, TrueLoad(Asked), {}) /\ UNCHANGED doubted
           /\ missed' = IF ~doubted /\ SavedAbsent(Asked) THEN missed \cup {Asked} ELSE missed
  BY <1>1, <1>2, <1>3, UnsettledQuietly
<1>4. CASE RecoverRequest(Taken, TrueLoad(Asked))
  BY <1>1, <1>4, TrueLoadLeaves, Recovers
<1> QED
  BY <1>3, <1>4 DEF PackageUnsettled

LEMMA EnteredKept ==
  ASSUME MeaningsArePlain, Inv, PackageEntered
  PROVE  Inv'
<1>1. FramesOK(Taken, depth) /\ Asked \in Sources
  BY RequestTaken DEF PackageEntered, Meets
<1>2. Kept(record(Asked), TrueLoad(Asked), Default, missed) /\ Depth(record(Asked)) = depth
  BY <1>1, RecordKept DEF PackageEntered, Meets
<1>3. PICK g : g = [Document EXCEPT !.name = Asked, !.items = Items, !.globals = classOptions, !.depth = depth,
                                    !.saved = <<[markers |-> record(Asked), doubted |-> doubted]>>]
  OBVIOUS
<1>4. frames' = Append(Taken, g) /\ markers' = record(Asked) /\ trueMarkers' = TrueLoad(Asked) /\ doubted' = doubted /\ missed' = missed
  BY <1>3 DEF PackageEntered
<1>5. g = [name |-> Asked, items |-> Items, globals |-> classOptions, depth |-> depth, queue |-> <<>>,
           scope |-> Undeclared, uncertain |-> FALSE, real |-> Undeclared, ran |-> <<>>,
           saved |-> <<[markers |-> record(Asked), doubted |-> doubted]>>]
  BY <1>3 DEF Document
<1>6. /\ IsFrame(g) /\ g.queue = <<>> /\ g.depth = depth /\ g.uncertain = FALSE /\ g.scope = g.real
      /\ g.saved[1].markers = record(Asked)
  BY <1>5, FrameLiteral
<1>7. FrameOK(g) /\ HandoffOK(g) /\ depth \in Nat
  <2>1. depth \in Nat
    BY Doubts
  <2>2. HandoffOK(g)
    BY <1>2, <1>6 DEF HandoffOK, Kept, Typed
  <2>3. <<>> \in Seq(Requests)
    OBVIOUS
  <2> QED
    BY <1>6, <2>1, <2>2, <2>3 DEF FrameOK
<1>8. FramesOK(frames', depth)
  BY <1>1, <1>4, <1>6, <1>7, FrameEnters
<1>9. depth' = depth /\ Default' = Default
  BY <1>2, <1>4 DEF depth, Default
<1> QED
  BY <1>2, <1>4, <1>8, <1>9 DEF Inv, Kept, Typed, Honestly

LEMMA FailedKept ==
  ASSUME MeaningsArePlain, Inv, PackageFailed
  PROVE  Inv'
<1>1. FramesOK(Taken, depth) /\ Asked \in Sources
  BY RequestTaken DEF PackageFailed, Meets
<1> QED
  BY <1>1, TrueLoadLeaves, Recovers DEF PackageFailed

LEMMA BoundKept ==
  ASSUME MeaningsArePlain, Inv, PackageBound
  PROVE  Inv'
<1>1. FramesOK(Taken, depth) /\ Asked \in Sources
  BY RequestTaken DEF PackageBound, Meets
<1>2. Kept(record(Asked), TrueLoad(Asked), Default, missed) /\ Depth(record(Asked)) = depth
  BY <1>1, RecordKept DEF PackageBound, Meets
<1>3. CASE markers' = record(Asked) /\ trueMarkers' = TrueLoad(Asked) /\ frames' = Taken /\ doubted' = doubted /\ missed' = missed
  <2>1. depth' = depth /\ Default' = Default
    BY <1>2, <1>3 DEF depth, Default
  <2> QED
    BY <1>1, <1>2, <1>3, <2>1 DEF Inv, Kept, Typed, Honestly
<1>4. CASE DeferEffects(record(Asked), Taken, TrueLoad(Asked), {}) /\ UNCHANGED <<doubted, missed>>
  BY <1>1, <1>2, <1>4, DefersQuietly
<1> QED
  BY <1>3, <1>4 DEF PackageBound

(* Two fields of the innermost frame change. *)
LEMMA TwoChanges ==
  ASSUME Inv, NEW scope, NEW real, NEW f, NEW g, Innermost.uncertain = FALSE => scope = real,
         f = [Innermost EXCEPT !.scope = scope], g = [f EXCEPT !.real = real]
  PROVE  FrameOK(g) /\ Stays(Innermost, g) /\ IsFrame(g)
         /\ g.queue = Innermost.queue /\ g.scope = scope /\ g.uncertain = Innermost.uncertain /\ g.real = real
<1>1. f = [Innermost EXCEPT !.scope = scope] /\ IsFrame(Innermost)
  BY TopFacts
<1>3. /\ IsFrame(f) /\ Stays(Innermost, f) /\ f.queue = Innermost.queue /\ f.scope = scope
      /\ f.uncertain = Innermost.uncertain /\ f.real = Innermost.real
  BY ONLY <1>1, ScopeChanges
<1>a. IsFrame(f) /\ g = [f EXCEPT !.real = real]
  BY <1>3
<1>4. /\ IsFrame(g) /\ Stays(f, g) /\ g.queue = f.queue /\ g.scope = f.scope
      /\ g.uncertain = f.uncertain /\ g.real = real
  BY ONLY <1>a, RealChanges
<1> QED
  BY <1>3, <1>4, TopFacts DEF FrameOK, Stays

LEMMA DeclareKept ==
  ASSUME Inv, NEW o \in Options, NEW target, DeclareOption(o, target)
  PROVE  Inv'
<1>1. PICK declared : declared = Declared(Innermost.scope, o, target)
  OBVIOUS
<1>2. PICK listed : listed = Declared(Innermost.real, o, target)
  OBVIOUS
<1>3. PICK e : e = [Innermost EXCEPT !.scope = declared]
  OBVIOUS
<1>b. PICK g : g = [e EXCEPT !.real = listed]
  OBVIOUS
<1>a. Innermost.uncertain = FALSE => declared = listed
  BY <1>1, <1>2, TopFacts
<1>4. FrameOK(g) /\ Stays(Innermost, g)
  BY ONLY Inv, <1>3, <1>a, <1>b, TwoChanges
<1>5. frames' = [frames EXCEPT ![Len(frames)] = g]
  <2>1. frames' = [frames EXCEPT ![Len(frames)].scope = Declared(@, o, target),
                                 ![Len(frames)].real = Declared(@, o, target)]
    BY DEF DeclareOption
  <2>2. Innermost.real = e.real
    BY ONLY Inv, <1>3, TopFacts, ScopeChanges
  <2> QED
    BY <1>1, <1>2, <1>3, <1>b, <2>1, <2>2, TopFacts
<1> QED
  BY <1>4, <1>5, TopChanges DEF DeclareOption

LEMMA DefaultKept ==
  ASSUME Inv, DeclareDefault
  PROVE  Inv'
<1>1. PICK declared : declared = [Innermost.scope EXCEPT !.default = TRUE]
  OBVIOUS
<1>2. PICK listed : listed = [Innermost.real EXCEPT !.default = TRUE]
  OBVIOUS
<1>3. PICK e : e = [Innermost EXCEPT !.scope = declared]
  OBVIOUS
<1>b. PICK g : g = [e EXCEPT !.real = listed]
  OBVIOUS
<1>a. Innermost.uncertain = FALSE => declared = listed
  BY <1>1, <1>2, TopFacts
<1>4. FrameOK(g) /\ Stays(Innermost, g)
  BY ONLY Inv, <1>3, <1>a, <1>b, TwoChanges
<1>5. frames' = [frames EXCEPT ![Len(frames)] = g]
  <2>1. frames' = [frames EXCEPT ![Len(frames)].scope.default = TRUE, ![Len(frames)].real.default = TRUE]
    BY DEF DeclareDefault
  <2>2. Innermost.real = e.real
    BY ONLY Inv, <1>3, TopFacts, ScopeChanges
  <2> QED
    BY <1>1, <1>2, <1>3, <1>b, <2>1, <2>2, TopFacts
<1> QED
  BY <1>4, <1>5, TopChanges DEF DeclareDefault

LEMMA ProcessKept ==
  ASSUME Inv, NEW order, ProcessOptions(order)
  PROVE  Inv'
<1>1. PICK declared : declared = [Innermost.scope EXCEPT !.processed = TRUE]
  OBVIOUS
<1>2. PICK listed : listed = [Innermost.real EXCEPT !.processed = TRUE]
  OBVIOUS
<1>3. PICK e : e = [Innermost EXCEPT !.scope = declared]
  OBVIOUS
<1>b. PICK f : f = [e EXCEPT !.real = listed]
  OBVIOUS
<1>a. Innermost.uncertain = FALSE => declared = listed
  BY <1>1, <1>2, TopFacts
<1>4. /\ FrameOK(f) /\ Stays(Innermost, f) /\ IsFrame(f)
  BY ONLY Inv, <1>3, <1>a, <1>b, TwoChanges
<1>5. PICK ran : ran = Plan(order)
  OBVIOUS
<1>6. PICK g : g = [f EXCEPT !.ran = ran]
  OBVIOUS
<1>7. /\ IsFrame(g) /\ Stays(f, g) /\ g.queue = f.queue /\ g.scope = f.scope
      /\ g.uncertain = f.uncertain /\ g.real = f.real
  BY <1>4, <1>6, RanChanges
<1>8. FrameOK(g) /\ Stays(Innermost, g)
  BY <1>4, <1>7 DEF FrameOK, Stays
<1>9. frames' = [frames EXCEPT ![Len(frames)] = g]
  <2>1. frames' = [frames EXCEPT ![Len(frames)].scope.processed = TRUE,
                                 ![Len(frames)].real.processed = TRUE,
                                 ![Len(frames)].ran = ran]
    BY <1>5 DEF ProcessOptions
  <2>2. Innermost.real = e.real
    BY ONLY Inv, <1>3, TopFacts, ScopeChanges
  <2> QED
    BY <1>1, <1>2, <1>3, <1>b, <1>6, <2>1, <2>2, TopFacts
<1> QED
  BY <1>8, <1>9, TopChanges DEF ProcessOptions

LEMMA QuietKept ==
  ASSUME Inv, UNCHANGED <<markers, trueMarkers, doubted, frames, missed>>
  PROVE  Inv'
BY MarkersStay DEF Inv

LEMMA GroupBegins ==
  ASSUME MeaningsArePlain, Inv, BeginGroup
  PROVE  Inv'
<1>1. Kept(markers', trueMarkers', Default, missed) /\ depth' = depth + 1
  BY PushKept DEF Inv, Kept, BeginGroup, depth
<1>2. Default' = Default /\ doubted' = doubted /\ frames' = frames /\ missed' = missed
  BY DEF BeginGroup, Default
<1>3. FramesOK(frames', depth')
  <2>1. Innermost.depth \in Nat /\ depth \in Nat /\ Innermost = frames[Len(frames)]
    BY TopFacts, Doubts
  <2>2. frames[Len(frames)].depth <= depth
    BY DEF Inv, FramesOK
  <2>3. frames[Len(frames)].depth <= depth + 1
    BY <2>1, <2>2
  <2>4. FramesOK(frames, depth + 1)
    BY <2>3, FramesDeeper DEF Inv
  <2> QED
    BY <1>1, <1>2, <2>4
<1> QED
  BY <1>1, <1>2, <1>3 DEF Inv, Kept, Typed, Honestly

LEMMA GroupEnds ==
  ASSUME MeaningsArePlain, Inv, EndGroup
  PROVE  Inv'
<1>0. depth \in Nat /\ Innermost.depth \in Nat /\ depth > Innermost.depth /\ Innermost = frames[Len(frames)]
  BY TopFacts, Doubts DEF EndGroup
<1>1. Kept(markers', trueMarkers', Default, missed) /\ depth' = depth - 1
  BY <1>0, PopKept DEF Inv, Kept, EndGroup, depth
<1>2. Default' = Default /\ doubted' = doubted /\ frames' = frames /\ missed' = missed
  BY DEF EndGroup, Default
<1>3. FramesOK(frames', depth')
  <2>1. frames[Len(frames)].depth <= depth - 1
    BY <1>0
  <2>2. FramesOK(frames, depth - 1)
    BY <2>1, FramesDeeper DEF Inv
  <2> QED
    BY <1>1, <1>2, <2>2
<1> QED
  BY <1>1, <1>2, <1>3 DEF Inv, Kept, Typed, Honestly

LEMMA MarkerAssigned ==
  ASSUME MeaningsArePlain, Inv, NEW n \in Sources, NEW meaning \in MarkerMeanings,
         NEW global \in BOOLEAN, AssignMarker(n, meaning, global)
  PROVE  Inv'
<1>1. meaning \in Claims /\ missed' = IF global THEN missed \ {n} ELSE missed
  BY DEF AssignMarker, Claims
<1>2. PICK S : S = missed'
  OBVIOUS
<1>3. Kept(markers', trueMarkers', Default, S) /\ depth' = depth
  BY <1>1, <1>2, AssignKept DEF Inv, Kept, AssignMarker, depth
<1>4. Default' = Default /\ doubted' = doubted /\ frames' = frames
  BY DEF AssignMarker, Default
<1> QED
  BY <1>2, <1>3, <1>4 DEF Inv, Kept, Typed, Honestly

LEMMA RetainKept ==
  ASSUME MeaningsArePlain, Inv, NEW visible \in {{}, Sources}, Retain(visible)
  PROVE  Inv'
<1>1. CASE visible = {}
  BY <1>1, DefersQuietly DEF Retain, Inv, depth
<1>2. CASE visible # {}
  <2>1. visible \in SUBSET Sources /\ doubted' = TRUE /\ missed' = {}
    BY <1>2 DEF Retain
  <2> QED
    BY <2>1, DefersInDoubt DEF Retain, Inv, Kept, depth
<1> QED
  BY <1>1, <1>2

LEMMA PackageEnds ==
  ASSUME Inv, EndPackage
  PROVE  Inv'
<1>1. FramesOK(frames', depth)
  BY FrameLeaves, Doubts DEF EndPackage, Inv
<1> QED
  BY <1>1, MarkersStay DEF EndPackage

(* The caller resumes with the markers of the handoff. *)
LEMMA PackageRetained ==
  ASSUME MeaningsArePlain, Inv, RetainPackage
  PROVE  Inv'
<1>1. /\ HandoffOK(Innermost) /\ FramesOK(Front(frames), Innermost.depth) /\ Innermost.depth \in Nat
  BY FrameLeaves, TopFacts, Doubts DEF RetainPackage, Inv
<1>2. PICK st : st = Innermost.saved[1].markers
  OBVIOUS
<1>3. PICK truth : truth = SubSeq(trueMarkers, 1, Innermost.depth + 1)
  OBVIOUS
<1>4. st \in Stores(Sources, Claims) /\ Depth(st) = Innermost.depth
  BY <1>1, <1>2 DEF HandoffOK
<1>5. truth \in TruthTables(Sources, Claims) /\ Len(truth) = Innermost.depth + 1
  <2>1. Innermost.depth <= depth /\ depth \in Nat /\ Len(trueMarkers) = depth + 1
    BY TopFacts, Doubts DEF Inv, FramesOK
  <2>2. trueMarkers \in Seq([Sources -> Claims])
    BY DEF Inv, Kept, Typed, TruthTables
  <2> QED
    BY <1>1, <1>3, <2>1, <2>2 DEF TruthTables
<1>6. Typed(st, truth) /\ FramesOK(Front(frames), Depth(st))
  BY <1>1, <1>4, <1>5 DEF Typed
<1>7. DeferEffects(st, Front(frames), truth, Sources) /\ doubted' = TRUE /\ missed' = {}
  BY <1>2, <1>3 DEF RetainPackage
<1> QED
  BY <1>6, <1>7, DefersInDoubt

LEMMA NextKept ==
  ASSUME MeaningsArePlain, Inv, [LoadsNext]_loadVars
  PROVE  Inv'
<1>1. CASE UNCHANGED loadVars
  BY <1>1, QuietKept DEF loadVars
<1>2. ASSUME NEW names \in { <<n>> : n \in Sources } \cup Pairs, NEW options \in OptionLists, Request(names, options)
      PROVE  Inv'
  BY <1>2, RequestKept
<1>3. ASSUME NEW o \in Options, NEW target, DeclareOption(o, target)
      PROVE  Inv'
  BY <1>3, DeclareKept
<1>4. ASSUME NEW order, ProcessOptions(order)
      PROVE  Inv'
  BY <1>4, ProcessKept
<1>5. ASSUME NEW options, ExecuteOptions(options)
      PROVE  Inv'
  BY <1>5, QuietKept DEF ExecuteOptions
<1>6. ASSUME NEW o, NEW n, ForwardOptions(o, n)
      PROVE  Inv'
  BY <1>6, QuietKept DEF ForwardOptions
<1>7. ASSUME NEW n \in Sources, NEW meaning \in MarkerMeanings, NEW global \in BOOLEAN, AssignMarker(n, meaning, global)
      PROVE  Inv'
  BY <1>7, MarkerAssigned
<1>8. ASSUME NEW visible \in {{}, Sources}, Retain(visible)
      PROVE  Inv'
  BY <1>8, RetainKept
<1> QED
  BY <1>1, <1>2, <1>3, <1>4, <1>5, <1>6, <1>7, <1>8, LoadedKept, UnsettledStep, EnteredKept, FailedKept,
     BoundKept, DefaultKept, GroupBegins, GroupEnds, PackageEnds, PackageRetained
  DEF LoadsNext, Step

(* An answer about a package or about the options of an open one is TeX's,  *)
(* now and after any number of group ends, whatever markers source sets or  *)
(* lets in its groups; of a missed name only that is not claimed           *)
(* (SourceLoadState.query, OptionScope.plan).                              *)
THEOREM PackagesStayTrue == LoadsSpec => []PackagesAreTrue
<1>1. LoadsInit => Inv
  BY InitKept, MarkersAssumption
<1>2. Inv /\ [LoadsNext]_loadVars => Inv'
  BY NextKept, MarkersAssumption
<1>3. Inv => PackagesAreTrue
  <2>1. ASSUME Inv
        PROVE  LoadsAreTrue
    <3>1. PICK st2 : st2 = DoubtedGlobally(markers, missed)
      OBVIOUS
    <3>2. PICK default : default = Defaults(depth + 1, Default)
      OBVIOUS
    <3>3. /\ st2 \in Stores(Sources, Claims) /\ Depth(st2) = Depth(markers) /\ markers \in Stores(Sources, Claims)
          /\ \A j \in 1..(Depth(markers) + 1), k \in Sources :
                EntryAt(st2, j)[k] = IF k \in missed THEN Uncertain ELSE EntryAt(markers, j)[k]
      BY <2>1, <3>1, DoubtedGloballyEntries DEF Inv, Kept, Typed
    <3>4. ASSUME NEW k \in Sources, k \in missed
          PROVE  SoundAt(st2, trueMarkers, default, k)
      BY <3>3, <3>4, DoubtfulKeySound
    <3>5. ASSUME NEW k \in Sources, k \notin missed
          PROVE  SoundAt(st2, trueMarkers, default, k)
      <4>1. SoundAt(markers, trueMarkers, default, k)
        BY <2>1, <3>2, <3>5 DEF Inv, Kept, Honestly, depth
      <4> QED
        BY <3>3, <3>5, <4>1, UntouchedKeySound
    <3>6. Sound(st2, trueMarkers, default)
      BY <3>3, <3>4, <3>5, SoundByKey
    <3> QED
      BY <3>1, <3>2, <3>6 DEF LoadsAreTrue, Defaults
  <2>2. ASSUME Inv
        PROVE  ScopesAreTrue
    <3>1. DOMAIN frames = 1..Len(frames) /\ \A i \in 1..Len(frames) : FrameOK(frames[i])
      BY <2>2, TopFacts, MarkersAssumption DEF Inv, FramesOK
    <3> QED
      BY <3>1 DEF ScopesAreTrue, FrameOK
  <2> QED
    BY <2>1, <2>2 DEF PackagesAreTrue
<1> QED
  BY <1>1, <1>2, <1>3, PTL DEF LoadsSpec
=============================================================================
