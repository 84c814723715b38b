----------------------------- MODULE SaveJournal -----------------------------
(***************************************************************************)
(* The save journals behind TeX's groups.  Integer parameters, token       *)
(* registers, state cells and meanings each keep their current values and, *)
(* for every open group, a journal of the values to put back when the      *)
(* group ends.  This module holds the operations the four stores share, as *)
(* operators on a store, and the meaning of a store: what it would read    *)
(* now and after any number of group ends.                                 *)
(*                                                                         *)
(* A store is [values, scopes].  The entry of a key is a value, Absent     *)
(* (the key is not in the dictionary) or Uncertain (a record whose         *)
(* `uncertain' field is set: every read of it raises).  A journal maps     *)
(* each key to an entry, or to NotSaved when the dictionary has no item    *)
(* for it; a saved Absent is the item None.                                *)
(***************************************************************************)
EXTENDS Naturals, Sequences

CONSTANTS Absent, Uncertain, NotSaved

ASSUME SentinelsDiffer ==
  Absent # Uncertain /\ Absent # NotSaved /\ Uncertain # NotSaved

Plain(V) == Absent \notin V /\ Uncertain \notin V /\ NotSaved \notin V

Entries(V) == V \cup {Absent, Uncertain}
Journals(K, V) == [K -> Entries(V) \cup {NotSaved}]
Stores(K, V) == [values: [K -> Entries(V)], scopes: Seq(Journals(K, V))]

Depth(st) == Len(st.scopes)
KeysOf(st) == DOMAIN st.values

-----------------------------------------------------------------------------
(* push: a new group starts with an empty journal. *)
Pushed(st) ==
  [values |-> st.values,
   scopes |-> Append(st.scopes, [k \in KeysOf(st) |-> NotSaved])]

(* Mutant of Popped: the whole journal replaces the values. *)
PoppedWholesale(st) ==
  [values |-> st.scopes[Depth(st)], scopes |-> SubSeq(st.scopes, 1, Depth(st) - 1)]

(* pop: every journalled key takes its saved entry back, others keep theirs. *)
Popped(st) ==
  LET journal == st.scopes[Depth(st)]
  IN  [values |-> [k \in KeysOf(st) |-> IF journal[k] = NotSaved
                                          THEN st.values[k] ELSE journal[k]],
       scopes |-> SubSeq(st.scopes, 1, Depth(st) - 1)]

(* scopes[-1].setdefault(key, values.get(key)) for every key of S. *)
SavedOnce(st, S) ==
  [i \in 1..Depth(st) |->
     [k \in KeysOf(st) |->
        IF i = Depth(st) /\ k \in S /\ st.scopes[i][k] = NotSaved
          THEN st.values[k] ELSE st.scopes[i][k]]]

(* A local write keeps the first value the group found. *)
AssignedLocally(st, key, v) ==
  [values |-> [st.values EXCEPT ![key] = v], scopes |-> SavedOnce(st, {key})]

(* A global write leaves no journal that could restore an older value. *)
AssignedGlobally(st, key, v) ==
  [values |-> [st.values EXCEPT ![key] = v],
   scopes |-> [i \in 1..Depth(st) |-> [st.scopes[i] EXCEPT ![key] = NotSaved]]]

Assigned(st, key, v, global) ==
  IF global THEN AssignedGlobally(st, key, v) ELSE AssignedLocally(st, key, v)

(* Local doubt about the keys of S ends with the group, global doubt is     *)
(* written into every journal: the saved values may be stale too.           *)
DoubtedLocally(st, S) ==
  [values |-> [k \in KeysOf(st) |-> IF k \in S THEN Uncertain ELSE st.values[k]],
   scopes |-> SavedOnce(st, S)]

(* Mutant of DoubtedGlobally: the saved values stay established. *)
DoubtedCurrentOnly(st, S) ==
  [values |-> [k \in KeysOf(st) |-> IF k \in S THEN Uncertain ELSE st.values[k]],
   scopes |-> st.scopes]

DoubtedGlobally(st, S) ==
  [values |-> [k \in KeysOf(st) |-> IF k \in S THEN Uncertain ELSE st.values[k]],
   scopes |-> [i \in 1..Depth(st) |->
                 [k \in KeysOf(st) |-> IF k \in S THEN Uncertain ELSE st.scopes[i][k]]]]

Doubted(st, S, global) ==
  IF global THEN DoubtedGlobally(st, S) ELSE DoubtedLocally(st, S)

(* Mark the established entries of S uncertain, journals included; a saved *)
(* None is passed over.                                                    *)
MarkEstablished(st, S) ==
  LET mark(e) == IF e \in {Absent, NotSaved} THEN e ELSE Uncertain
  IN  [values |-> [k \in KeysOf(st) |-> IF k \in S THEN mark(st.values[k]) ELSE st.values[k]],
       scopes |-> [i \in 1..Depth(st) |->
                     [k \in KeysOf(st) |-> IF k \in S THEN mark(st.scopes[i][k])
                                                      ELSE st.scopes[i][k]]]]

-----------------------------------------------------------------------------
(* TeX's own state, as a stack of complete tables: truth[i] is what every  *)
(* key will mean when only i - 1 groups are open, its last element what it *)
(* means now.  It says what a group, a local and a global write are.       *)

TruthTables(K, V) == Seq([K -> V])

TruePush(truth) == Append(truth, truth[Len(truth)])
TruePop(truth) == SubSeq(truth, 1, Len(truth) - 1)
TrueAssign(truth, key, v, global) ==
  [i \in 1..Len(truth) |-> IF global \/ i = Len(truth)
                             THEN [truth[i] EXCEPT ![key] = v] ELSE truth[i]]

(* What code nobody executed can have done to the keys of S: a balanced    *)
(* piece of source leaves the groups as they were, may have written some   *)
(* keys globally (outer, Absent where it did not), and then any locally.   *)
Overwritten(truth, S, now, outer) ==
  [i \in 1..Len(truth) |->
     [k \in DOMAIN truth[i] |->
        IF k \in S THEN IF i = Len(truth) THEN now[k]
                        ELSE IF outer[k] = Absent THEN truth[i][k] ELSE outer[k]
                   ELSE truth[i][k]]]

UnknownLocally(truth, S, V) ==
  { Overwritten(truth, S, now, [k \in S |-> Absent]) : now \in [S -> V] }

UnknownGlobally(truth, S, V) ==
  { Overwritten(truth, S, now, outer) : now \in [S -> V], outer \in [S -> V \cup {Absent}] }

UnknownWrites(truth, S, V, global) ==
  IF global THEN UnknownGlobally(truth, S, V) ELSE UnknownLocally(truth, S, V)

-----------------------------------------------------------------------------
(* EntryAt(st, j) is the journal of group j or, past the innermost group,  *)
(* the current values.  After group ends have brought the depth down to    *)
(* i - 1, key k has the entry of the first j >= i that holds one.          *)
EntryAt(st, j) == IF j = Depth(st) + 1 THEN st.values ELSE st.scopes[j]

Supplies(st, k, i, j) ==
  /\ EntryAt(st, j)[k] # NotSaved
  /\ \A m \in i..(j - 1) : EntryAt(st, m)[k] = NotSaved

(* An entry is honest about t when reading it raises or returns t; Absent  *)
(* reads as the store's default d, which may itself be Uncertain.          *)
Reading(e, d) == IF e = Absent THEN d ELSE e
Honest(e, d, t) == Reading(e, d) # Uncertain => Reading(e, d) = t

(* Every read the store would answer, at this depth or after any number of *)
(* group ends, answers what TeX would.  default[i][k] is what an absent k  *)
(* reads as at level i.                                                    *)
Sound(st, truth, default) ==
  \A k \in KeysOf(st) : \A i \in 1..(Depth(st) + 1) : \A j \in i..(Depth(st) + 1) :
     Supplies(st, k, i, j) => Honest(EntryAt(st, j)[k], default[i][k], truth[i][k])

=============================================================================
