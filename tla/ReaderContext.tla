---------------------------- MODULE ReaderContext ----------------------------
(***************************************************************************)
(* reading/context.py with engine/transactions.py: the scoped reading      *)
(* state of one document, as the primitives' handlers use it.  Groups push *)
(* and pop the integer parameters, the meanings, the category table and    *)
(* the namespace barriers together; the parameter \globaldefs decides the  *)
(* scope of every other assignment, so what the reader knows of one store  *)
(* decides what it may claim about another.                                *)
(*                                                                         *)
(* trueInts, trueMeanings and trueCats are not in the program: they are    *)
(* TeX's state while the same source runs, including the source the reader *)
(* retains without executing.                                              *)
(***************************************************************************)
EXTENDS SaveJournal, Integers

CONSTANTS
  GlobalDefs,   (* The parameter \globaldefs.                                *)
  Settings,     (* The values assigned to it, 0 among them.                  *)
  Names,        (* Control sequence names.                                   *)
  Meanings,     (* Meanings a name can have.                                 *)
  Observed,     (* Those invalidate_observed_meanings marks: booleans, copied
                   meanings, character codes, token lists, primitives.       *)
  Fallback,     (* What resolution gives a name nothing was recorded for.    *)
  Summaries,    (* Effect summaries: names, names sharing a prefix,
                   registers and whether the scope may be global.            *)
  Characters, Categories,
  Preparation,  (* host.preparation and not host.program.                    *)
  MaxDepth      (* Bound on the open groups.                                 *)

ASSUME ContextAssumption ==
  /\ Settings \subseteq Int /\ 0 \in Settings /\ Plain(Settings)
  /\ Plain(Meanings) /\ Observed \subseteq Meanings
  /\ Fallback \in Meanings \ Observed
  /\ Summaries \subseteq [names: SUBSET Names, prefix: SUBSET Names,
                            registers: SUBSET {GlobalDefs}, global: BOOLEAN]
  /\ Preparation \in BOOLEAN /\ MaxDepth \in Nat

Parameters == {GlobalDefs}

VARIABLES
  ints,         (* integer_parameters.                                        *)
  meanings,     (* _meanings and _meaning_scopes.                             *)
  catcodes,     (* The current category table.                                *)
  barrier,      (* The names _uncertain_prefixes covers.                      *)
  snapshots,    (* _scope_stack: the table and barrier each open group saved. *)
  trueInts, trueMeanings, trueCats

vars == <<ints, meanings, catcodes, barrier, snapshots, trueInts, trueMeanings, trueCats>>

scope_depth == Len(snapshots)
CatTables == [Characters -> Categories]

TypeOK ==
  /\ ints \in Stores(Parameters, Settings)
  /\ meanings \in Stores(Names, Meanings)
  /\ catcodes \in CatTables
  /\ barrier \in SUBSET Names
  /\ snapshots \in Seq([catcodes: CatTables, barrier: SUBSET Names])
  /\ trueInts \in TruthTables(Parameters, Settings)
  /\ trueMeanings \in TruthTables(Names, Meanings)
  /\ trueCats \in Seq(CatTables)
  /\ scope_depth <= MaxDepth

(* Every store has one journal, and TeX one table, per open group. *)
ScopesAligned ==
  /\ Depth(ints) = scope_depth /\ Depth(meanings) = scope_depth
  /\ Len(trueInts) = scope_depth + 1
  /\ Len(trueMeanings) = scope_depth + 1
  /\ Len(trueCats) = scope_depth + 1

Init ==
  /\ ints = [values |-> [k \in Parameters |-> 0], scopes |-> <<>>]
  /\ meanings = [values |-> [n \in Names |-> Absent], scopes |-> <<>>]
  /\ catcodes \in CatTables
  /\ barrier = {}
  /\ snapshots = <<>>
  /\ trueInts = <<[k \in Parameters |-> 0]>>
  /\ trueMeanings = <<[n \in Names |-> Fallback]>>
  /\ trueCats = <<catcodes>>

-----------------------------------------------------------------------------
(* Lookups. *)

BarrierAt(i) == IF i = scope_depth + 1 THEN barrier ELSE snapshots[i].barrier

(* lookup_meaning: a name without a record falls back to the profile's or  *)
(* the bindings' knowledge, unless a namespace barrier covers it.          *)
MeaningDefault ==
  [i \in 1..(scope_depth + 1) |->
     [n \in KeysOf(meanings) |-> IF n \in BarrierAt(i) THEN Uncertain ELSE Fallback]]

(* An integer parameter without an established value raises. *)
IntDefault == [i \in 1..(scope_depth + 1) |-> [k \in Parameters |-> Uncertain]]

globaldefs == Reading(ints.values[GlobalDefs], Uncertain)
trueGlobaldefs == trueInts[Len(trueInts)][GlobalDefs]

(* assignment_global: at the bottom level the two scopes coincide, a       *)
(* nonzero \globaldefs overrides the prefix or the operation's default.    *)
ScopeOf(setting, global) == IF setting = 0 THEN global ELSE setting > 0
ScopeKnown == scope_depth = 0 \/ globaldefs # Uncertain
AssignmentGlobal(global) == scope_depth = 0 \/ ScopeOf(globaldefs, global)
TrueGlobal(global) == scope_depth = 0 \/ ScopeOf(trueGlobaldefs, global)

-----------------------------------------------------------------------------
(* Groups. *)

push_scope ==
  /\ scope_depth < MaxDepth
  /\ snapshots' = Append(snapshots, [catcodes |-> catcodes, barrier |-> barrier])
  /\ ints' = Pushed(ints)
  /\ meanings' = Pushed(meanings)
  /\ trueInts' = TruePush(trueInts)
  /\ trueMeanings' = TruePush(trueMeanings)
  /\ trueCats' = TruePush(trueCats)
  /\ UNCHANGED <<catcodes, barrier>>

(* Mutant of pop_scope: the meanings keep their journal. *)
PopWithoutMeanings ==
  /\ scope_depth > 0
  /\ catcodes' = snapshots[scope_depth].catcodes
  /\ barrier' = snapshots[scope_depth].barrier
  /\ snapshots' = SubSeq(snapshots, 1, scope_depth - 1)
  /\ ints' = Popped(ints)
  /\ trueInts' = TruePop(trueInts)
  /\ trueMeanings' = TruePop(trueMeanings)
  /\ trueCats' = TruePop(trueCats)
  /\ UNCHANGED meanings

pop_scope ==
  /\ scope_depth > 0
  /\ catcodes' = snapshots[scope_depth].catcodes
  /\ barrier' = snapshots[scope_depth].barrier
  /\ snapshots' = SubSeq(snapshots, 1, scope_depth - 1)
  /\ ints' = Popped(ints)
  /\ meanings' = Popped(meanings)
  /\ trueInts' = TruePop(trueInts)
  /\ trueMeanings' = TruePop(trueMeanings)
  /\ trueCats' = TruePop(trueCats)

-----------------------------------------------------------------------------
(* Assignments the reader executes.  When the scope is not established the *)
(* handler raises and its transaction undoes it, except for a definition   *)
(* retained by preparation.                                                *)

assign_integer(v, global) ==
  /\ ScopeKnown
  /\ ints' = Assigned(ints, GlobalDefs, v, AssignmentGlobal(global))
  /\ trueInts' = TrueAssign(trueInts, GlobalDefs, v, TrueGlobal(global))
  /\ UNCHANGED <<meanings, catcodes, barrier, snapshots, trueMeanings, trueCats>>

(* Mutant of assign_catcode: a global assignment forgets the saved tables. *)
AssignCurrentTable(c, category, global) ==
  /\ ScopeKnown
  /\ catcodes' = [catcodes EXCEPT ![c] = category]
  /\ trueCats' = TrueAssign(trueCats, c, category, TrueGlobal(global))
  /\ UNCHANGED <<ints, meanings, barrier, snapshots, trueInts, trueMeanings>>

(* A global category assignment writes every saved table. *)
assign_catcode(c, category, global) ==
  /\ ScopeKnown
  /\ catcodes' = [catcodes EXCEPT ![c] = category]
  /\ snapshots' = [i \in 1..scope_depth |->
                     IF AssignmentGlobal(global)
                       THEN [snapshots[i] EXCEPT !.catcodes[c] = category]
                       ELSE snapshots[i]]
  /\ trueCats' = TrueAssign(trueCats, c, category, TrueGlobal(global))
  /\ UNCHANGED <<ints, meanings, barrier, trueInts, trueMeanings>>

(* record_meaning with the scope of meaning_assignment_scope: a definition *)
(* of unknown scope holds now and leaves every enclosing journal in doubt. *)
RecordedInDoubt(st, n, m) ==
  [values |-> [st.values EXCEPT ![n] = m],
   scopes |-> [i \in 1..Depth(st) |-> [st.scopes[i] EXCEPT ![n] = Uncertain]]]

record_meaning(n, m, global) ==
  /\ \/ /\ ScopeKnown
        /\ meanings' = Assigned(meanings, n, m, AssignmentGlobal(global))
     \/ /\ ~ScopeKnown /\ Preparation
        /\ meanings' = RecordedInDoubt(meanings, n, m)
  /\ trueMeanings' = TrueAssign(trueMeanings, n, m, TrueGlobal(global))
  /\ UNCHANGED <<ints, catcodes, barrier, snapshots, trueInts, trueCats>>

-----------------------------------------------------------------------------
(* Source that is retained instead of executed. *)

VisitedInts(registers, global) ==
  { k \in registers : \/ ints.values[k] # Absent
                      \/ global /\ \E i \in 1..scope_depth : ints.scopes[i][k] # NotSaved }

VisitedNames(names, prefix, global) ==
  names \cup { n \in prefix : \/ meanings.values[n] # Absent
                              \/ global /\ \E i \in 1..scope_depth :
                                             meanings.scopes[i][n] # NotSaved }

(* invalidate_writes: the retained source has an effect summary bounding   *)
(* the names, name prefixes and registers it writes, and its scope.        *)
DoubtWrites(s) ==
  /\ ints' = Doubted(ints, VisitedInts(s.registers, s.global), s.global)
  /\ meanings' = Doubted(meanings, VisitedNames(s.names, s.prefix, s.global), s.global)
  /\ barrier' = barrier \cup s.prefix
  /\ snapshots' = [i \in 1..scope_depth |->
                     IF s.global THEN [snapshots[i] EXCEPT !.barrier = @ \cup s.prefix]
                                 ELSE snapshots[i]]
  /\ UNCHANGED catcodes

invalidate_writes(s) ==
  /\ DoubtWrites(s)
  /\ trueInts' \in UnknownWrites(trueInts, s.registers, Settings, s.global)
  /\ trueMeanings' \in UnknownWrites(trueMeanings, s.names \cup s.prefix, Meanings, s.global)
  /\ UNCHANGED trueCats

(* invalidate_meanings: declarations observed in retained source, which    *)
(* may carry a global prefix the reader did not interpret.                 *)
invalidate_meanings(names) ==
  /\ meanings' =
       [values |-> [n \in Names |-> IF n \in names THEN Uncertain ELSE meanings.values[n]],
        scopes |-> [i \in 1..scope_depth |->
                      [n \in Names |-> IF n \in names /\ meanings.scopes[i][n] # NotSaved
                                         THEN Uncertain ELSE meanings.scopes[i][n]]]]
  /\ trueMeanings' \in UnknownWrites(trueMeanings, names, Meanings, TRUE)
  /\ UNCHANGED <<ints, catcodes, barrier, snapshots, trueInts, trueCats>>

(* invalidate_observed_meanings: retained source with no summary.  The     *)
(* guard is bounded: it covers integer parameters and meanings in          *)
(* Observed, at whatever level they stand, and assumes macro bodies and    *)
(* fallbacks are left alone.                                               *)
BoundedWrites ==
  { t \in UnknownWrites(trueMeanings, Names, Meanings, TRUE) :
      \A i \in 1..Len(trueMeanings) : \A n \in Names :
         trueMeanings[i][n] \notin Observed => t[i][n] = trueMeanings[i][n] }

DoubtObserved ==
  LET mark(e) == IF e \in Observed THEN Uncertain ELSE e
  IN  /\ ints' = Doubted(ints, VisitedInts(Parameters, TRUE), TRUE)
      /\ meanings' = [values |-> [n \in Names |-> mark(meanings.values[n])],
                      scopes |-> [i \in 1..scope_depth |->
                                    [n \in Names |-> mark(meanings.scopes[i][n])]]]
      /\ UNCHANGED <<catcodes, barrier, snapshots>>

invalidate_observed_meanings ==
  /\ DoubtObserved
  /\ trueInts' \in UnknownWrites(trueInts, Parameters, Settings, TRUE)
  /\ trueMeanings' \in BoundedWrites
  /\ UNCHANGED trueCats

Next ==
  \/ push_scope
  \/ pop_scope
  \/ \E v \in Settings, global \in BOOLEAN : assign_integer(v, global)
  \/ \E c \in Characters, category \in Categories, global \in BOOLEAN :
        assign_catcode(c, category, global)
  \/ \E n \in Names, m \in Meanings, global \in BOOLEAN : record_meaning(n, m, global)
  \/ \E s \in Summaries : invalidate_writes(s)
  \/ \E names \in SUBSET Names : invalidate_meanings(names)
  \/ invalidate_observed_meanings

Spec == Init /\ [][Next]_vars

-----------------------------------------------------------------------------
(* A meaning the reader reports as established is the one TeX has, now and *)
(* after any number of group ends, although definitions whose scope hangs  *)
(* on \globaldefs, retained source and namespace barriers are interleaved  *)
(* in any order.                                                           *)
MeaningsAreTrue == Sound(meanings, trueMeanings, MeaningDefault)

(* The same for the parameter every scope decision reads: an established   *)
(* \globaldefs is TeX's.                                                   *)
ParametersAreTrue == Sound(ints, trueInts, IntDefault)

(* The category table in force, and each table a group end will restore,   *)
(* is TeX's: the snapshots agree with the save semantics of the journals.  *)
CategoriesAreTrue ==
  /\ catcodes = trueCats[Len(trueCats)]
  /\ \A i \in 1..scope_depth : snapshots[i].catcodes = trueCats[i]

(* The stores that decide how a line is read and how far an assignment     *)
(* reaches are TeX's.                                                      *)
ScopesAreTrue == ParametersAreTrue /\ CategoriesAreTrue

=============================================================================
