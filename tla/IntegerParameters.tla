-------------------------- MODULE IntegerParameters --------------------------
(***************************************************************************)
(* engine/parameters.py: the scoped integer parameters and count registers *)
(* of a document, with the reads of engine/primitives/parameters.py and    *)
(* registers.py.  `truth' is no variable of the program: it is TeX's state *)
(* while the same source runs, including the writes of source the reader   *)
(* retained without executing.                                             *)
(***************************************************************************)
EXTENDS SaveJournal

CONSTANTS
  Parameters,   (* The names of the parameters and registers.             *)
  Integers,     (* The values an assignment can give.                     *)
  Preset,       (* The parameters IntegerParameters.__init__ establishes. *)
  InitialValue, (* What TeX's primitive initialization gives every key.   *)
  Initex,       (* primitive_initial_state of the reader context.         *)
  MaxDepth      (* Bound on the open groups.                              *)

ASSUME ParametersAssumption ==
  /\ Preset \subseteq Parameters
  /\ Plain(Integers) /\ InitialValue \in Integers
  /\ Initex \in BOOLEAN /\ MaxDepth \in Nat

VARIABLES
  ints,   (* The store: current values and one journal per open group. *)
  truth   (* TeX's state: one table per level.                         *)

vars == <<ints, truth>>

TypeOK ==
  /\ ints \in Stores(Parameters, Integers)
  /\ truth \in TruthTables(Parameters, Integers)
  /\ Len(truth) = Depth(ints) + 1
  /\ Depth(ints) <= MaxDepth

(* Without an explicit primitive initial state, a key the program has not  *)
(* written may have any value a format gave it.                            *)
Init ==
  /\ ints = [values |-> [k \in Parameters |-> IF k \in Preset THEN InitialValue ELSE Absent],
             scopes |-> <<>>]
  /\ \E table \in [Parameters -> Integers] :
       /\ \A k \in Parameters : Initex \/ k \in Preset => table[k] = InitialValue
       /\ truth = <<table>>

(* read_cell / internal_value: an absent key raises, or reads as the       *)
(* primitive initial value in a context with an explicit initial state.    *)
AbsentReads == IF Initex THEN InitialValue ELSE Uncertain
Read(k) == Reading(ints.values[k], AbsentReads)

-----------------------------------------------------------------------------
Push ==
  /\ Depth(ints) < MaxDepth
  /\ ints' = Pushed(ints)
  /\ truth' = TruePush(truth)

Pop ==
  /\ Depth(ints) > 0
  /\ ints' = Popped(ints)
  /\ truth' = TruePop(truth)

Assign(k, v, global) ==
  /\ ints' = Assigned(ints, k, v, global)
  /\ truth' = TrueAssign(truth, k, v, global)

(* The keys an invalidation visits: those with a value, and for a global   *)
(* one those some journal holds; `names' narrows them, None does not.      *)
Visited(names, global) ==
  { k \in names : \/ ints.values[k] # Absent
                  \/ global /\ \E i \in 1..Depth(ints) : ints.scopes[i][k] # NotSaved }

(* The source that was retained instead of executed wrote some of the      *)
(* names, in the scope its effect summary bounds.                          *)
Invalidate(names, global) ==
  /\ ints' = Doubted(ints, Visited(names, global), global)
  /\ truth' \in UnknownWrites(truth, names, Integers, global)

Next ==
  \/ Push
  \/ Pop
  \/ \E k \in Parameters, v \in Integers, global \in BOOLEAN : Assign(k, v, global)
  \/ \E names \in SUBSET Parameters, global \in BOOLEAN : Invalidate(names, global)

Spec == Init /\ [][Next]_vars

-----------------------------------------------------------------------------
Default == [i \in 1..(Depth(ints) + 1) |-> [k \in Parameters |-> AbsentReads]]

(* An established read is never stale, now or after any number of group    *)
(* ends: whatever the parameter store answers is what TeX would answer.    *)
(* It is the promise of parameters.py ("Unexecuted writes invalidate       *)
(* values and saved outer values using their actual write scope").         *)
ReadsAreTrue == Sound(ints, truth, Default)

(* State that is unavailable or uncertain never becomes zero: a key that   *)
(* reads as its primitive initial value without a stored value has not     *)
(* been written by anybody, the unexecuted source included.                *)
UncertainNeverBecomesInitial ==
  \A k \in Parameters :
     ints.values[k] = Absent /\ Read(k) = InitialValue => truth[Len(truth)][k] = InitialValue

=============================================================================
