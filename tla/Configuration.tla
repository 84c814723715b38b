---------------------------- MODULE Configuration ----------------------------
(***************************************************************************)
(* Key/value configuration (reading/configuration.py): \lstset and the     *)
(* like assign options that decide how later source is read, \lstdefinestyle *)
(* stores a recipe of them under a name.  A recipe is kept unresolved and  *)
(* applied, with the recipes it names, where it is used: depth first, on   *)
(* an explicit stack, each pass of the loop an action here.                *)
(*                                                                         *)
(* true and trueStyles are not in the program: the option tables and       *)
(* recipes an implementation has that executes the same commands, as       *)
(* stacks of complete tables (SaveJournal).                                *)
(***************************************************************************)
EXTENDS SaveJournal, SequencesExt

CONSTANTS
  Styles,       (* Names of recipes.                                          *)
  Lists,        (* The option lists a command can hold.                       *)
  Exclusive,    (* The contract's exclusive_keys.                             *)
  Known,        (* Its keys, those that affect reading and the others.        *)
  MaxCommands,  (* Bound on the commands of a behaviour.                      *)
  MaxGroups     (* Bound on the open groups.                                  *)

VARIABLES
  contract,     (* assignment and definition: whether each is global; and     *)
                (* whether what the contract does not name is preserved.      *)
  values,       (* The option table of the namespace, with its journals.      *)
  styles,       (* The recipes, with their journals.                          *)
  stack,        (* The lists being applied, each with the recipes around it.  *)
  result,       (* The table under construction.                              *)
  asked,        (* The list of the command being resolved.                    *)
  status,       (* "idle", "resolving" or "refused".                          *)
  commands,     (* The commands begun, up to MaxCommands.                     *)
  true, trueStyles

vars == <<contract, values, styles, stack, result, asked, status, commands, true, trueStyles>>

(* An entry is an option with a value, or a use of a recipe. *)
Use(name) == [key |-> "style", value |-> name]
Option(key, value) == [key |-> key, value |-> value]

Slot == {"options"}
NoOptions == [key \in {} |-> ""]
NoRecipe == "no recipe"
depth == Depth(values)

Init ==
  /\ contract \in [assignment: BOOLEAN, definition: BOOLEAN, preserve: BOOLEAN]
  /\ values = [values |-> [n \in Slot |-> Absent], scopes |-> <<>>]
  /\ styles = [values |-> [n \in Styles |-> Absent], scopes |-> <<>>]
  /\ stack = <<>> /\ result = NoOptions /\ asked = <<>>
  /\ status = "idle"
  /\ commands = 0
  /\ true = <<[n \in Slot |-> NoOptions]>>
  /\ trueStyles = <<[n \in Styles |-> NoRecipe]>>

-----------------------------------------------------------------------------
(* What a list does to a table, entry by entry. *)
Rivals(key) == UNION { group \in Exclusive : key \in group }

With(table, e) ==
  [key \in (DOMAIN table \ Rivals(e.key)) \cup {e.key} |->
     IF key = e.key THEN e.value ELSE table[key]]

(* The list with every recipe written out, n levels deep. *)
Written(recipes) ==
  LET write[n \in 0..Cardinality(Styles), list \in Lists] ==
        FoldLeft(LAMBDA out, e :
                   out \o IF e.key # "style" THEN <<e>>
                          ELSE IF n = 0 \/ recipes[e.value] = NoRecipe THEN <<e>>
                          ELSE write[n - 1, recipes[e.value]],
                 <<>>, list)
  IN  write

(* The table an implementation has afterwards: an option is in it with the *)
(* value it got last, unless a rival of it came later.                     *)
Configured(table, recipes, list) ==
  LET out == Written(recipes)[Cardinality(Styles), list]
      at(key) == { i \in DOMAIN out : out[i].key = key }
      latest(key) == IF at(key) = {} THEN 0 ELSE Max(at(key))
      kept == { key \in DOMAIN table \cup { out[i].key : i \in DOMAIN out } :
                  \A rival \in Rivals(key) : latest(rival) <= latest(key) }
  IN  [key \in kept |-> IF at(key) = {} THEN table[key] ELSE out[latest(key)].value]

-----------------------------------------------------------------------------
Begin == status = "idle" /\ commands < MaxCommands /\ commands' = commands + 1

Refuse ==
  /\ status' = "refused"
  /\ UNCHANGED <<contract, values, styles, stack, result, asked, commands, true, trueStyles>>

(* define_configuration: the recipe is stored as it is. *)
DefineStyle(name, list) ==
  /\ Begin
  /\ styles' = Assigned(styles, name, list, contract.definition)
  /\ trueStyles' = TrueAssign(trueStyles, name, list, contract.definition)
  /\ UNCHANGED <<contract, values, stack, result, asked, status, true>>

(* resolve starts from the current table of the namespace. *)
Configure(list) ==
  /\ Begin
  /\ asked' = list
  /\ result' = Reading(values.values["options"], NoOptions)
  /\ stack' = <<[rest |-> list, chain |-> {}]>>
  /\ status' = "resolving"
  /\ UNCHANGED <<contract, values, styles, true, trueStyles>>

Resolving == status = "resolving" /\ stack # <<>>
Applying == Resolving /\ Last(stack).rest # <<>>
Entry == Head(Last(stack).rest)
Passed == [stack EXCEPT ![Len(stack)].rest = Tail(@)]

Exhausted ==
  /\ Resolving /\ Last(stack).rest = <<>>
  /\ stack' = Front(stack)
  /\ UNCHANGED <<contract, values, styles, result, asked, status, commands, true, trueStyles>>

(* Mutant of Cyclic: only a recipe that names itself is a cycle. *)
CyclicDirectly == Len(stack) > 1 /\ stack[Len(stack)].rest = styles.values[Entry.value]

Cyclic == Entry.value \in Last(stack).chain

(* A cycle, or a recipe that was not captured, is refused. *)
StyleRefused ==
  /\ Applying /\ Entry.key = "style"
  /\ Cyclic \/ styles.values[Entry.value] = Absent
  /\ Refuse

StyleEntered ==
  /\ Applying /\ Entry.key = "style"
  /\ ~Cyclic /\ styles.values[Entry.value] # Absent
  /\ stack' = Append(Passed, [rest |-> styles.values[Entry.value],
                              chain |-> Last(stack).chain \cup {Entry.value}])
  /\ UNCHANGED <<contract, values, styles, result, asked, status, commands, true, trueStyles>>

OptionRefused ==
  /\ Applying /\ Entry.key # "style"
  /\ Entry.key \notin Known /\ ~contract.preserve
  /\ Refuse

OptionApplied ==
  /\ Applying /\ Entry.key # "style"
  /\ Entry.key \in Known \/ contract.preserve
  /\ result' = With(result, Entry)
  /\ stack' = Passed
  /\ UNCHANGED <<contract, values, styles, asked, status, commands, true, trueStyles>>

(* The table is stored whole; an environment's own options are not stored. *)
Store ==
  /\ status = "resolving" /\ stack = <<>>
  /\ status' = "idle"
  /\ \/ /\ values' = Assigned(values, "options", result, contract.assignment)
        /\ true' = TrueAssign(true, "options",
                              Configured(Last(true)["options"], Last(trueStyles), asked),
                              contract.assignment)
     \/ UNCHANGED <<values, true>>
  /\ UNCHANGED <<contract, styles, stack, result, asked, commands, trueStyles>>

BeginGroup ==
  /\ status = "idle" /\ depth < MaxGroups
  /\ values' = Pushed(values) /\ styles' = Pushed(styles)
  /\ true' = TruePush(true) /\ trueStyles' = TruePush(trueStyles)
  /\ UNCHANGED <<contract, stack, result, asked, status, commands>>

EndGroup ==
  /\ status = "idle" /\ depth > 0
  /\ values' = Popped(values) /\ styles' = Popped(styles)
  /\ true' = TruePop(true) /\ trueStyles' = TruePop(trueStyles)
  /\ UNCHANGED <<contract, stack, result, asked, status, commands>>

Next ==
  \/ \E name \in Styles, list \in Lists : DefineStyle(name, list)
  \/ \E list \in Lists : Configure(list)
  \/ Exhausted \/ StyleRefused \/ StyleEntered \/ OptionRefused \/ OptionApplied \/ Store
  \/ BeginGroup \/ EndGroup

Spec == Init /\ [][Next]_vars

-----------------------------------------------------------------------------
Levels(K, d) == [i \in 1..(depth + 1) |-> [k \in K |-> d]]

(* Mutual recursion of recipes ends, and the options in effect are those of *)
(* an executing implementation, now and after any number of group ends.    *)
ConfigurationsAreTrue ==
  /\ Len(stack) <= Cardinality(Styles) + 1
  /\ status = "idle" => Sound(values, true, Levels(Slot, NoOptions))
  /\ Sound(styles, trueStyles, Levels(Styles, NoRecipe))

(* An option is refused, or a recipe, exactly when it cannot be applied:    *)
(* with every recipe written out a use of one is left, or an option that    *)
(* the contract does not know and need not preserve.                        *)
RefusedForCause ==
  LET left == Written(Last(trueStyles))[Cardinality(Styles), asked]
  IN  status = "refused" =>
        \E i \in DOMAIN left : \/ left[i].key = "style"
                               \/ left[i].key \notin Known /\ ~contract.preserve
=============================================================================
