-------------------------------- MODULE Effects --------------------------------
(***************************************************************************)
(* reading/effects.py and reading/effect_summary.py: a macro the reader    *)
(* does not run is read once for what it could write, and only that is in  *)
(* doubt afterwards.  definition_summary reads captured bodies under the   *)
(* meanings of the moment of the call; TeX runs them under the meanings    *)
(* they make for themselves.                                               *)
(*                                                                         *)
(* A body is a sequence of tokens, told apart by `op': "open", "close",    *)
(* "text" (letters and shifts; spaces do nothing), "word" (a control       *)
(* sequence `name'), "define" (\def or \gdef, by the command `by' if that  *)
(* is a name of the model), "let" (a copy of a primitive), "setting"       *)
(* (\globaldefs), "declared" (a command with an effect contract) and       *)
(* "execute" (any primitive only execution can tell the effect of).        *)
(***************************************************************************)
EXTENDS ReaderContext, FiniteSets, SequencesExt

CONSTANTS
  Texts,        (* The bodies of the definitions: meaning |-> tokens.        *)
  Definitions,  (* <<name, meaning>> the source may define.                  *)
  Commands,     (* The names that are commands no macro looks behind.        *)
  Switch,       (* The meaning \newif gives \...true, which sets Target ...  *)
  Target, On,   (* ... to On.                                                *)
  Primitive,    (* What a meaning assignment copies.                         *)
  Contract,     (* The effect summary of the declared command ...            *)
  Required,     (* ... which holds while these names are not redefined.      *)
  NewSetting,   (* What the bodies set \globaldefs to.                       *)
  Outcomes,     (* The meanings source nobody read may leave behind.         *)
  Budget,       (* Tokens and bodies one summary may read.                   *)
  MaxActive,    (* Bodies inside bodies.                                     *)
  MaxSteps      (* Bound on the steps of a behaviour.                        *)

VARIABLE steps

effectVars == <<vars, steps>>

None == "none"
Unknown == [complete |-> FALSE, names |-> {}, prefix |-> {}, registers |-> {}, global |-> TRUE]
Writes(names, registers, global) ==
  [complete |-> TRUE, names |-> names, prefix |-> {}, registers |-> registers, global |-> global]
Pure == Writes({}, {}, FALSE)

union(s, t) ==
  [complete |-> s.complete /\ t.complete, names |-> s.names \cup t.names, prefix |-> s.prefix \cup t.prefix,
   registers |-> s.registers \cup t.registers, global |-> s.global \/ t.global]

Contained(s) == s.names \cup s.prefix

lookup_meaning(n) == Reading(meanings.values[n], MeaningDefault[scope_depth + 1][n])

command_summary(shadowed) ==
  IF \E n \in Required : lookup_meaning(n) # Fallback \/ n \in shadowed THEN Unknown ELSE Contract

(* Mutant of Blocked: a body may call what has been written before.         *)
BlockedBehind(total, forbidden) == forbidden

(* What a body called from here may not depend on. *)
Blocked(total, forbidden) == forbidden \cup Contained(total)

-----------------------------------------------------------------------------
(* definition_summary, with the budget its callers share.                  *)

Result(summary, budget) == [summary |-> summary, budget |-> budget]

(* The effect of a token that is neither a brace nor text nor a macro. *)
TokenEffect(t, written) ==
  CASE t.op = "define" -> IF t.by # None /\ (t.by \in written \/ lookup_meaning(t.by) # Fallback) THEN Unknown
                            ELSE Writes({t.name}, {}, t.global)
    [] t.op = "let" -> Writes({t.name}, {}, FALSE)
    [] t.op = "setting" -> Writes({}, {GlobalDefs}, FALSE)
    [] t.op = "declared" -> command_summary(written)
    [] t.op = "word" /\ t.name \notin written /\ lookup_meaning(t.name) = Switch -> Writes({Target}, {}, FALSE)
    [] OTHER -> Unknown

IsMacro(t, written) ==
  t.op = "word" /\ t.name \notin written /\ lookup_meaning(t.name) \in DOMAIN Texts

RECURSIVE ReadBody(_, _, _, _, _, _), definition_summary(_, _, _, _)

(* The rest of a body, with the effects so far and the open groups.        *)
ReadBody(tokens, total, depth, active, forbidden, budget) ==
  IF tokens = <<>> THEN Result(IF depth = 0 THEN total ELSE Unknown, budget)
  ELSE IF budget <= 0 THEN Result(Unknown, budget)
  ELSE LET t == Head(tokens)
           written == Blocked(total, forbidden)
       IN  CASE t.op = "open" -> ReadBody(Tail(tokens), total, depth + 1, active, forbidden, budget - 1)
             [] t.op = "close" /\ depth > 0 -> ReadBody(Tail(tokens), total, depth - 1, active, forbidden, budget - 1)
             [] t.op = "close" /\ depth = 0 -> Result(Unknown, budget - 1)
             [] t.op \notin {"open", "close"} ->
                  LET r == IF IsMacro(t, written)
                             THEN definition_summary(lookup_meaning(t.name), active, written, budget - 1)
                             ELSE Result(TokenEffect(t, written), budget - 1)
                  IN  IF ~r.summary.complete THEN r
                      ELSE ReadBody(Tail(tokens), union(total, r.summary), depth, active, forbidden, r.budget)

definition_summary(text, active, forbidden, budget) ==
  IF budget <= 0 \/ text \in active \/ Cardinality(active) >= MaxActive
    THEN Result(Unknown, budget - 1)
    ELSE ReadBody(Texts[text], Pure, 0, active \cup {text}, forbidden, budget - 1)

Summary(text) == definition_summary(text, {}, {}, Budget).summary

-----------------------------------------------------------------------------
(* TeX runs the tokens.  A state is [ints, means]; `any' stands for what   *)
(* the summary cannot have foreseen.                                       *)

RECURSIVE Run(_, _, _)

TrueGlobalIn(s, global) == Len(s.means) = 1 \/ ScopeOf(Last(s.ints)[GlobalDefs], global)
Meant(s, n) == Last(s.means)[n]
TrueWrite(s, n, m, global) == [s EXCEPT !.means = TrueAssign(@, n, m, TrueGlobalIn(s, global))]
Anything(s) == { [s EXCEPT !.means = t] : t \in UNION { UnknownGlobally(s.means, {n}, Outcomes) : n \in Names } }

Contracted(s) ==
  { [s EXCEPT !.means = t] : t \in UnknownWrites(s.means, Contained(Contract), Outcomes, Contract.global) }

Ran(s, t, fuel) ==
  CASE t.op = "open" -> {[ints |-> TruePush(s.ints), means |-> TruePush(s.means)]}
    [] t.op = "close" -> {[ints |-> TruePop(s.ints), means |-> TruePop(s.means)]}
    [] t.op = "define" /\ (t.by = None \/ Meant(s, t.by) = Fallback) -> {TrueWrite(s, t.name, t.to, t.global)}
    [] t.op = "let" -> {TrueWrite(s, t.name, Primitive, FALSE)}
    [] t.op = "setting" ->
         {[s EXCEPT !.ints = TrueAssign(@, GlobalDefs, NewSetting, TrueGlobalIn(s, FALSE))]}
    [] t.op = "declared" /\ (\A n \in Required : Meant(s, n) = Fallback) -> Contracted(s)
    [] t.op = "word" /\ Meant(s, t.name) = Switch -> {TrueWrite(s, Target, On, FALSE)}
    [] t.op = "word" /\ Meant(s, t.name) \in DOMAIN Texts -> Run({s}, Texts[Meant(s, t.name)], fuel - 1)
    [] OTHER -> Anything(s)

Run(states, tokens, fuel) ==
  IF fuel = 0 THEN {}
  ELSE IF tokens = <<>> THEN states
  ELSE Run(UNION { Ran(s, Head(tokens), fuel) : s \in states }, Tail(tokens), fuel)

Now == [ints |-> trueInts, means |-> trueMeanings]
Happens(states) == \E s \in states : trueInts' = s.ints /\ trueMeanings' = s.means /\ UNCHANGED trueCats

-----------------------------------------------------------------------------
Counted == steps < MaxSteps /\ steps' = steps + 1

(* TeX runs what the reader retained.  Source without a summary writes      *)
(* only what the guard assumes of it.                                      *)
BoundedTables ==
  { t \in UNION { UnknownGlobally(trueMeanings, {n}, Outcomes) : n \in Names } :
      \A i \in 1..Len(trueMeanings), n \in Names :
         trueMeanings[i][n] \notin Observed => t[i][n] = trueMeanings[i][n] }

Unread ==
  /\ DoubtObserved
  /\ trueInts' \in UnknownWrites(trueInts, Parameters, Settings, TRUE)
  /\ trueMeanings' \in BoundedTables
  /\ UNCHANGED trueCats

(* _deferred: what the summary bounds is in doubt, or everything observed. *)
Defer(s, states) == IF s.complete THEN DoubtWrites(s) /\ Happens(states) ELSE Unread

(* The reader reaches a macro and retains it; its body was captured.        *)
Call(n) ==
  LET text == lookup_meaning(n)
  IN  /\ text \in DOMAIN Texts
      /\ LET s == Summary(text) IN Defer(s, IF s.complete THEN Run({Now}, Texts[text], MaxActive + 2) ELSE {})

(* A macro with parameters, or a meaning nobody knows.                      *)
CallUnknown(n) ==
  /\ n \notin Commands /\ lookup_meaning(n) \notin DOMAIN Texts \cup {Switch}
  /\ Unread

(* A command with an effect contract. *)
Touch == LET s == command_summary({}) IN Defer(s, IF s.complete THEN Contracted(Now) ELSE {})

(* declared_effects: a meaning is copied while the contract holds.          *)
DeclaredEffects ==
  /\ \A n \in Required : lookup_meaning(n) = Fallback
  /\ meanings' = AssignedLocally(meanings, Target, Primitive)
  /\ trueMeanings' = TrueAssign(trueMeanings, Target, Primitive, TrueGlobal(FALSE))
  /\ UNCHANGED <<ints, catcodes, barrier, snapshots, trueInts, trueCats>>

(* A boolean setter is executed. *)
SetBoolean(n) ==
  /\ lookup_meaning(n) = Switch
  /\ meanings' = AssignedLocally(meanings, Target, On)
  /\ trueMeanings' = TrueAssign(trueMeanings, Target, On, TrueGlobal(FALSE))
  /\ UNCHANGED <<ints, catcodes, barrier, snapshots, trueInts, trueCats>>

EffectsInit == Init /\ steps = 0

EffectsNext ==
  /\ Counted
  /\ \/ push_scope \/ pop_scope
     \/ \E v \in Settings : assign_integer(v, FALSE)
     \/ \E d \in Definitions, global \in BOOLEAN : record_meaning(d[1], d[2], global)
     \/ \E n \in Names : Call(n) \/ CallUnknown(n) \/ SetBoolean(n)
     \/ Touch \/ DeclaredEffects

EffectsSpec == EffectsInit /\ [][EffectsNext]_effectVars

===============================================================================
