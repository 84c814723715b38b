------------------------------ MODULE MCExecution ------------------------------
(* For TLC: the parts that read and execute source, in one run.  `part'     *)
(* says which of them a behaviour is about; the others stay as they began.  *)
EXTENDS IntegerParameters

CONSTANTS
  Parts,
  Languages, Sources, Budgets,
  Bodies, Programs, Budget, MaxNesting, MaxStack, MaxStarts

VARIABLES
  part,
  meanings, source, cursor, busy, done, saved, ahead, caught,
  context, sources, hosts, fuel, error, running, outcome, starts

expansionVars == <<meanings, source, cursor, busy, done, saved, ahead, caught>>
programVars == <<context, sources, hosts, fuel, error, running, outcome, starts>>

Expanding == INSTANCE Expansion
Running == INSTANCE Programs WITH MaxDepth <- MaxNesting

-----------------------------------------------------------------------------
(* Expansion: macros with and without delimiters, primitives, and macros   *)
(* that call themselves.                                                   *)

Token(name) == [name |-> name, held |-> FALSE]
Macro(prefix, delimiters, body, brace, long) ==
  [kind |-> "macro", prefix |-> prefix, delimiters |-> delimiters, body |-> body, brace |-> brace, long |-> long]
Simple(kind) == [kind |-> kind, prefix |-> <<>>, delimiters |-> <<>>, body |-> <<"x", "b">>, brace |-> FALSE, long |-> TRUE]
Language(a, b) ==
  [n \in {"{", "}", "x", "y", " ", "par", "a", "b", "ne", "ea", "eof"} |->
     CASE n = "a" -> a [] n = "b" -> b [] n = "ne" -> Simple("noexpand") [] n = "ea" -> Simple("expandafter")
       [] OTHER -> Simple("unexpandable")]
Twice == Language(Macro(<<>>, <<<<>>>>, <<"#1", "#1">>, FALSE, FALSE), Simple("tokens"))
Itself == Language(Macro(<<"x">>, <<<<>>, <<"x">>>>, <<"#2", "a", "#1">>, FALSE, TRUE), Simple("uncertain"))
Delimited == Language(Macro(<<>>, <<<<"x", "x", "y">>>>, <<"#1">>, FALSE, FALSE), Macro(<<>>, <<>>, <<>>, FALSE, TRUE))
ToBrace == Language(Macro(<<>>, <<<<"{">>>>, <<"y", "#1">>, TRUE, TRUE), Macro(<<>>, <<>>, <<"x">>, FALSE, TRUE))

MCLanguages == {Twice, Itself, Delimited, ToBrace}
Texts(A, n) == { [i \in DOMAIN s |-> Token(s[i])] : s \in UNION { [1..k -> A] : k \in 1..n } }
Written(texts) == { [i \in DOMAIN s |-> Token(s[i])] : s \in texts }
MCSources == [l \in MCLanguages |->
  CASE l = Twice -> Texts({"a", "{", "ne", "ea"}, 3) \cup Written(
         {<<"ea", "a", "ne", "b">>, <<"ea", "a", "ne", "a">>, <<"ea", "ea", "ea", "a", "b">>, <<"a", "{", "par", "}">>, <<"a", "par">>,
          <<"b", "a", "}">>, <<"ea", "a", "b">>, <<"a", "{", "x", "}">>, <<"a", "{", "{", "}", "}">>})
    [] l = Itself -> Written(
         {<<"a", "x", " ", "y", "x">>, <<"a", "x", "{", "y", "}", "x">>, <<"a", "x", "y", "{", "x", "}", "x">>,
          <<"a", "x", "y", "}", "x">>, <<"a", "b">>, <<"b">>, <<"a", "x", "x", "{", "}", "{", "}", "x">>})
    [] l = Delimited -> Written(
         {<<"a", "x", "x", "x", "y">>, <<"a", "x", "par">>, <<"a", "x", "{", "x", "y">>, <<"a", "b", "x", "x", "y">>,
          <<"ea", "a", "b", "x", "x", "y">>, <<"a", "{", "x", "x", "y", "}", "x", "x", "y">>,
          <<"a", "ne", "b", "x", "x", "y">>})
    [] l = ToBrace -> Texts({"a", "b", "{"}, 3) \cup Written(
         {<<"a", "x", "}", "{">>, <<"ea", "a", "b", "{">>, <<"ea", "y", "a", "{">>})]
MCBudgets == [l \in MCLanguages |-> CASE l = Twice -> 10 [] l = ToBrace -> 9 [] OTHER -> 17]

-----------------------------------------------------------------------------
(* Programs that nest, fail at every depth, call themselves and rescan.    *)

Item(what, name, value) == [what |-> what, name |-> name, value |-> value]
Do(what) == Item(what, "none", 0)
Put(value) == Item("set", "none", value)
Run(what, name) == Item(what, name, 0)
MCPrograms == {"nest", "loop", "deep", "self", "scans", "scanbad", "scanuse", "conds", "over", "open", "swap", "rescan", "tail", "spin"}
MCBodies == [n \in MCPrograms \cup {"plain", "fails", "defs", "late", "scancase", "rehook"} |->
  CASE n = "plain" -> <<Put(1)>>
    [] n = "defs" -> <<Put(2), Put(1)>>
    [] n = "nest" -> <<Do("begin"), Put(2), Run("use", "open"), Do("end"), Do("end")>>
    [] n = "open" -> <<Put(1), Do("begin"), Put(2)>>
    [] n = "loop" -> <<Put(2), Run("call", "loop")>>
    [] n = "fails" -> <<Put(2), Do("bad")>>
    [] n = "deep" -> <<Do("begin"), Run("use", "late"), Do("end")>>
    [] n = "late" -> <<Put(1), Run("use", "fails")>>
    [] n = "self" -> <<Put(1), Run("use", "self")>>
    [] n = "scans" -> <<Put(2), Run("scan", "defs"), Run("insert", "plain"), Do("text")>>
    [] n = "scanbad" -> <<Run("call", "plain"), Run("scan", "fails")>>
    [] n = "scanuse" -> <<Run("scan", "late")>>
    [] n = "scancase" -> <<Put(1), Run("scan", "tail")>>
    [] n = "conds" -> <<Do("if"), Put(1), Do("fi"), Run("use", "tail")>>
    [] n = "tail" -> <<Put(1), Run("insert", "plain")>>
    [] n = "swap" -> <<Do("end"), Do("begin")>>
    [] n = "rescan" -> <<Run("use", "rehook")>>
    [] n = "rehook" -> <<Run("scan", "rescan")>>
    [] n = "spin" -> <<Run("call", "spin")>>
    [] n = "over" -> <<Do("if"), Do("begin")>>]

-----------------------------------------------------------------------------
MCInit ==
  /\ part \in Parts
  /\ Init /\ Expanding!ExpansionInit /\ Running!ProgramsInit
  /\ part # "parameters" => truth = <<[k \in Parameters |-> InitialValue]>>
  /\ part # "expansion" => meanings = Twice /\ source = <<Token("a")>>

MCNext ==
  \/ part = "parameters" /\ Next /\ UNCHANGED <<part, expansionVars, programVars>>
  \/ part = "expansion" /\ Expanding!ExpansionNext /\ UNCHANGED <<part, vars, programVars>>
  \/ part = "programs" /\ Running!ProgramsNext /\ UNCHANGED <<part, vars, expansionVars>>

MCSpec ==
  /\ MCInit /\ [][MCNext]_<<part, vars, expansionVars, programVars>>
  /\ (part = "expansion" => Expanding!Reading)
  /\ Running!ProgramsFair

-----------------------------------------------------------------------------
(* The cursor's fields, and those of the running programs, have their types. *)
PartsTypeOK == (part = "expansion" => Expanding!ExpansionTypeOK) /\ (part = "programs" => Running!ProgramsTypeOK)

(* What is still to be read is TeX's input, and an expansion fails only for *)
(* a reason TeX has too.                                                    *)
ExpandsAsTeX == part = "expansion" => Expanding!InputIsTeX /\ Expanding!FailsForCause

(* A token that \noexpand holds is held for one reading. *)
HeldOnce == Expanding!HeldOnce

(* A program is published whole or not at all. *)
AllOrNothing == part = "programs" => Running!AllOrNothing

(* No two generated sources have the same coordinates. *)
OriginsDistinct == part = "programs" => Running!OriginsDistinct

(* Nested programs share one budget. *)
SharedBudget == part = "programs" => Running!SharedBudget

(* Every failure of a program is an issue the reader expects. *)
FailsAsIssue == Running!FailsAsIssue

(* Every expansion and every program ends. *)
AllEnds == (part = "expansion" => Expanding!Ends) /\ Running!ProgramsEnd
==============================================================================
