--------------------------- MODULE MCReaderContext ---------------------------
(* For TLC: the effect summaries a contract of resources/bindings can state *)
(* about the names and the parameter of the model, where a name is written *)
(* by itself or covered by a namespace prefix; and, as another part of the *)
(* same run, Effects, where the summaries are computed from captured       *)
(* bodies.                                                                 *)
EXTENDS ReaderContext, TLC

VARIABLES part, steps

Summary(names, prefix, registers, global) ==
  [names |-> names, prefix |-> prefix, registers |-> registers, global |-> global]

(* Both signs of \globaldefs: a negative one makes every assignment local. *)
MCSettings == {-1, 0, 1}

MCSummaries ==
  UNION { { Summary(Names, {}, {}, global), Summary({}, Names, {}, global),
            Summary({}, {}, {GlobalDefs}, global) } : global \in BOOLEAN }

-----------------------------------------------------------------------------
(* Bodies that define and call each other, open groups, depend on \def, on *)
(* the contract's prerequisite and on \globaldefs.                         *)
Token(op, name, to, global, by) == [op |-> op, name |-> name, to |-> to, global |-> global, by |-> by]
Word(name) == Token("word", name, "", FALSE, "none")
Plainly(op) == Token(op, "", "", FALSE, "none")
Define(name, to) == Token("define", name, to, FALSE, "def")
GlobalDefine(name, to) == Token("define", name, to, TRUE, "none")

MCTexts == [
  leaf |-> <<>>,
  defb |-> <<Define("b", "leaf")>>,
  defa |-> <<Define("a", "leaf")>>,
  group |-> <<Plainly("open"), GlobalDefine("b", "leaf"), Plainly("close")>>,
  calls |-> <<Word("b"), Word("a")>>,
  sets |-> <<Word("sw"), Word("b")>>,
  redef |-> <<Define("def", "leaf"), Define("b", "leaf")>>,
  setting |-> <<Plainly("setting"), GlobalDefine("b", "leaf")>>,
  declared |-> <<Define("a", "leaf"), Plainly("declared")>>,
  letb |-> <<Token("let", "b", "", FALSE, "none"), Plainly("declared")>>,
  opened |-> <<Plainly("open"), Word("sw")>>,
  typeset |-> <<Word("sw"), Plainly("text")>>]

MCDefinitions ==
  ({"a"} \X {"defb", "group", "calls", "sets", "redef", "setting", "declared", "letb", "opened", "typeset", "args"})
    \cup ({"b"} \X {"leaf", "defa", "calls", "sets"}) \cup {<<"sw", "switch">>}

MCContract == [complete |-> TRUE, names |-> {}, prefix |-> {"b"}, registers |-> {}, global |-> FALSE]

(* \globaldefs is never positive here: the summaries ignore it.            *)
Bodies == INSTANCE Effects WITH
  Texts <- MCTexts, Definitions <- MCDefinitions, Commands <- {"def"}, Names <- {"a", "b", "sw", "def"},
  Meanings <- DOMAIN MCTexts \cup {"args", "switch", "on", "primitive", "fallback"},
  Observed <- {"switch", "on", "primitive"}, Fallback <- "fallback", Outcomes <- {"leaf", "fallback"},
  Switch <- "switch", Target <- "b", On <- "on", Primitive <- "primitive",
  Contract <- MCContract, Required <- {"a"}, Settings <- {-1, 0}, NewSetting <- -1,
  Summaries <- {}, Budget <- 6, MaxActive <- 3, MaxSteps <- 4, MaxDepth <- 1

-----------------------------------------------------------------------------
MCInit ==
  \/ part = "context" /\ Init /\ steps = 0
  \/ part = "effects" /\ Bodies!EffectsInit

MCNext ==
  \/ part = "context" /\ Next /\ UNCHANGED <<part, steps>>
  \/ part = "effects" /\ Bodies!EffectsNext /\ UNCHANGED part

MCSpec == MCInit /\ [][MCNext]_<<part, steps, vars>>

(* The scopes of every store, and TeX's, are those of the open groups. *)
ScopedTypeOK == ScopesAligned /\ (IF part = "context" THEN TypeOK ELSE Bodies!TypeOK)

(* The category codes are interchangeable. *)
MCSymmetry == Permutations(Categories)

=============================================================================
