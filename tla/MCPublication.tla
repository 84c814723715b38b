----------------------------- MODULE MCPublication -----------------------------
(* For TLC: the publication of outputs and, in the same run, the parts of   *)
(* the engine that stand alone.  `part' says which of them a behaviour is   *)
(* about; the others stay as they began.                                   *)
EXTENDS Publication

CONSTANTS
  Unity, Limit, MaxInteger, MaxOps,
  Length, MaxItems, MaxQueries,
  Artifacts, Master, MaxPieces, MaxSteps,
  MaxNesting, NodeBudget

VARIABLES
  part,
  registers, mag, prepared, refused, ops, true, failed,
  items, closed, answer, meant, queries,
  pieces, discarded, accounts, edits,
  build, before, vocabulary, left

arithmeticVars == <<registers, mag, prepared, refused, ops, true, failed>>
coverageVars == <<items, closed, answer, meant, queries>>
locationVars == <<pieces, discarded, accounts, edits>>
contentVars == <<build, before, vocabulary, left>>
otherVars == <<arithmeticVars, coverageVars, locationVars, contentVars>>

-----------------------------------------------------------------------------
(* Octal, hexadecimal and decimal constants, missing and out of range.     *)
Number(negative, radix, digits) == [negative |-> negative, radix |-> radix, digits |-> digits]
MCNumbers ==
  { Number(n, r, d) : n \in BOOLEAN, r \in {8, 16}, d \in {<<3>>, <<1, 9>>, <<>>, <<7, 15>>} }
    \cup {Number(FALSE, 0, <<>>), Number(FALSE, 10, <<0>>)}

Constant(negative, whole, fraction, unit, physical) ==
  [negative |-> negative, whole |-> whole, fraction |-> fraction, unit |-> unit, physical |-> physical]
MCDimensions ==
  { Constant(n, w, f, u, p) : n \in BOOLEAN, w \in {1, 7}, f \in {<<>>, <<9, 9>>},
                              u \in {"pt", "dd", "sp"}, p \in BOOLEAN }
    \cup { Constant(n, w, f, "register", FALSE) : n \in BOOLEAN, w \in {0, 1}, f \in {<<>>, <<5>>} }
MCWidths == {Constant(FALSE, 1, <<5>>, "pt", FALSE), Constant(TRUE, 7, <<>>, "pt", TRUE)}
Stretch(negative, whole, fraction, order) ==
  [negative |-> negative, whole |-> whole, fraction |-> fraction, order |-> order]
MCStretches == { Stretch(FALSE, w, <<>>, o) : w \in {0, 4}, o \in {0, 1} } \cup {Stretch(TRUE, 1, <<9>>, 2)}

Numeric == INSTANCE Arithmetic WITH
  Numbers <- MCNumbers, Dimensions <- MCDimensions, Widths <- MCWidths, Stretches <- MCStretches,
  Magnifications <- {0, 1200}

Queries == INSTANCE Coverage
Located == INSTANCE Locations

-----------------------------------------------------------------------------
(* What a document of a content build may say: text, paragraphs and boxes, *)
(* where hooks change the mode; registers; math; alignments with templates *)
(* of text and of math; writes and streams; links and anchors.             *)
NoHooks == [h \in {"everypar", "everyhbox", "everyvbox", "everymath", "everydisplay", "everycr"} |-> <<>>]
Document(commands, length, opening, hooks, columns, floats) ==
  [commands |-> commands, length |-> length, opening |-> opening, hooks |-> hooks, columns |-> columns,
   floats |-> floats]

MCMacros == [m \in {"row"} |-> <<"a", "&">>]
Template(token) == [head |-> <<token>>, tail |-> <<token>>]
MCColumns == <<Template("x"), Template("$")>>

MCDocuments == {
  Document({"a", "sp", "par", "{", "}", "hbox", "vbox", "unskip"}, 5, <<>>,
           [NoHooks EXCEPT !["everypar"] = <<"x">>, !["everyhbox"] = <<"x">>], <<>>, {}),
  Document({"a", "hskip", "vskip", "indent", "noindent", "hrule", "vrule", "space", "kern", "penalty", "unkern", "}"},
           4, <<"vbox">>, [NoHooks EXCEPT !["everypar"] = <<"par">>], <<>>, {}),
  Document({"a", "setbox", "}", "box", "unhbox", "copy", "lastbox"}, 5, <<"setbox", "a", "}">>, NoHooks, <<>>, {}),
  Document({"a", "{", "setvbox", "}", "unvbox", "unvcopy", "unhcopy", "hbox", "vtop", "setlast", "setfloat", "gsetbox"},
           5, <<"afterassignment">>, NoHooks, <<>>, {1}),
  Document({"a", "$", "$$", "{", "}", "sup{", "over", "choice"}, 6, <<>>,
           [NoHooks EXCEPT !["everymath"] = <<"a">>], <<>>, {}),
  Document({"a", "supa", "sub{", "left", "right", "mathop", "limits", "vcenter", "}", "style", "raise", "aftergroup",
            "begingroup", "endgroup"}, 4, <<"$">>, NoHooks, <<>>, {}),
  Document({"a", "&", "cr", "crcr", "omit", "noalign", "}", "row", "sp", "{"}, 5, <<"halign">>, NoHooks, MCColumns, {}),
  Document({"a", "&", "cr", "}", "halign", "vbox"}, 6, <<"halign">>,
           [NoHooks EXCEPT !["everycr"] = <<"noalign", "hrule", "}">>], MCColumns, {}),
  Document({"write", "iwrite", "open", "iopen", "close", "iclose", "ship", "}", "reinput"}, 5, <<>>, NoHooks, <<>>, {}),
  Document({"write", "setbox", "hbox", "}", "shipcopy", "leaders", "ship", "insert", "vadjust", "mark"}, 5, <<>>,
           NoHooks, <<>>, {}),
  Document({"link", "linkend", "anchor", "anchorend", "driver", "hbox", "}", "par", "a"}, 5, <<"driver">>, NoHooks,
           <<>>, {}) }

Typeset == INSTANCE Content WITH
  attempt <- before, Limit <- NodeBudget, Macros <- MCMacros, Documents <- MCDocuments

-----------------------------------------------------------------------------
MCInit ==
  /\ part \in {"publication", "arithmetic", "coverage", "locations", "content"}
  /\ Init /\ Numeric!Init /\ Queries!Init /\ Located!Init /\ Typeset!ContentInit
  /\ part # "publication" => attempt = 0
  /\ part # "content" => "choice" \in vocabulary

MCNext ==
  \/ part = "publication" /\ Next /\ UNCHANGED <<part, otherVars>>
  \/ part = "arithmetic" /\ Numeric!Next /\ UNCHANGED <<part, vars, coverageVars, locationVars, contentVars>>
  \/ part = "coverage" /\ Queries!Next /\ UNCHANGED <<part, vars, arithmeticVars, locationVars, contentVars>>
  \/ part = "locations" /\ Located!Next /\ UNCHANGED <<part, vars, arithmeticVars, coverageVars, contentVars>>
  \/ part = "content" /\ Typeset!ContentNext
     /\ UNCHANGED <<part, vars, arithmeticVars, coverageVars, locationVars>>

MCSpec == MCInit /\ [][MCNext]_<<part, vars, otherVars>>

(* A command on quantities leaves what TeX computes, or is refused where    *)
(* TeX reports an error; and what is printed reads back.                    *)
NumbersAsTeX == part = "arithmetic" => Numeric!NumbersAsTeX /\ Numeric!PrintsReadBack

(* What a content build has made is what its commands say. *)
ContentIsTrue == part = "content" => Typeset!ContentTypeOK /\ Typeset!ContentIsTrue

(* What a query says of the source is what reading established, and what   *)
(* the maps, tombstones and the ledger say of an interval is where its     *)
(* characters went.                                                        *)
SourceIsAccounted ==
  /\ part = "coverage" => Queries!CoverageIsTrue
  /\ part = "locations" => Located!LocationsAreTrue
===============================================================================
