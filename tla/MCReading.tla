------------------------------- MODULE MCReading -------------------------------
(* For TLC: the character reader, the scanners, the input streams and the   *)
(* stores whose default may come into doubt, in one run.  `part' says which *)
(* of them a behaviour is about; the others stay as they began.             *)
EXTENDS TokenRegisters, StateCells, FiniteSets

CONSTANTS
  Streams, Files, Extended, MaxTokens, MaxSteps,
  Alphabets, Lengths, Terminators, MaxParameters, MaxValue,
  Toggled, Paired, NoEndline, Texts, Tables, Endlines, Wild, MaxChanges

VARIABLES
  part,
  initial, streams, uncertain, trueStreams, answer, saved, steps,
  task, terminator, input, scan,
  text, cats, endline, mouth, position, failure, pending, last, checkpoint, events, changes, since

streamVars == <<initial, streams, uncertain, trueStreams, answer, saved, steps>>
scannerVars == <<task, terminator, input, scan>>
mouthVars == <<text, cats, endline, mouth, position, failure, pending, last, checkpoint, events, changes, since>>

InputStreams == INSTANCE ReadStreams
Scanning == INSTANCE Scanners
Characters == INSTANCE Mouth WITH saved <- checkpoint

-----------------------------------------------------------------------------
(* Two files, one of them with unbalanced braces, behind three names.      *)

MCFiles == [n \in {"a.tex", "b"} |->
  IF n = "b" THEN <<"x", "/", "{", "y", "/", "}", "}", "x", "/", "/">> ELSE <<"x", "x", "x", "x", "/", "{">>]
MCExtended == [n \in {"a", "c", "b"} |-> CASE n = "a" -> "a.tex" [] n = "b" -> "b.tex" [] OTHER -> "c.tex"]

(* Every list of tokens that a scanner tells apart, up to its length. *)
MCAlphabets == [t \in {"definition", "literal", "collect", "math", "command", "number", "options"} |->
  CASE t = "definition" -> {"{", "}", "#", "1", "2", "cs"}
    [] t = "literal" -> {"a", "b", "A", "ignored", "cs"}
    [] t = "collect" -> {"begin", "end", "{", "}", "x", " "}
    [] t = "math" -> {"$", "{", "}", "x"}
    [] t = "command" -> {"{", "}", "[", "]", "odd[", "*", " "}
    [] t = "number" -> {"=", "-", " ", "1", "2", "x"}
    [] t = "options" -> {",", "=", "{", "}", "x"}]
MCLengths == [t \in DOMAIN MCAlphabets |-> IF t \in {"definition", "math", "command"} THEN 5 ELSE 6]
MCTerminators == {<<"a", "a", "b">>, <<"a", "b", "a", "b">>, <<"a", "b", "a", "a", "b">>, <<"a", "A">>}

(* Short files, and longer ones in which a converted character is itself   *)
(* an escape, a superscript, a space or a line end.                        *)
MCToggled == [c \in {"M", "d", "hat", "sp", "esc", "ret"} |->
  CASE c = "M" -> "ret" [] c = "ret" -> "M" [] OTHER -> "oth"]
MCPaired == [p \in {<<"d", "d">>} |-> "hat"]
Characters0 == {"M", "d", "hat", "esc", "sp", "nl"}
MCTexts ==
  UNION { [1..n -> Characters0] : n \in 0..2 }
    \cup { <<"hat", "hat", x, y>> : x, y \in {"M", "d", "hat", "esc"} }
    \cup { <<"esc", "hat", "hat", x, y>> : x \in {"M", "d"}, y \in {"d", "nl", "sp"} }
    \cup {<<"hat", "hat", "d", "d", "hat", "M">>, <<"d", "sp", "sp", "nl", "M">>, <<"esc", "d", "M", "sp", "d">>,
          <<"M", "nl", "nl", "d">>, <<"d", "M", "nl", "sp", "d">>, <<"esc", "d", "M", "nl", "d">>,
          <<"d", "nl", "sp", "nl", "M">>}
MCTables == { [c \in Characters0 \cup {"ret", "oth", "par"} |->
   CASE c = "M" -> w [] c \in {"d", "par"} -> "letter" [] c = "hat" -> "superscript" [] c = "esc" -> "escape"
     [] c = "sp" -> "space" [] c = "ret" -> "eol" [] OTHER -> "other"] : w \in {"letter", "comment", "invalid"} }

-----------------------------------------------------------------------------
MCInit ==
  /\ part \in {"tokens", "cells", "streams", "scanners", "mouth"}
  /\ Init /\ CellsInit /\ InputStreams!StreamsInit /\ Scanning!ScannersInit /\ Characters!MouthInit
  /\ part # "streams" => initial
  /\ part # "scanners" => task = "math"
  /\ part # "mouth" => text = <<>> /\ cats["M"] = "letter" /\ endline = NoEndline

MCNext ==
  \/ part = "tokens" /\ Next /\ UNCHANGED <<part, cellVars, streamVars, scannerVars, mouthVars>>
  \/ part = "cells" /\ CellsNext /\ UNCHANGED <<part, vars, streamVars, scannerVars, mouthVars>>
  \/ part = "streams" /\ InputStreams!StreamsNext /\ UNCHANGED <<part, vars, cellVars, scannerVars, mouthVars>>
  \/ part = "scanners" /\ Scanning!ScannersNext /\ UNCHANGED <<part, vars, cellVars, streamVars, mouthVars>>
  \/ part = "mouth" /\ Characters!MouthNext /\ UNCHANGED <<part, vars, cellVars, streamVars, scannerVars>>

MCSpec == MCInit /\ [][MCNext]_<<part, vars, cellVars, streamVars, scannerVars, mouthVars>>

-----------------------------------------------------------------------------
(* Every part's variables have their types. *)
TypesOK ==
  CASE part = "tokens" -> TypeOK
    [] part = "cells" -> CellsTypeOK /\ SlotsAreShared
    [] part = "streams" -> InputStreams!StreamsTypeOK
    [] part = "mouth" -> Characters!MouthTypeOK
    [] OTHER -> TRUE

(* An established stream is in TeX's state, and every reading is TeX's. *)
StreamsAreTrue == part = "streams" => InputStreams!StreamsAreTrue /\ InputStreams!ReadingsAreTrue

(* Each scanner finds what it is to find: the parameters and the body of a *)
(* definition, the first terminator of a literal, the \end of an           *)
(* environment, the end of math, of a command's last argument, of a        *)
(* number, and the options of a list; of a command but for a star behind   *)
(* empty groups.                                                           *)
ScansFind == part = "scanners" =>
  /\ Scanning!DefinitionsFound
  /\ Scanning!LiteralsFound
  /\ Scanning!EnvironmentsFound
  /\ Scanning!MathFound
  /\ Scanning!CommandsBounded
  /\ Scanning!NumbersRead
  /\ Scanning!OptionsSplit

(* The tokens delivered are TeX's, so are those of the text emitted for    *)
(* them, and every character of the source is in exactly one event.        *)
ReadsAsTeX == part = "mouth" =>
  Characters!ReadsAsTeX /\ Characters!EmissionReadsBack /\ Characters!EventsTile
==============================================================================
