------------------------------- MODULE TeXLines -------------------------------
(***************************************************************************)
(* TeX's reading rules, told of a whole file at once: how a file is cut    *)
(* into lines, how the ^^ notation is reduced, and which tokens a line     *)
(* has.  Nothing here follows a cursor; it is what the incremental reader  *)
(* of reading/tex_reader.py is checked against.                            *)
(*                                                                         *)
(* cats gives every character its category.  Toggled has the characters    *)
(* the notation converts one at a time, Paired the pairs of hexadecimal    *)
(* digits it converts together.                                            *)
(***************************************************************************)
EXTENDS Integers, Sequences, SequencesExt

CONSTANTS Toggled, Paired, NoEndline

CharacterToken(c, cat) == [kind |-> "character", name |-> <<c>>, cat |-> cat]
ControlToken(name) == [kind |-> "control", name |-> name, cat |-> "none"]
SpaceToken == CharacterToken("sp", "space")

(* The physical lines: no line behind a final line end, one in an empty file. *)
Ends(text) == { i \in DOMAIN text : text[i] = "nl" }
LineStarts(text) == {1} \cup { i + 1 : i \in Ends(text) \ {Len(text)} }
LineAt(text, from) ==
  LET last == { i \in (from - 1)..Len(text) : \A j \in from..i : text[j] # "nl" }
  IN  SubSeq(text, from, CHOOSE i \in last : \A j \in last : j <= i)

(* input_ln drops trailing spaces before the \endlinechar is appended.      *)
Stripped(line) ==
  LET kept == { i \in 0..Len(line) : \A j \in (i + 1)..Len(line) : line[j] = "sp" }
  IN  SubSeq(line, 1, CHOOSE i \in kept : \A j \in kept : i <= j)
Logical(line, endline) ==
  Stripped(line) \o (IF endline = NoEndline THEN <<>> ELSE <<endline>>)

(* The ^^ notation is reduced from the left, and what it yields is looked  *)
(* at again.                                                               *)
RECURSIVE Reduced(_, _)
Reduced(line, cats) ==
  IF line = <<>> THEN <<>>
  ELSE IF Len(line) >= 3 /\ cats[line[1]] = "superscript" /\ line[2] = line[1] /\ line[3] \in DOMAIN Toggled
    THEN IF Len(line) >= 4 /\ <<line[3], line[4]>> \in DOMAIN Paired
           THEN Reduced(<<Paired[<<line[3], line[4]>>]>> \o SubSeq(line, 5, Len(line)), cats)
           ELSE Reduced(<<Toggled[line[3]]>> \o SubSeq(line, 4, Len(line)), cats)
    ELSE <<line[1]>> \o Reduced(Tail(line), cats)

(* A control sequence is all the letters behind the escape, or one other.   *)
NameLength(line, cats) ==
  LET n == CHOOSE k \in 0..Len(line) :
             /\ \A i \in 1..k : cats[line[i]] = "letter"
             /\ k < Len(line) => cats[line[k + 1]] # "letter"
  IN  IF n = 0 /\ line # <<>> THEN 1 ELSE n

RECURSIVE LineTokens(_, _, _)
LineTokens(line, state, cats) ==
  IF line = <<>> THEN <<>>
  ELSE LET c == line[1]
           rest == Tail(line)
       IN  CASE cats[c] \in {"ignored", "invalid"} -> LineTokens(rest, state, cats)
             [] cats[c] = "comment" -> <<>>
             [] cats[c] = "eol" -> [N |-> <<ControlToken(<<"par">>)>>, M |-> <<SpaceToken>>, S |-> <<>>][state]
             [] cats[c] = "space" -> IF state = "M" THEN <<SpaceToken>> \o LineTokens(rest, "S", cats)
                                                    ELSE LineTokens(rest, state, cats)
             [] cats[c] = "escape" ->
                  LET n == NameLength(rest, cats)
                      next == IF n = 0 THEN state
                              ELSE IF cats[rest[1]] \in {"letter", "space"} THEN "S" ELSE "M"
                  IN  <<ControlToken(SubSeq(rest, 1, n))>>
                        \o LineTokens(SubSeq(rest, n + 1, Len(rest)), next, cats)
             [] OTHER -> <<CharacterToken(c, cats[c])>> \o LineTokens(rest, "M", cats)

FileTokens(text, cats, endline) ==
  FoldLeft(LAMBDA tokens, from :
             tokens \o LineTokens(Reduced(Logical(LineAt(text, from), endline), cats), "N", cats),
           <<>>, SetToSortSeq(LineStarts(text), <))
=============================================================================
