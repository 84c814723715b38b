----------------------------- MODULE SelectedText -----------------------------
(***************************************************************************)
(* TeX's conditionals and groups, told of a whole piece of source at once: *)
(* which opener encloses a token, which of its parts is taken, and what is *)
(* still open at the end.  Nothing here follows the reader's stacks; it is *)
(* what the stacks of reading/dispatcher.py are checked against.           *)
(*                                                                         *)
(* s is a sequence of tokens; i and c are positions, Len(s) + 1 being the  *)
(* end of the source.                                                      *)
(***************************************************************************)
EXTENDS Integers, Sequences, FiniteSets

(* #ups - #downs between two positions, and the ups that no down has        *)
(* answered before position i.                                             *)
Balance(ups, downs, from, to) ==
  Cardinality(ups \cap (from..to)) - Cardinality(downs \cap (from..to))

StillOpen(ups, downs, i) ==
  { c \in ups : c < i /\ \A j \in c..(i - 1) : Balance(ups, downs, c, j) >= 1 }

Latest(positions) == { c \in positions : \A d \in positions : d <= c }

-----------------------------------------------------------------------------
Delimiters == {"else", "or"}

(* The openers of s: constant truths, \ifcase, and the ones whose predicate *)
(* the reader cannot establish.                                             *)
Openers == {"iftrue", "iffalse", "ifcase", "ifunknown"}

Ifs(s) == { i \in DOMAIN s : s[i].role \in Openers }
Fis(s) == { i \in DOMAIN s : s[i].role = "fi" }

(* The conditionals open before position i, and the innermost of them. *)
Enclosing(s, i) == StillOpen(Ifs(s), Fis(s), i)
Innermost(s, i) == Latest(Enclosing(s, i))

(* The \else and \or that belong to c before position i.                   *)
Own(s, c, i) ==
  { d \in (c + 1)..(i - 1) : /\ s[d].role \in Delimiters
                             /\ c \in Enclosing(s, d) /\ Balance(Ifs(s), Fis(s), c, d) = 1 }

(* The number of the part of c that position i lies in, from 0. *)
Part(s, c, i) == Cardinality(Own(s, c, i))

(* TeX takes the part an \ifcase names, if no \else comes first, and else   *)
(* what follows the \else; \iftrue and \iffalse are cases 0 and 1.          *)
Index(token) == CASE token.role = "iftrue" -> 0
                  [] token.role = "iffalse" -> 1
                  [] OTHER -> token.index

Named(s, c, i, p) ==
  /\ p = Index(s[c])
  /\ \A d \in Own(s, c, i) : Part(s, c, d) < p => s[d].role = "or"

Taken(s, c, i, p) ==
  /\ s[c].role # "ifunknown"
  /\ \/ Named(s, c, i, p)
     \/ /\ \E d \in Own(s, c, i) : Part(s, c, d) = p - 1 /\ s[d].role = "else"
        /\ ~\E q \in 0..(p - 1) : Named(s, c, i, q)

(* Position i is reached by execution: every open conditional takes it. *)
Selected(s, i) == \A c \in Enclosing(s, i) : Taken(s, c, i, Part(s, c, i))

(* What becomes of the token at i.  A delimiter is met when its conditional *)
(* is and no part before the one it ends was taken.                         *)
Met(s, i) ==
  \E c \in Innermost(s, i) :
    /\ Selected(s, c)
    /\ s[i].role = "fi" \/ \A p \in 0..(Part(s, c, i) - 1) : ~Taken(s, c, i, p)

Captured(s, i) ==
  \E c \in Enclosing(s, i) \cup {i} : s[c].role = "ifunknown" /\ Selected(s, c)

Fate(s, i) ==
  IF Captured(s, i) THEN "captured"
  ELSE IF s[i].role \in Delimiters \cup {"fi"}
    THEN IF Met(s, i) THEN "executed" ELSE "skipped"
    ELSE IF Selected(s, i) THEN "executed" ELSE "skipped"

(* The groups open before position i: executed openers that no executed     *)
(* closer answers.                                                          *)
Executed(s, role) == { i \in DOMAIN s : s[i].role = role /\ Fate(s, i) = "executed" }
OpenGroups(s, i) == StillOpen(Executed(s, "open"), Executed(s, "close"), i)

(* The executed closer at i answers no opener of its kind. *)
Unanswered(s, i) == ~\E g \in Latest(OpenGroups(s, i)) : s[g].kind = s[i].kind

(* A delimiter after the \else of its conditional, or an \or of no \ifcase. *)
AfterElse(s, i) == \E c \in Innermost(s, i) : \E d \in Own(s, c, i) : s[d].role = "else"
OfNoCase(s, i) == s[i].role = "or" /\ \E c \in Innermost(s, i) : s[c].role # "ifcase"

(* A captured token at i takes a group across the limits of its branch. *)
InBranch(s, c, i, role) ==
  Cardinality({ j \in c..i : s[j].role = role /\ \A d \in Own(s, c, i) : d < j })

Crosses(s, i) ==
  \E c \in Innermost(s, i) :
    \/ s[i].role = "close" /\ InBranch(s, c, i, "close") > InBranch(s, c, i, "open")
    \/ /\ s[i].role \in Delimiters \cup {"fi"}
       /\ InBranch(s, c, i, "close") # InBranch(s, c, i, "open")

(* What stops the reader at i: an invalid character anywhere, structure     *)
(* that TeX reports as an error, or a conditional that cannot be captured.  *)
Refused(s, i) ==
  \/ s[i].role = "invalid"
  \/ s[i].role \in Delimiters \cup {"fi"} /\ Enclosing(s, i) = {}
  \/ /\ Fate(s, i) = "executed"
     /\ \/ s[i].role = "close" /\ Unanswered(s, i)
        \/ s[i].role \in Delimiters /\ (AfterElse(s, i) \/ OfNoCase(s, i))
  \/ /\ Fate(s, i) = "captured"
     /\ \/ s[i].role = "ifcase"
        \/ s[i].role \in {"open", "close"} /\ s[i].kind # "simple"
        \/ s[i].role \in Delimiters /\ AfterElse(s, i)
        \/ Crosses(s, i)
=============================================================================
