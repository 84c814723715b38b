------------------------------- MODULE TexInput -------------------------------
(***************************************************************************)
(* TeX's expansion as rewriting of the whole input: a list of tokens is    *)
(* what is still to be read, and expanding its head replaces a prefix of   *)
(* it.  There are no frames, cursors or budgets.  A held token is one that *)
(* \noexpand protects (TeX's dont_expand marker in front of it); reading   *)
(* it for any purpose removes the protection.                              *)
(***************************************************************************)
EXTENDS Integers, Sequences, SequencesExt, FiniteSetsExt

Token(name) == [name |-> name, held |-> FALSE]
Plainly(t) == Token(t.name)
Names(s) == [i \in DOMAIN s |-> s[i].name]

NoMatch == [ok |-> FALSE, arg |-> <<>>, used |-> 0]
Match(arg, used) == [ok |-> TRUE, arg |-> arg, used |-> used]

Opened(s, n) == Cardinality({ i \in 1..n : s[i].name = "{" }) - Cardinality({ i \in 1..n : s[i].name = "}" })
Balanced(s) == Opened(s, Len(s)) = 0 /\ \A n \in DOMAIN s : Opened(s, n) >= 0

(* A list that is one group loses its braces.                              *)
IsGroup(s) ==
  /\ Len(s) >= 2 /\ s[1].name = "{" /\ Balanced(s)
  /\ \A n \in 1..(Len(s) - 1) : Opened(s, n) > 0
Stripped(s) == IF IsGroup(s) THEN SubSeq(s, 2, Len(s) - 1) ELSE s

(* The shortest balanced list in front of the delimiter.                   *)
DelimitedArgument(input, delimiter) ==
  LET found == { n \in 0..(Len(input) - Len(delimiter)) :
                   /\ Balanced(SubSeq(input, 1, n))
                   /\ Names(SubSeq(input, n + 1, n + Len(delimiter))) = delimiter }
      n == Min(found)
  IN  IF found = {} THEN NoMatch ELSE Match(Stripped(SubSeq(input, 1, n)), n + Len(delimiter))

(* The next token or group, spaces skipped.                                *)
UndelimitedArgument(input) ==
  LET starts == { n \in DOMAIN input : input[n].name # " " }
      i == Min(starts)
      ends == { n \in i..Len(input) : IsGroup(SubSeq(input, i, n)) }
  IN  IF starts = {} \/ input[i].name = "}" \/ (input[i].name = "{" /\ ends = {}) THEN NoMatch
      ELSE IF input[i].name = "{" THEN Match(SubSeq(input, i + 1, Min(ends) - 1), Min(ends))
      ELSE Match(<<input[i]>>, i)

Argument(input, delimiter) ==
  IF delimiter = <<>> THEN UndelimitedArgument(input) ELSE DelimitedArgument(input, delimiter)

(* The arguments, one after the other: matches of the list of delimiters.  *)
ArgumentsOf(input, delimiters) ==
  FoldLeft(LAMBDA found, delimiter :
             LET m == Argument(SubSeq(input, found.used + 1, Len(input)), delimiter)
             IN  IF ~found.ok \/ ~m.ok THEN [found EXCEPT !.ok = FALSE]
                 ELSE [ok |-> TRUE, args |-> Append(found.args, m.arg), used |-> found.used + m.used],
           [ok |-> TRUE, args |-> <<>>, used |-> 0], delimiters)

Marks == <<"#1", "#2">>
Substituted(macro, args) ==
  FlattenSeq([i \in DOMAIN macro.body |->
                LET n == SelectInSeq(Marks, LAMBDA p : p = macro.body[i])
                IN  IF n = 0 THEN <<Token(macro.body[i])>> ELSE [j \in DOMAIN args[n] |-> Plainly(args[n][j])]])
    \o (IF macro.brace THEN <<Token("{")>> ELSE <<>>)

(* What one expansion of the head makes of the input; `held' is what       *)
(* \noexpand gives its reader, `ok' whether TeX finds what the head needs.  *)
Rewritten(ok, input) == [ok |-> ok, input |-> input]

RECURSIVE ExpandHead(_, _)
ExpandHead(input, meanings) ==
  LET head == Head(input)
      rest == Tail(input)
      meaning == meanings[head.name]
      prefix == meaning.prefix
      after == SubSeq(rest, Len(prefix) + 1, Len(rest))
      found == ArgumentsOf(after, meaning.delimiters)
      second == ExpandHead(Tail(rest), meanings)
  IN  CASE head.held \/ meaning.kind = "unexpandable" -> Rewritten(TRUE, <<Plainly(head)>> \o rest)
        [] meaning.kind = "macro" ->
             IF IsPrefix(prefix, Names(rest)) /\ found.ok
               THEN Rewritten(TRUE, Substituted(meaning, found.args) \o SubSeq(after, found.used + 1, Len(after)))
               ELSE Rewritten(FALSE, input)
        [] meaning.kind = "tokens" -> Rewritten(TRUE, [i \in DOMAIN meaning.body |-> Token(meaning.body[i])] \o rest)
        [] meaning.kind = "noexpand" ->
             IF rest = <<>> THEN Rewritten(FALSE, input)
             ELSE Rewritten(TRUE, <<[name |-> Head(rest).name, held |-> TRUE]>> \o Tail(rest))
        [] meaning.kind = "expandafter" ->
             IF Len(rest) < 2 THEN Rewritten(FALSE, input)
             ELSE Rewritten(second.ok, <<Plainly(Head(rest))>> \o second.input)
        [] OTHER -> Rewritten(FALSE, input)
===============================================================================
