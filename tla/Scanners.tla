-------------------------------- MODULE Scanners --------------------------------
(***************************************************************************)
(* The reader's raw scanners as machines that take one token at a time:    *)
(* reading/definition_scanner.py, the block literals of literal_scanner.py, *)
(* argument_scanner.py, assignment_scanner.py, environment_scanner.py and  *)
(* deferred_scanner.py.  None of them looks up a meaning.  Each is checked *)
(* against what it is to find, told of the whole input at once.            *)
(*                                                                         *)
(* at is "done" or "error" once the scanner has stopped; what is read then *)
(* belongs to others, and an error has to be right about all of it.        *)
(***************************************************************************)
EXTENDS Integers, Sequences, SequencesExt, FiniteSetsExt

CONSTANTS
  Alphabets,   (* The tokens each scanner is given.                        *)
  Lengths,     (* How many of them.                                        *)
  Terminators, (* The ends of block literals.                              *)
  MaxParameters, (* 9 in TeX.                                              *)
  MaxValue     (* 2147483647 in TeX.                                       *)

VARIABLES
  task,        (* The scanner.                                             *)
  terminator,  (* The literal's end.                                       *)
  input,       (* The tokens read.                                         *)
  scan         (* Where the scanner is.                                    *)

scannerVars == <<task, terminator, input, scan>>

Digits == <<"1", "2", "3">>
NumberOf(t) == SelectInSeq(Digits, LAMBDA d : d = t)
IsDigit(t) == NumberOf(t) > 0
Stop(s, at) == [s EXCEPT !.at = at]

(* Brace depth behind a list, and its lists that are balanced.             *)
Depth(s) == Len(SelectSeq(s, LAMBDA t : t = "{")) - Len(SelectSeq(s, LAMBDA t : t = "}"))
Balanced(s) == Depth(s) = 0 /\ \A n \in DOMAIN s : Depth(SubSeq(s, 1, n)) >= 0
Deeper(depth, t) == CASE t = "{" -> depth + 1 [] t = "}" -> depth - 1 [] OTHER -> depth
Spaces(s) == \A n \in DOMAIN s : s[n] = " "

-----------------------------------------------------------------------------
(* Definitions: TeX's scan_toks, with the marks of parameters kept. *)

DefinitionStart == [at |-> "target", parameters |-> <<>>, count |-> 0, hash |-> FALSE, body |-> <<>>, depth |-> 1]

(* Mutant of BodyStep: the token behind a mark counts as a brace, too. *)
BodyMarks(s, t) ==
  CASE t = "}" /\ s.depth = 1 -> Stop(s, "done")
    [] t \in {"{", "}"} -> [s EXCEPT !.body = Append(@, t), !.depth = Deeper(@, t)]
    [] OTHER -> [s EXCEPT !.body = Append(@, t)]

(* read_body: a mark and the token behind it are taken together.           *)
BodyStep(s, t) ==
  CASE s.at = "mark" /\ (t = "#" \/ NumberOf(t) \in 1..s.count) -> [s EXCEPT !.at = "body", !.body = Append(@, t)]
    [] s.at = "mark" /\ t # "#" /\ NumberOf(t) \notin 1..s.count -> Stop(s, "error")
    [] s.at = "body" /\ t = "#" -> [s EXCEPT !.at = "mark", !.body = Append(@, t)]
    [] s.at = "body" /\ t = "}" /\ s.depth = 1 -> Stop(s, "done")
    [] OTHER -> [s EXCEPT !.body = Append(@, t), !.depth = Deeper(@, t)]

DefinitionStep(s, t) ==
  CASE s.at = "target" /\ t = " " -> s
    [] s.at = "target" /\ t # " " -> Stop(s, IF t = "cs" THEN "parameters" ELSE "error")
    [] s.at = "parameters" /\ t = "{" -> Stop(s, "body")
    [] s.at = "parameters" /\ t = "}" -> Stop(s, "error")
    [] s.at = "parameters" /\ t \notin {"{", "}"} ->
         [s EXCEPT !.at = IF t = "#" THEN "number" ELSE @, !.parameters = Append(@, t)]
    [] s.at = "number" /\ t = "{" -> [s EXCEPT !.at = "body", !.hash = TRUE]
    [] s.at = "number" /\ t # "{" ->
         IF s.count < MaxParameters /\ NumberOf(t) = s.count + 1
           THEN [s EXCEPT !.at = "parameters", !.parameters = Append(@, t), !.count = @ + 1]
           ELSE Stop(s, "error")
    [] OTHER -> BodyStep(s, t)

(* Every run of marks is paired off from its left: an odd one ends in a    *)
(* mark that needs a parameter.                                            *)
MarksPaired(body, count) ==
  \A n \in DOMAIN body :
    body[n] = "#" /\ (n = Len(body) \/ body[n + 1] # "#") =>
      LET run == Max({ k \in 1..n : \A j \in (n - k + 1)..n : body[j] = "#" })
      IN  run % 2 = 1 => n < Len(body) /\ NumberOf(body[n + 1]) \in 1..count

(* TeX's definitions: target, parameter text, braces around a body.        *)
Numbered(p) ==
  LET marks == SetToSortSeq({ n \in DOMAIN p : p[n] = "#" }, <)
  IN  \A i \in DOMAIN marks :
        \/ i <= MaxParameters /\ marks[i] < Len(p) /\ NumberOf(p[marks[i] + 1]) = i
        \/ marks[i] = Len(p)
ParameterCount(p) == Len(SelectSeq(p, LAMBDA t : t = "#")) - (IF p # <<>> /\ Last(p) = "#" THEN 1 ELSE 0)

Definitions(s) ==
  { d \in { [target |-> i, opening |-> o] : i \in DOMAIN s, o \in DOMAIN s } :
      /\ Spaces(SubSeq(s, 1, d.target - 1)) /\ s[d.target] = "cs"
      /\ d.target < d.opening /\ s[d.opening] = "{" /\ s[Len(s)] = "}"
      /\ LET p == SubSeq(s, d.target + 1, d.opening - 1)
             b == SubSeq(s, d.opening + 1, Len(s) - 1)
         IN  /\ \A n \in DOMAIN p : p[n] \notin {"{", "}"}
             /\ Numbered(p) /\ Balanced(b) /\ MarksPaired(b, ParameterCount(p)) }

-----------------------------------------------------------------------------
(* Block literals: the terminator by its tokens, with KMP's table. *)

RECURSIVE Fallback(_, _, _, _)
Fallback(table, expected, matched, t) ==
  IF matched = 0 \/ expected[matched + 1] = t THEN matched
  ELSE Fallback(table, expected, table[matched], t)

Advanced(table, expected, matched, t) ==
  LET m == Fallback(table, expected, matched, t)
  IN  IF expected[m + 1] = t THEN m + 1 ELSE m

(* The failure table, from the left. *)
FailureTable(expected) ==
  FoldLeft(LAMBDA table, t : Append(table, Advanced(table, expected, Last(table), t)), <<0>>, Tail(expected))

LiteralStart == [at |-> "body", matched |-> 0, recent |-> <<>>]

(* Discarded characters give no token; what would be executed is refused.  *)
LiteralStep(s, t) ==
  LET matched == Advanced(FailureTable(terminator), terminator, s.matched, t)
      recent == Append(IF Len(s.recent) = Len(terminator) THEN Tail(s.recent) ELSE s.recent, Len(input) + 1)
  IN  CASE t = "ignored" -> s
        [] t \in {"cs", "{", "}", "#"} -> Stop(s, "error")
        [] OTHER -> [at |-> IF matched = Len(terminator) THEN "done" ELSE "body", matched |-> matched, recent |-> recent]

Delivered(n) == SelectSeq(SubSeq(input, 1, n), LAMBDA t : t # "ignored")

-----------------------------------------------------------------------------
(* Collected environments: \begin and \end count outside braces. *)

CollectStart == [at |-> "body", depth |-> 0, nesting |-> 1, name |-> <<>>, inner |-> 0]

CollectStep(s, t) ==
  CASE s.at = "body" /\ t = "}" /\ s.depth = 0 -> Stop(s, "error")
    [] s.at = "body" /\ t \in {"begin", "end"} /\ s.depth = 0 ->
         IF t = "begin" THEN [s EXCEPT !.nesting = @ + 1] ELSE [s EXCEPT !.at = "end", !.name = <<>>]
    [] s.at = "body" /\ ~(t = "}" /\ s.depth = 0) /\ ~(t \in {"begin", "end"} /\ s.depth = 0) ->
         [s EXCEPT !.depth = Deeper(@, t)]
    [] s.at = "end" /\ t = " " -> s
    [] s.at = "end" /\ t # " " -> IF t = "{" THEN [s EXCEPT !.at = "name", !.inner = 1] ELSE Stop(s, "error")
    [] s.at = "name" /\ ~(t = "}" /\ s.inner = 1) -> [s EXCEPT !.name = Append(@, t), !.inner = Deeper(@, t)]
    [] OTHER -> IF s.nesting > 1 THEN [s EXCEPT !.at = "body", !.nesting = @ - 1]
                ELSE Stop(s, IF s.name = <<"x">> THEN "done" ELSE "error")

-----------------------------------------------------------------------------
(* Math: up to the shift outside braces, two of them for a display. *)

MathStart == [at |-> "opening", display |-> FALSE, depth |-> 0]

MathStep(s, t) ==
  CASE s.at = "opening" /\ t = "$" -> [s EXCEPT !.at = "body", !.display = TRUE]
    [] s.at = "closing" -> Stop(s, IF t = "$" THEN "done" ELSE "error")
    [] s.at \in {"opening", "body"} /\ ~(s.at = "opening" /\ t = "$") ->
         IF t = "}" /\ s.depth = 0 THEN Stop(s, "error")
         ELSE IF t = "$" /\ s.depth = 0 THEN Stop(s, IF s.display THEN "closing" ELSE "done")
         ELSE [s EXCEPT !.at = "body", !.depth = Deeper(@, t)]

-----------------------------------------------------------------------------
(* The groups behind a command nobody knows: a star while nothing has been *)
(* put behind the command (alone), then braced and bracketed groups, whose *)
(* contents are put there without their braces.  A bracket that is not of  *)
(* category other ("odd[") is taken for an option's and then refused.      *)
(* kept is the last token that belongs to the command.                     *)

CommandStart == [at |-> "open", kept |-> 0, alone |-> TRUE, depth |-> 0]

CommandStep(s, t) ==
  LET here == Len(input) + 1
  IN  CASE s.at = "open" /\ t = " " -> s
        [] s.at = "open" /\ t = "*" /\ s.alone -> [s EXCEPT !.kept = here, !.alone = FALSE]
        [] s.at = "open" /\ t # " " /\ ~(t = "*" /\ s.alone) ->
             Stop(s, CASE t = "{" -> "group" [] t = "[" -> "option" [] t = "odd[" -> "error" [] OTHER -> "done")
        [] s.at = "group" /\ t = "}" /\ s.depth = 0 -> [s EXCEPT !.at = "open", !.kept = here]
        [] s.at = "option" /\ t = "}" /\ s.depth = 0 -> Stop(s, "error")
        [] s.at = "option" /\ t = "]" /\ s.depth = 0 -> [s EXCEPT !.at = "open", !.kept = here]
        [] OTHER -> [s EXCEPT !.depth = Deeper(@, t), !.alone = FALSE]

-----------------------------------------------------------------------------
(* Literal integer assignments; EOF ends one as a space does. *)

NumberStart == [at |-> "equals", sign |-> 1, value |-> 0]

NumberStep(s, t) ==
  CASE s.at = "equals" /\ t = "=" -> Stop(s, "signs")
    [] s.at \in {"equals", "signs"} /\ t \in {"+", "-"} -> [s EXCEPT !.at = "signs", !.sign = IF t = "-" THEN -@ ELSE @]
    [] s.at \in {"equals", "signs"} /\ t = " " -> s
    [] s.at \in {"equals", "signs", "digits"} /\ IsDigit(t) -> [s EXCEPT !.at = "digits", !.value = 10 * @ + NumberOf(t)]
    [] OTHER -> Stop(s, IF s.at = "digits" /\ t = " " /\ s.value <= MaxValue THEN "done" ELSE "error")

-----------------------------------------------------------------------------
(* Option lists: entries between the commas outside braces. *)

OptionsStart == [at |-> "list", entries |-> <<>>, current |-> <<>>, depth |-> 0]

OptionsStep(s, t) ==
  IF t = "," /\ s.depth = 0 THEN [s EXCEPT !.entries = Append(@, s.current), !.current = <<>>]
  ELSE [s EXCEPT !.current = Append(@, t), !.depth = Deeper(@, t)]

(* What the entries are: blank ones are dropped, and an entry is split at  *)
(* its first "=", before which there is a name without braces.             *)
Items(s) ==
  LET all == SelectSeq(Append(s.entries, s.current), LAMBDA e : ~Spaces(e))
      Separator(e) == SelectInSeq(e, LAMBDA t : t = "=")
      Key(e) == SelectSeq(IF Separator(e) = 0 THEN e ELSE SubSeq(e, 1, Separator(e) - 1), LAMBDA t : t # " ")
      Computed(e) == Key(e) = <<>> \/ \E n \in DOMAIN Key(e) : Key(e)[n] \in {"{", "}"}
  IN  IF \E n \in DOMAIN all : Computed(all[n]) THEN <<"computed">>
      ELSE [n \in DOMAIN all |-> <<Key(all[n]), IF Separator(all[n]) = 0 THEN <<"true">>
                                                ELSE SubSeq(all[n], Separator(all[n]) + 1, Len(all[n]))>>]

-----------------------------------------------------------------------------
Starts == [definition |-> DefinitionStart, literal |-> LiteralStart, collect |-> CollectStart, math |-> MathStart,
           command |-> CommandStart, number |-> NumberStart, options |-> OptionsStart]

Step(s, t) ==
  CASE task = "definition" -> DefinitionStep(s, t)
    [] task = "literal" -> LiteralStep(s, t)
    [] task = "collect" -> CollectStep(s, t)
    [] task = "math" -> MathStep(s, t)
    [] task = "command" -> CommandStep(s, t)
    [] task = "number" -> NumberStep(s, t)
    [] task = "options" -> OptionsStep(s, t)

ScannersInit ==
  /\ task \in DOMAIN Starts
  /\ terminator \in IF task = "literal" THEN Terminators ELSE {<<>>}
  /\ input = <<>> /\ scan = Starts[task]

ReadToken(t) ==
  /\ Len(input) < Lengths[task] /\ scan.at # "done"
  /\ input' = Append(input, t)
  /\ scan' = IF scan.at = "error" THEN scan ELSE Step(scan, t)
  /\ UNCHANGED <<task, terminator>>

ScannersNext == \E t \in Alphabets[task] : ReadToken(t)

-----------------------------------------------------------------------------
(* A definition ends where TeX's ends, with its parameters and its body.   *)
DefinitionsFound ==
  task = "definition" =>
    /\ scan.at = "done" <=> Definitions(input) # {}
    /\ \A d \in Definitions(input) :
         /\ scan.count = ParameterCount(scan.parameters)
         /\ scan.parameters = SubSeq(input, d.target + 1, d.opening - 1)
         /\ scan.body = SubSeq(input, d.opening + 1, Len(input) - 1)
         /\ scan.hash <=> d.opening > d.target + 1 /\ input[d.opening - 1] = "#"

(* A block literal ends at the first occurrence of its terminator, however *)
(* the terminator overlaps itself, and its closing extent starts there.    *)
LiteralsFound ==
  task = "literal" =>
    LET plain == Delivered(Len(input))
    IN  /\ scan.at = "done" <=> /\ IsSuffix(terminator, plain)
                                /\ \A n \in DOMAIN plain : plain[n] \notin {"cs", "{", "}", "#"}
        /\ scan.at = "done" => /\ Delivered(scan.recent[1] - 1) = SubSeq(plain, 1, Len(plain) - Len(terminator))
                               /\ input[scan.recent[1]] = terminator[1]
        /\ scan.at # "error" => \A n \in 1..(Len(plain) - 1) : ~IsSuffix(terminator, SubSeq(plain, 1, n))

Outside(s, n) == Depth(SubSeq(s, 1, n)) = 0
NestingOf(s) ==
  Cardinality({ n \in DOMAIN s : s[n] = "begin" /\ Outside(s, n) }) - Cardinality({ n \in DOMAIN s : s[n] = "end" /\ Outside(s, n) })

(* The environment's end is the first \end outside braces that closes what *)
(* was begun outside braces, and it names the environment.                 *)
EnvironmentsFound ==
  task = "collect" =>
    (scan.at = "done" <=>
       \E n \in DOMAIN input :
         LET b == SubSeq(input, 1, n - 1)
             rest == SubSeq(input, n + 1, Len(input))
         IN  /\ input[n] = "end" /\ Balanced(b) /\ NestingOf(b) = 0
             /\ \A k \in DOMAIN b :
                  /\ NestingOf(SubSeq(b, 1, k)) >= 0
                  /\ b[k] = "end" /\ Outside(b, k) =>
                       \E j \in (k + 1)..Len(b) : b[j] = "{" /\ Spaces(SubSeq(b, k + 1, j - 1))
             /\ IsSuffix(<<"{", "x", "}">>, rest) /\ Spaces(SubSeq(rest, 1, Len(rest) - 3)))

Unshifted(b) == Balanced(b) /\ \A n \in DOMAIN b : b[n] = "$" => ~Outside(b, n)

(* Math ends at the shift outside braces; a display at two in a row.       *)
MathFound ==
  task = "math" =>
    (scan.at = "done" <=>
       IF input # <<>> /\ input[1] = "$"
         THEN Len(input) >= 3 /\ IsSuffix(<<"$", "$">>, input) /\ Unshifted(SubSeq(input, 2, Len(input) - 2))
         ELSE Len(input) >= 2 /\ Last(input) = "$" /\ Unshifted(Front(input)))

IsOperand(s) ==
  /\ Len(s) >= 2
  /\ LET b == SubSeq(s, 2, Len(s) - 1)
     IN  /\ Balanced(b)
         /\ \/ s[1] = "{" /\ Last(s) = "}"
            \/ s[1] = "[" /\ Last(s) = "]" /\ \A n \in DOMAIN b : b[n] = "]" => ~Outside(b, n)

(* How far whole groups reach from the command, with stars at these places. *)
GroupsReach(stars) ==
  LET Kept[n \in 0..Len(input)] ==
        \/ n = 0
        \/ \E m \in 0..(n - 1), k \in 1..n :
             /\ m < k /\ Kept[m] /\ Spaces(SubSeq(input, m + 1, k - 1))
             /\ \/ IsOperand(SubSeq(input, k, n))
                \/ k = n /\ n \in stars
  IN  Max({ n \in 0..Len(input) : Kept[n] })

EmptyGroups(s) ==
  \A n \in DOMAIN s :
    \/ s[n] = " "
    \/ s[n] \in {"{", "["} /\ n < Len(s) /\ <<s[n], s[n + 1]>> \in {<<"{", "}">>, <<"[", "]">>}
    \/ s[n] \in {"}", "]"} /\ n > 1 /\ <<s[n - 1], s[n]>> \in {<<"{", "}">>, <<"[", "]">>}

(* What is kept with an unknown command is a star that follows it and the  *)
(* groups behind it, each whole; nothing else is, but for a star behind    *)
(* nothing but empty groups and the groups behind that star.  An error is  *)
(* a brace that closes outside an option, or a bracket that is not other.  *)
CommandsBounded ==
  task = "command" =>
    LET StarsBehind(Nothing(_)) == { n \in DOMAIN input : input[n] = "*" /\ Nothing(SubSeq(input, 1, n - 1)) }
        rest == SelectSeq(SubSeq(input, scan.kept + 1, Len(input)), LAMBDA t : t # " ")
        starts == IF rest = <<>> THEN "nothing" ELSE rest[1]
    IN  /\ \/ scan.kept = GroupsReach(StarsBehind(Spaces))
           \/ \E n \in StarsBehind(EmptyGroups) : scan.kept = GroupsReach({n})
        /\ scan.at = "done" <=> starts \notin {"nothing", "{", "[", "odd["}
        /\ scan.at = "error" <=> \/ starts = "odd["
                                 \/ starts = "[" /\ \E n \in DOMAIN rest : Depth(SubSeq(rest, 1, n)) < 0

(* A literal integer: one "=", signs that multiply, digits, one space, and *)
(* a value in TeX's range.                                                 *)
NumbersRead ==
  task = "number" =>
    LET n == Len(input)
        starts == { i \in DOMAIN input : i < n /\ \A j \in i..(n - 1) : IsDigit(input[j]) }
        first == Min(starts)
        prefix == SubSeq(input, 1, first - 1)
        equals == { i \in DOMAIN prefix : prefix[i] = "=" }
        value == FoldLeft(LAMBDA v, t : 10 * v + NumberOf(t), 0, SubSeq(input, first, n - 1))
        minus == Len(SelectSeq(prefix, LAMBDA t : t = "-"))
        read == /\ starts # {} /\ input[n] = " "
                /\ \A i \in DOMAIN prefix : prefix[i] \in {" ", "+", "-", "="}
                /\ Cardinality(equals) <= 1 /\ \A i \in equals : Spaces(SubSeq(prefix, 1, i - 1))
                /\ value <= MaxValue
    IN  /\ scan.at = "done" <=> read
        /\ read => scan.sign * scan.value = (IF minus % 2 = 0 THEN value ELSE -value)

(* An option list is cut at its commas outside braces, nothing is lost,    *)
(* and a key is never cut inside braces.                                   *)
OptionsSplit ==
  LET entries == Append(scan.entries, scan.current)
  IN  task = "options" /\ (\A n \in DOMAIN input : Depth(SubSeq(input, 1, n)) >= 0) =>
        /\ Len(entries) = 1 + Cardinality({ n \in DOMAIN input : input[n] = "," /\ Outside(input, n) })
        /\ FlattenSeq([n \in DOMAIN entries |-> IF n = 1 THEN entries[n] ELSE <<",">> \o entries[n]]) = input
        /\ \A n \in DOMAIN entries : Balanced(entries[n]) \/ n = Len(entries)
        /\ Items(scan) # <<"computed">> =>
             \A n \in DOMAIN entries :
               LET i == SelectInSeq(entries[n], LAMBDA t : t = "=")
               IN  i > 0 => Depth(SubSeq(entries[n], 1, i)) = 0
=================================================================================
