------------------------------- MODULE Expansion -------------------------------
(***************************************************************************)
(* engine/expansion.py with engine/macro_arguments.py, the undelimited     *)
(* arguments of reading/argument_scanner.py and the expansion primitives:  *)
(* a cursor over frames of frozen tokens and, below them, the source.      *)
(* Every token read, substituted or compared is charged to a budget that   *)
(* no restored checkpoint gives back.                                      *)
(*                                                                         *)
(* `ahead' is the input TeX would still have, moved by TexInput's rules.   *)
(***************************************************************************)
EXTENDS TexInput

CONSTANTS
  Languages,   (* The meanings of all token names.                     *)
  Sources,     (* The token lists read, for each of them.              *)
  Budgets      (* The work budget of each.                             *)

VARIABLES
  meanings, source,
  cursor,      (* frames, the innermost last; how much of the source is
                  read; remaining; the last token; suppressed; error.  *)
  busy,        (* Inside next_expanded, between two tokens.            *)
  done,        (* The last read found the end of the input.            *)
  saved,       (* A checkpoint.                                        *)
  ahead,       (* TeX's input.                                         *)
  caught       (* History: a held token was read as an operand.        *)

expansionVars == <<meanings, source, cursor, busy, done, saved, ahead, caught>>

Eof == [name |-> "eof", held |-> FALSE]
None == [name |-> "none", held |-> FALSE]

ExpansionInit ==
  /\ meanings \in Languages /\ source \in Sources[meanings]
  /\ cursor = [frames |-> <<>>, read |-> 0, remaining |-> Budgets[meanings], last |-> None, fromSource |-> FALSE, error |-> ""]
  /\ busy = FALSE /\ done = FALSE /\ saved = <<>>
  /\ ahead = source /\ caught = FALSE

-----------------------------------------------------------------------------
(* The cursor.  An operator that fails leaves its reason in error, and the *)
(* ones called after it leave the cursor alone, as an exception does.      *)

Fails(c, reason) == IF c.error = "" THEN [c EXCEPT !.error = reason] ELSE c

(* Mutant of Charged: the list is substituted before it is counted. *)
ChargedLate(c, amount) ==
  IF c.error # "" THEN c ELSE [c EXCEPT !.remaining = @ - amount]

Charged(c, amount) ==
  IF c.error # "" THEN c
  ELSE IF amount > c.remaining THEN [c EXCEPT !.remaining = 0, !.error = "budget"]
  ELSE [c EXCEPT !.remaining = @ - amount]

Pushed(c, tokens) ==
  IF c.error # "" \/ tokens = <<>> THEN c ELSE [c EXCEPT !.frames = Append(@, tokens)]

(* Exhausted frames are left when the next token is wanted. *)
Live(frames) ==
  LET live == { i \in DOMAIN frames : frames[i] # <<>> }
  IN  IF live = {} THEN <<>> ELSE SubSeq(frames, 1, Max(live))

next_token(cursor0) ==
  LET c == Charged(cursor0, 1)
      frames == Live(c.frames)
      n == Len(frames)
  IN  IF c.error # "" THEN c
      ELSE IF n > 0
        THEN [c EXCEPT !.frames = [frames EXCEPT ![n] = Tail(@)], !.last = Head(frames[n]), !.fromSource = FALSE]
      ELSE IF c.read < Len(source)
        THEN [c EXCEPT !.frames = <<>>, !.read = @ + 1, !.last = source[c.read + 1], !.fromSource = TRUE]
      ELSE [c EXCEPT !.frames = <<>>, !.last = Eof, !.fromSource = TRUE]

unread_token(c) ==
  IF c.fromSource THEN [c EXCEPT !.read = @ - 1, !.last = None]
  ELSE [Pushed(c, <<c.last>>) EXCEPT !.last = None]

-----------------------------------------------------------------------------
(* Arguments. *)

Found(c, arg) == [c |-> c, arg |-> arg]

(* group_tokens: the tokens behind an opening brace. *)
RECURSIVE group_tokens(_, _, _, _)
group_tokens(cursor0, arg, depth, long) ==
  LET c == next_token(cursor0)
      t == c.last
  IN  IF c.error # "" THEN Found(c, <<>>)
      ELSE IF t = Eof \/ (~long /\ t.name = "par") THEN Found(Fails(c, "argument"), <<>>)
      ELSE IF t.name = "}" /\ depth = 0 THEN Found(c, arg)
      ELSE group_tokens(c, Append(arg, t), CASE t.name = "{" -> depth + 1 [] t.name = "}" -> depth - 1 [] OTHER -> depth, long)

RECURSIVE undelimited_tokens(_, _)
undelimited_tokens(cursor0, long) ==
  LET c == next_token(cursor0)
      t == c.last
  IN  IF c.error # "" THEN Found(c, <<>>)
      ELSE IF t.name = " " THEN undelimited_tokens(c, long)
      ELSE IF t = Eof \/ t.name = "}" \/ (~long /\ t.name = "par") THEN Found(Fails(c, "argument"), <<>>)
      ELSE IF t.name = "{" THEN group_tokens(c, <<>>, 0, long)
      ELSE Found(c, <<t>>)

(* _strip_group: the first brace's group has to end with the list. *)
StripGroup(tokens) ==
  LET closes == { n \in DOMAIN tokens : Opened(tokens, n) = 0 }
  IN  IF tokens # <<>> /\ Head(tokens).name = "{" /\ closes # {} /\ Min(closes) = Len(tokens)
        THEN SubSeq(tokens, 2, Len(tokens) - 1) ELSE tokens

(* The delimiter is looked for after every token outside braces. *)
RECURSIVE delimited(_, _, _, _, _)
delimited(cursor0, delimiter, arg, depth, long) ==
  LET c0 == next_token(cursor0)
      t == c0.last
      all == Append(arg, t)
      c == IF depth = 0 THEN Charged(c0, Min({Len(all), Len(delimiter)})) ELSE c0
      next == CASE t.name = "{" -> depth + 1 [] t.name = "}" -> depth - 1 [] OTHER -> depth
  IN  IF c0.error # "" THEN Found(c0, <<>>)
      ELSE IF t = Eof \/ (~long /\ t.name = "par") THEN Found(Fails(c0, "argument"), <<>>)
      ELSE IF c.error # "" THEN Found(c, <<>>)
      ELSE IF depth = 0 /\ IsSuffix(delimiter, Names(all))
        THEN Found(c, StripGroup(SubSeq(all, 1, Len(all) - Len(delimiter))))
      ELSE IF next < 0 THEN Found(Fails(c, "argument"), <<>>)
      ELSE delimited(c, delimiter, all, next, long)

Matched(c, expected) == IF c.error = "" /\ c.last.name # expected THEN Fails(c, "prefix") ELSE c
Further(found, next) == Found(next.c, Append(found.arg, next.arg))

arguments(cursor0, macro) ==
  LET matched == FoldLeft(LAMBDA c, expected : Matched(next_token(c), expected), cursor0, macro.prefix)
  IN  FoldLeft(LAMBDA found, delimiter :
                 IF found.c.error # "" THEN found
                 ELSE Further(found, IF delimiter = <<>> THEN undelimited_tokens(found.c, macro.long)
                                     ELSE delimited(found.c, delimiter, <<>>, 0, macro.long)),
               Found(matched, <<>>), macro.delimiters)

-----------------------------------------------------------------------------
(* Expansion. *)

(* The replacement, and what substituting into it costs.                   *)
Replacement(macro, args) ==
  FlattenSeq([i \in DOMAIN macro.body |->
                LET n == SelectInSeq(Marks, LAMBDA p : p = macro.body[i])
                IN  IF n = 0 THEN <<Token(macro.body[i])>> ELSE args[n]])
    \o (IF macro.brace THEN <<Token("{")>> ELSE <<>>)
CostOf(macro, args) ==
  Len(macro.body) + FoldFunction(LAMBDA n, sum : n + sum, 0,
                      [i \in DOMAIN macro.body |->
                         LET n == SelectInSeq(Marks, LAMBDA p : p = macro.body[i])
                         IN  IF n = 0 THEN 0 ELSE Len(args[n])])

Applied(found, macro) ==
  IF found.c.error # "" THEN found.c
  ELSE Pushed(Charged(found.c, CostOf(macro, found.arg)), Replacement(macro, found.arg))

expand_macro(c, macro) == Applied(arguments(c, macro), macro)

Result(c, token) == [c |-> c, token |-> token]

(* Mutant of expand_after: the first token is put back first. *)
ExpandAfterSwapped(first, r) ==
  Pushed(Pushed(r.c, <<first>>),
         IF r.token = None THEN <<>> ELSE <<r.token>>)

(* expandafter, once its second token has been expanded. *)
expand_after(first, r) ==
  Pushed(Pushed(r.c, IF r.token = None THEN <<>> ELSE <<r.token>>), <<first>>)

(* The token that noexpand returns to expandafter is marked; any other     *)
(* consumer gets it as it is.                                              *)
RECURSIVE expand_once(_, _)
expand_once(c, token) ==
  LET meaning == meanings[token.name]
      one == next_token(c)
      two == next_token(one)
      r == expand_once(two, two.last)
      marks == r.token # None /\ meanings[two.last.name].kind = "noexpand"
  IN  CASE meaning.kind = "unexpandable" -> Result(c, token)
        [] meaning.kind = "macro" -> Result(expand_macro(c, meaning), None)
        [] meaning.kind = "tokens" ->
             Result(Pushed(Charged(c, Len(meaning.body)), [i \in DOMAIN meaning.body |-> Token(meaning.body[i])]), None)
        [] meaning.kind = "noexpand" ->
             IF one.error = "" /\ one.last = Eof THEN Result(Fails(one, "operand"), None) ELSE Result(one, one.last)
        [] meaning.kind = "expandafter" ->
             IF two.error # "" \/ one.last = Eof \/ two.last = Eof THEN Result(Fails(two, "operand"), None)
             ELSE Result(expand_after(one.last, [r EXCEPT !.token.held = @ \/ marks]), None)
        [] OTHER -> Result(Fails(c, meaning.kind), None)

-----------------------------------------------------------------------------
(* What the reader of the cursor does. *)

Idle == ~busy /\ cursor.error = ""

(* Held tokens that an expansion of the input read as operands. *)
Catches == \E t \in ToSet(Tail(ahead)) : t.held

(* One turn of next_expanded: a token is read, and either returned or      *)
(* expanded.                                                               *)
Returned(c) == IF c.error # "" \/ c.last = Eof \/ c.last.held THEN Result(c, c.last) ELSE expand_once(c, c.last)

Expand ==
  /\ cursor.error = "" /\ ~done
  /\ \E step \in {Returned(next_token(cursor))} :
       /\ cursor' = step.c
       /\ busy' = (step.token = None /\ step.c.error = "")
       /\ done' = (step.token = Eof /\ step.c.error = "")
       /\ IF step.c.error # "" \/ ahead = <<>> THEN UNCHANGED <<ahead, caught>>
          ELSE LET next == ExpandHead(ahead, meanings)
               IN  /\ ahead' = IF step.token = None THEN next.input ELSE Tail(next.input)
                   /\ caught' = (caught \/ (~Head(ahead).held /\ Catches))
  /\ UNCHANGED <<meanings, source, saved>>

(* A raw read, as the scanners of operands do.                             *)
ReadRaw ==
  /\ Idle /\ ~done
  /\ cursor' = next_token(cursor)
  /\ done' = (cursor'.last = Eof)
  /\ ahead' = IF ahead = <<>> \/ cursor'.error # "" THEN ahead ELSE Tail(ahead)
  /\ UNCHANGED <<meanings, source, busy, saved, caught>>

(* The last token, unless it is a copy (a held token comes back as one).   *)
Unread ==
  /\ Idle /\ cursor.last \notin {None, Eof} /\ ~cursor.last.held
  /\ cursor' = unread_token(cursor)
  /\ ahead' = <<cursor.last>> \o ahead
  /\ UNCHANGED <<meanings, source, busy, done, saved, caught>>

Checkpoint ==
  /\ Idle /\ saved = <<>> /\ ~done
  /\ saved' = <<[cursor |-> cursor, ahead |-> ahead]>>
  /\ UNCHANGED <<meanings, source, cursor, busy, done, ahead, caught>>

(* Mutant of Restored: the work that was undone is free. *)
RestoredWithBudget(c) == c

(* Work already attempted still counts. *)
Restored(c) == [c EXCEPT !.remaining = cursor.remaining]

(* After a failure too, unless the budget itself is gone.                  *)
Restore ==
  /\ ~busy /\ saved # <<>> /\ cursor.error # "budget"
  /\ \/ cursor.error # "" \/ done \/ cursor # Restored(saved[1].cursor)
  /\ cursor' = Restored(saved[1].cursor)
  /\ ahead' = saved[1].ahead /\ done' = FALSE
  /\ UNCHANGED <<meanings, source, busy, saved, caught>>

ExpansionNext == Expand \/ ReadRaw \/ Unread \/ Checkpoint \/ Restore

(* A reader that has begun goes on.  This is WF_expansionVars(Expand) with  *)
(* the condition under which Expand is enabled (it always charges or fails) *)
(* written out: TLC's ENABLED would expand every macro many times.         *)
Reading == []<>(done \/ cursor.error # "") \/ []<><<Expand>>_expansionVars

-----------------------------------------------------------------------------
Pending(c) == FlattenSeq(Reverse(c.frames)) \o SubSeq(source, c.read + 1, Len(source))

ExpansionTypeOK ==
  /\ cursor.read \in 0..Len(source) /\ cursor.remaining \in 0..Budgets[meanings]
  /\ cursor.error # "" => ~busy

(* Frames and source together are the input TeX has at this point: every   *)
(* argument is matched as TeX matches it, nothing is read twice, and what  *)
(* is put back or restored is read again.  Held tokens read as operands    *)
(* stay held here (HeldOnce), so readings with one are exempt.             *)
InputIsTeX == cursor.error = "" /\ ~caught => Pending(cursor) = ahead

(* \noexpand holds a token for one reading.                                *)
HeldOnce == cursor.error = "" => Pending(cursor) = ahead

(* An expansion fails only where TeX finds no match either, where a short  *)
(* argument meets a paragraph, or where the meaning is not established.    *)
FailsForCause ==
  cursor.error \in {"prefix", "argument", "operand"} =>
    \/ ahead # <<>> /\ ~ExpandHead(ahead, meanings).ok
    \/ \E t \in ToSet(ahead) : t.name = "par"

(* Expansion ends, also of macros that call themselves and of readings     *)
(* that are restored and begun again.                                      *)
Ends == <>[](done \/ cursor.error # "")

=============================================================================
