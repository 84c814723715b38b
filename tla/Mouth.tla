-------------------------------- MODULE Mouth --------------------------------
(***************************************************************************)
(* reading/tex_reader.py: the incremental character reader.  A call of     *)
(* next_event is one step; between two calls the owner may assign a        *)
(* category, change \endlinechar, look at the next character, put the last *)
(* token back, take or restore a checkpoint, hand a raw extent over, drop  *)
(* an invalid character, or end the file after the line (\endinput).       *)
(*                                                                         *)
(* Positions are the code's: 0 is before the first character of text.      *)
(***************************************************************************)
EXTENDS Integers, Sequences, SequencesExt, FiniteSetsExt, TeXLines

CONSTANTS
  Texts,       (* The files read.                                          *)
  Tables,      (* The category tables a file may be read under.            *)
  Endlines,    (* Values of \endlinechar; NoEndline is any outside 0..255. *)
  Wild,        (* The character whose category is assigned while reading.  *)
  MaxChanges   (* Bound on assignments between two tokens.                 *)

VARIABLES
  text, cats, endline,
  mouth,       (* The cursor's fields.                                     *)
  position,
  failure,     (* The sticky InvalidCharacterError, by its unit.           *)
  pending,     (* The token put back, with its event.                      *)
  last,        (* _last_event.                                             *)
  saved,       (* A checkpoint of all of these, the text apart.            *)
  events,      (* History: the events delivered.                           *)
  changes,     (* History: assignments made in this reading.               *)
  since        (* History: where the last assignment or raw extent left it. *)

mouthVars == <<text, cats, endline, mouth, position, failure, pending, last, saved, events, changes, since>>

None == [kind |-> "none"]
Limit == Len(text)

Fresh == [state |-> "N", queue |-> <<>>, started |-> FALSE, ready |-> FALSE, next |-> 0, raw |-> 0,
          content |-> 0, line |-> 0, lineChar |-> NoEndline, endQueued |-> FALSE, tail |-> FALSE,
          stop |-> None]

(* What was read, what the current line still has, and what follows it.    *)
Stretch(read, state, rest, started, next) ==
  [read |-> read, state |-> state, rest |-> rest, started |-> started, next |-> next]

MouthInit ==
  /\ text \in Texts /\ cats \in Tables /\ endline \in Endlines
  /\ mouth = Fresh /\ position = 0
  /\ failure = None /\ pending = None /\ last = None /\ saved = None
  /\ events = <<>> /\ changes = 0 /\ since = Stretch(0, "N", <<>>, FALSE, 0)

-----------------------------------------------------------------------------
(* The queue of characters: _load_line, _peek, _expanded_peek. *)

CanLoad(m) ==
  /\ m.stop = None \/ m.next < m.stop.at
  /\ ~m.started \/ m.next < Limit

(* Mutant of Loaded: every line has a line end of its own. *)
LoadedPastEnd(m) ==
  LET end == Min({ i \in m.next..Limit : i < Limit => text[i + 1] = "nl" })
      content == Min({ i \in m.next..end : \A j \in i..(end - 1) : text[j + 1] = "sp" })
  IN  [m EXCEPT !.state = "N", !.started = TRUE, !.ready = TRUE, !.raw = m.next, !.content = content,
         !.line = end + 1, !.next = end + 1, !.lineChar = endline, !.endQueued = FALSE, !.tail = FALSE]

(* The next line: its mouth window ends before the trailing spaces.        *)
Loaded(m) ==
  LET ends == { i \in m.next..(Limit - 1) : text[i + 1] = "nl" }
      end == IF ends = {} THEN Limit ELSE Min(ends)
      content == Min({ i \in m.next..end : \A j \in i..(end - 1) : text[j + 1] = "sp" })
      line == IF ends = {} THEN Limit ELSE end + 1
  IN  [m EXCEPT !.state = "N", !.started = TRUE, !.ready = TRUE, !.raw = m.next, !.content = content,
         !.line = line, !.next = line, !.lineChar = endline, !.endQueued = FALSE, !.tail = FALSE]

Unit(char, from, to) == [char |-> char, from |-> from, to |-> to]

Unqueued(m) ==
  [i \in 1..(m.content - m.raw) |-> Unit(text[m.raw + i], m.raw + i - 1, m.raw + i)]
    \o (IF m.endQueued \/ m.lineChar = NoEndline THEN <<>> ELSE <<Unit(m.lineChar, m.content, m.line)>>)

(* _peek(n - 1): the queue holds n units if the line has them. *)
Peeked(m, n) ==
  LET rest == Unqueued(m)
      k == Min({Len(rest), Max({0, n - Len(m.queue)})})
      raw == Min({k, m.content - m.raw})
  IN  [m EXCEPT !.queue = @ \o SubSeq(rest, 1, k), !.raw = @ + raw, !.endQueued = @ \/ k > raw]

Converts(q) ==
  /\ Len(q) >= 3 /\ cats[q[1].char] = "superscript" /\ q[2].char = q[1].char
  /\ q[3].char \in DOMAIN Toggled
IsPair(q) == Len(q) >= 4 /\ <<q[3].char, q[4].char>> \in DOMAIN Paired

(* How many units the reader has to see: lookahead stops at the first      *)
(* unit that rules the notation out.                                       *)
Looks(m) ==
  LET q == Peeked(m, 4).queue
      hex == { pair[1] : pair \in DOMAIN Paired }
  IN  CASE q = <<>> \/ cats[q[1].char] # "superscript" -> 1
        [] Len(q) < 2 \/ q[2].char # q[1].char -> 2
        [] Len(q) < 3 \/ q[3].char \notin hex -> 3
        [] OTHER -> 4

(* The first characters of the queue, replaced by the one they denote. *)
Converted(p) ==
  LET n == IF IsPair(p.queue) THEN 4 ELSE 3
      char == IF n = 4 THEN Paired[<<p.queue[3].char, p.queue[4].char>>] ELSE Toggled[p.queue[3].char]
  IN  [p EXCEPT !.queue = <<Unit(char, @[1].from, @[n].to)>> \o SubSeq(@, n + 1, Len(@))]

(* Mutant of Expanded: the notation is converted once. *)
ExpandedOnce(m) == LET p == Peeked(m, Looks(m)) IN IF Converts(p.queue) THEN Converted(p) ELSE p

RECURSIVE Expanded(_)
Expanded(m) == LET p == Peeked(m, Looks(m)) IN IF Converts(p.queue) THEN Expanded(Converted(p)) ELSE p

-----------------------------------------------------------------------------
(* next_event. *)

Event(kind, from, to, token) == [kind |-> kind, from |-> from, to |-> to, token |-> token]
Popped(m) == [m EXCEPT !.queue = Tail(@)]
Finished(m) == [m EXCEPT !.queue = <<>>, !.ready = FALSE]

TailDue(m) == m.lineChar = NoEndline /\ ~m.tail /\ m.content < m.line

(* Lines are loaded until one has something to deliver. *)
(* The line in progress is looked at first. *)
Looked(m) == IF m.ready THEN Expanded(m) ELSE m

RECURSIVE Refilled(_)
Refilled(m) ==
  IF m.ready /\ (m.queue # <<>> \/ TailDue(m)) THEN m
  ELSE IF CanLoad(m) THEN Refilled(Expanded(Loaded(m))) ELSE [m EXCEPT !.ready = FALSE, !.state = "N"]

(* The letters of a control word are taken one by one; the character that  *)
(* ends it has been looked at, and converted, but stays.                   *)
RECURSIVE Name(_, _, _, _)
Name(m, name, escape, to) ==
  IF m.queue # <<>> /\ cats[Head(m.queue).char] = "letter"
    THEN Name(Expanded(Popped(m)), Append(name, Head(m.queue).char), escape, Head(m.queue).to)
    ELSE [m |-> m, e |-> Event("token", escape.from, to, ControlToken(name))]

Control(m, escape) ==
  IF m.queue = <<>> THEN [m |-> m, e |-> Event("token", escape.from, escape.to, ControlToken(<<>>))]
  ELSE LET unit == Head(m.queue)
           p == [m EXCEPT !.state = IF cats[unit.char] \in {"letter", "space"} THEN "S" ELSE "M"]
       IN  IF cats[unit.char] = "letter" THEN Name(p, <<>>, escape, escape.to)
           ELSE [m |-> Popped(p), e |-> Event("token", escape.from, unit.to, ControlToken(<<unit.char>>))]

(* What a category makes of the unit at the head of the queue. *)
Delivered(p) ==
  LET unit == Head(p.queue)
      m == Popped(p)
      cat == cats[unit.char]
      On(kind, token) == Event(kind, unit.from, unit.to, token)
  IN  CASE cat = "ignored" -> [m |-> m, e |-> On("ignored", None)]
        [] cat = "comment" -> [m |-> Finished(m), e |-> Event("comment", unit.from, m.line, None)]
        [] cat = "eol" ->
             [m |-> Finished(m),
              e |-> Event("end", unit.from, m.line,
                      CASE m.state = "N" -> ControlToken(<<"par">>)
                        [] m.state = "M" -> SpaceToken
                        [] m.state = "S" -> None)]
        [] cat = "space" /\ m.state # "M" -> [m |-> m, e |-> On("ignored", None)]
        [] cat = "space" -> [m |-> [m EXCEPT !.state = "S"], e |-> On("token", SpaceToken)]
        [] cat = "escape" -> Control(Expanded(m), unit)
        [] OTHER -> [m |-> [m EXCEPT !.state = "M"], e |-> On("token", CharacterToken(unit.char, cat))]

Deliver(event) ==
  /\ events' = Append(events, event) /\ last' = event
  /\ position' = event.to

NextEvent ==
  /\ pending = None /\ failure = None
  /\ \E p \in {Refilled(Looked(mouth))} :
       /\ p.ready
       /\ \/ /\ p.queue # <<>> /\ cats[Head(p.queue).char] # "invalid"
             /\ \E d \in {Delivered(p)} : mouth' = d.m /\ Deliver(d.e)
             /\ UNCHANGED failure
          \/ /\ p.queue # <<>> /\ cats[Head(p.queue).char] = "invalid"
             /\ mouth' = Popped(p) /\ failure' = Head(p.queue) /\ last' = None
             /\ UNCHANGED <<events, position>>
          \/ /\ p.queue = <<>>
             /\ mouth' = [p EXCEPT !.tail = TRUE]
             /\ Deliver(Event("tail", p.content, p.line, None))
             /\ UNCHANGED failure
  /\ UNCHANGED <<text, cats, endline, pending, saved, changes, since>>

(* A token put back is delivered as it was read. *)
Redeliver ==
  /\ pending # None
  /\ Deliver(pending) /\ pending' = None
  /\ UNCHANGED <<text, cats, endline, mouth, failure, saved, changes, since>>

AtEnd == pending = None /\ failure = None /\ ~Refilled(Looked(mouth)).ready

EndOfFile ==
  /\ AtEnd /\ position # Limit
  /\ mouth' = Refilled(Looked(mouth)) /\ position' = Limit /\ last' = None
  /\ UNCHANGED <<text, cats, endline, failure, pending, saved, events, changes, since>>

-----------------------------------------------------------------------------
(* What the owner does between two events. *)

(* peek_character: the next character of the line is looked at, and stays. *)
PeekCharacter ==
  /\ failure = None /\ mouth.ready
  /\ mouth' = Expanded(mouth) /\ mouth' # mouth
  /\ UNCHANGED <<text, cats, endline, position, failure, pending, last, saved, events, changes, since>>

UnreadToken ==
  /\ pending = None /\ last # None /\ last.token # None
  /\ pending' = last /\ last' = None
  /\ position' = last.from /\ events' = Front(events)
  /\ UNCHANGED <<text, cats, endline, mouth, failure, saved, changes, since>>

(* The reader's state behind an event. *)
StateAfter(state, e) ==
  CASE e.kind \in {"end", "comment", "tail"} -> "N"
    [] e.kind \notin {"end", "comment", "tail"} /\ (e.token = None \/ e.token = ControlToken(<<>>)) -> state
    [] OTHER -> IF e.token = SpaceToken \/ (e.token.kind = "control" /\ cats[Head(e.token.name)] \in {"letter", "space"})
                  THEN "S" ELSE "M"

(* The events read, the one put back among them. *)
Seen == IF pending = None THEN events ELSE Append(events, pending)

(* The stretch of the file that begins here: the characters the line still  *)
(* has, those looked at among them, and the lines behind it.               *)
Here ==
  Stretch(Len(Seen), FoldLeft(StateAfter, since.state, SubSeq(Seen, since.read + 1, Len(Seen))),
    IF mouth.ready THEN [i \in DOMAIN (mouth.queue \o Unqueued(mouth)) |-> (mouth.queue \o Unqueued(mouth))[i].char]
    ELSE <<>>, mouth.started, mouth.next)

Assign(category) ==
  /\ changes < MaxChanges /\ category # cats[Wild]
  /\ cats' = [cats EXCEPT ![Wild] = category] /\ changes' = changes + 1
  /\ since' = Here
  /\ UNCHANGED <<text, endline, mouth, position, failure, pending, last, saved, events>>

AssignEndline(char) ==
  /\ changes < MaxChanges /\ char # endline
  /\ endline' = char /\ changes' = changes + 1
  /\ since' = Here
  /\ UNCHANGED <<text, cats, mouth, position, failure, pending, last, saved, events>>

Snapshot == [kind |-> "checkpoint", cats |-> cats, endline |-> endline, mouth |-> mouth, position |-> position,
             failure |-> failure, pending |-> pending, last |-> last, events |-> events, changes |-> changes,
             since |-> since]

Checkpoint ==
  /\ saved = None /\ saved' = Snapshot
  /\ UNCHANGED <<text, cats, endline, mouth, position, failure, pending, last, events, changes, since>>

Restore ==
  /\ saved # None /\ saved # Snapshot
  /\ cats' = saved.cats /\ endline' = saved.endline /\ mouth' = saved.mouth
  /\ position' = saved.position /\ failure' = saved.failure
  /\ pending' = saved.pending /\ last' = saved.last
  /\ events' = saved.events /\ changes' = saved.changes /\ since' = saved.since
  /\ UNCHANGED <<text, saved>>

(* Lint drops the invalid character and records the span it had. *)
DiscardInvalid ==
  /\ failure # None
  /\ failure' = None /\ position' = failure.to
  /\ events' = Append(events, Event("discarded", failure.from, failure.to, None))
  /\ UNCHANGED <<text, cats, endline, mouth, pending, last, saved, changes, since>>

(* \endinput: the line it stands in is the last.                           *)
EndInputAfterLine ==
  /\ events # <<>> /\ last # None /\ last.token # None /\ mouth.stop = None
  /\ mouth' = [mouth EXCEPT !.stop = [kind |-> "after", at |-> mouth.line]]
  /\ UNCHANGED <<text, cats, endline, position, failure, pending, last, saved, events, changes, since>>

RECURSIVE LoadedTo(_, _)
LoadedTo(m, end) == IF m.ready /\ end <= m.line THEN m ELSE LoadedTo(Loaded(m), end)

(* consume_raw_to: a literal's extent is handed over unread, whatever had   *)
(* been looked at.  Its handlers have a current line, they match nonempty  *)
(* delimiters in lines whose trailing spaces they removed themselves, and  *)
(* never end an extent before a line end that was looked at.               *)
ConsumeRawTo(end) ==
  /\ failure = None /\ pending = None /\ last # None /\ mouth.ready
  /\ position <= end /\ end <= Limit
  /\ mouth.stop # None => end <= mouth.stop.at
  /\ mouth.endQueued => mouth.line <= end
  /\ LET m == LoadedTo([mouth EXCEPT !.queue = <<>>], end)
     IN  /\ end <= m.content \/ end = m.line
         /\ mouth' = IF end = m.line
                       THEN [m EXCEPT !.raw = end, !.ready = FALSE, !.endQueued = TRUE, !.tail = TRUE, !.state = "N"]
                       ELSE [m EXCEPT !.raw = end, !.state = "M"]
         /\ since' = IF end = m.line THEN Stretch(Len(events) + 1, "N", <<>>, TRUE, end)
                     ELSE Stretch(Len(events) + 1, "M", Logical(LineAt(text, end + 1), m.lineChar), TRUE, m.line)
  /\ position' = end /\ last' = None
  /\ events' = Append(events, Event("raw", position, end, None))
  /\ UNCHANGED <<text, cats, endline, failure, pending, saved, changes>>

MouthNext ==
  \/ NextEvent \/ Redeliver \/ EndOfFile
  \/ PeekCharacter \/ UnreadToken \/ Checkpoint \/ Restore \/ DiscardInvalid \/ EndInputAfterLine
  \/ \E table \in Tables : Assign(table[Wild])
  \/ \E char \in Endlines : AssignEndline(char)
  \/ \E end \in 0..Limit : ConsumeRawTo(end)

-----------------------------------------------------------------------------
TokensOf(read) == SelectSeq([i \in DOMAIN read |-> read[i].token], LAMBDA t : t # None)

MouthTypeOK ==
  /\ position \in 0..Limit /\ mouth.state \in {"N", "M", "S"}
  /\ 0 <= mouth.raw /\ (mouth.ready => mouth.raw <= mouth.line)
  /\ mouth.content <= mouth.line /\ mouth.line <= Limit
  /\ \A i \in DOMAIN mouth.queue : mouth.queue[i].char \in DOMAIN cats

(* Every character of the file is in exactly one event, in order, up to    *)
(* the cursor: spans neither overlap nor leave a gap, whatever was put     *)
(* back, converted, handed over raw, dropped or restored in between.       *)
EventsTile ==
  /\ \A i \in DOMAIN events :
       events[i].from = (IF i = 1 THEN 0 ELSE events[i - 1].to) /\ events[i].from <= events[i].to
  /\ ~AtEnd => position = (IF events = <<>> THEN 0 ELSE Last(events).to)
  /\ AtEnd /\ events # <<>> => Last(events).to = (IF mouth.stop = None THEN Limit ELSE mouth.stop.at)

(* A file gives the tokens of TeX's rules, in order and in the end all of   *)
(* them; \endinput cuts it behind its line.  What follows an assignment is *)
(* read under the category assigned, from the next character on whatever   *)
(* was looked at before, and a changed \endlinechar from the next line on; *)
(* what follows a raw extent begins behind it.                             *)
ReadsAsTeX ==
  LET file == IF mouth.stop = None THEN text ELSE SubSeq(text, 1, mouth.stop.at)
      lines == SubSeq(file, since.next + 1, Len(file))
      all == LineTokens(Reduced(since.rest, cats), since.state, cats)
               \o (IF since.started /\ lines = <<>> THEN <<>> ELSE FileTokens(lines, cats, endline))
      tokens == TokensOf(SubSeq(Seen, since.read + 1, Len(Seen)))
  IN  /\ IsPrefix(tokens, all)
      /\ AtEnd => tokens = all
-----------------------------------------------------------------------------
(* prepare/emission.py: what MouthEmitter writes for the events read. *)

(* The reader's state before an event. *)
StateBefore(i) == FoldLeft(StateAfter, "N", SubSeq(events, 1, i - 1))

Spelling(e) == SubSeq(text, e.from + 1, e.to)

(* _token_text *)
TokenText(e) ==
  CASE e.token = None -> <<>>
    [] e.kind = "end" /\ e.token # None -> IF e.token = SpaceToken THEN <<"sp">> ELSE <<"esc", "par", "sp">>
    [] e.kind # "end" /\ e.token # None ->
         IF e.token = SpaceToken THEN <<"sp">>
         ELSE Spelling(e) \o (IF e.token.kind = "control" /\ StateAfter("N", e) = "S" THEN <<"sp">> ELSE <<>>)

(* comment_marker: one character, or a notation that took the line end.    *)
Marker(e) == IF cats[text[e.from + 1]] = "comment" THEN <<text[e.from + 1]>> ELSE Spelling(e)

(* A comment is kept whole, or dropped; at the end of the file the marker   *)
(* stays when dropping it would create a space or a paragraph.             *)
CommentText(i, keep) ==
  LET e == events[i]
      raw == Spelling(e)
  IN  IF keep THEN IF Last(raw) = "nl" THEN raw ELSE Append(raw, "nl")
      ELSE IF e.to = Limit /\ StateBefore(i) # "S" /\ "nl" \notin ToSet(Marker(e))
        THEN Append(Marker(e), "nl") ELSE <<>>

EmitText(keep) ==
  FlattenSeq([i \in DOMAIN events |->
                IF events[i].kind = "comment" THEN CommentText(i, keep) ELSE TokenText(events[i])])

(* Lines are joined where a comment hid their end: a superscript there      *)
(* would meet the next one.                                                *)
JoinsSuperscripts ==
  \E i, j \in DOMAIN events :
     /\ i < j /\ \A k \in {i, j} : events[k].token # None /\ events[k].token.cat = "superscript"
     /\ \A k \in (i + 1)..(j - 1) : events[k].token = None

(* The text emitted for a whole file reads, under the same categories, as   *)
(* the tokens the file gave: no space, paragraph or longer name appears    *)
(* where comments, blanks and line ends were dropped.                      *)
EmissionReadsBack ==
  AtEnd /\ changes = 0 /\ endline = "ret" /\ mouth.stop = None /\ ~JoinsSuperscripts
    /\ (\A i \in DOMAIN events : events[i].kind \notin {"raw", "discarded"}) =>
      \A keep \in BOOLEAN : FileTokens(EmitText(keep), cats, endline) = TokensOf(events)

=============================================================================
