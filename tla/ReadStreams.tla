------------------------------ MODULE ReadStreams ------------------------------
(***************************************************************************)
(* engine/read_streams.py and its primitives: \openin, \closein, \read,    *)
(* \readline and \ifeof over a finite inventory of decoded files.  The     *)
(* streams are global: no group restores them, only a rollback does.       *)
(* Retained source may open, read or close any of them, which one sticky   *)
(* doubt about all of them records.                                        *)
(*                                                                         *)
(* trueStreams is what TeX has: for each stream the lines still unread.    *)
(***************************************************************************)
EXTENDS Integers, Sequences, SequencesExt, FiniteSetsExt

CONSTANTS
  Streams,     (* Stream numbers.                                          *)
  Files,       (* The inventory: file names to texts; "/" ends a line.     *)
  Extended,    (* The name with ".tex", of every name that has no dot.     *)
  MaxTokens,   (* Tokens one reading may have.                             *)
  MaxSteps     (* Bound on the commands of a behaviour.                    *)

VARIABLES
  initial,     (* The reading starts where every stream is closed.         *)
  streams,     (* The streams established: Closed, or a file and position. *)
  uncertain,   (* Retained code may have changed streams.                  *)
  trueStreams,
  answer,      (* The last reading: what the code and what TeX delivers.   *)
  saved,       (* A checkpoint.                                            *)
  steps

streamVars == <<initial, streams, uncertain, trueStreams, answer, saved, steps>>

Closed == [kind |-> "closed"]
NoAnswer == [said |-> <<>>, true |-> <<>>]
Queries == DOMAIN Files \cup DOMAIN Extended

-----------------------------------------------------------------------------
(* TeX's streams. *)

(* A line's tokens: its line end is a space, or ends a paragraph.           *)
Line(chars, raw) == Append(chars, IF chars = <<>> /\ ~raw THEN "par" ELSE " ")

(* The lines of a text: none of an empty one, no line behind a last "/".    *)
Lines(text) ==
  LET starts == { i \in DOMAIN text : i = 1 \/ text[i - 1] = "/" }
      LineFrom(i) == SelectSeq(SubSeq(text, i, Min({ j \in i..Len(text) : j = Len(text) \/ text[j] = "/" })),
                               LAMBDA c : c # "/")
      order == SetToSortSeq(starts, <)
  IN  [n \in DOMAIN order |-> LineFrom(order[n])]

TrueStates ==
  {Closed} \cup UNION { LET lines == Lines(Files[name])
                        IN  { [kind |-> "open", lines |-> SubSeq(lines, n, Len(lines))] : n \in 1..(Len(lines) + 1) }
                        : name \in DOMAIN Files }

Depth(tokens) == Len(SelectSeq(tokens, LAMBDA t : t = "{")) - Len(SelectSeq(tokens, LAMBDA t : t = "}"))

(* read_toks joins lines until their braces balance; an unmatched closing  *)
(* brace drops the rest of its line.                                       *)
Joined(sofar, line) ==
  LET all == sofar \o Line(line, FALSE)
      over == { n \in DOMAIN all : Depth(SubSeq(all, 1, n)) < 0 }
  IN  IF over = {} THEN all ELSE SubSeq(all, 1, Min(over) - 1)

TrueRead(lines) ==
  LET sums == [n \in 1..Len(lines) |-> FoldLeft(Joined, <<>>, SubSeq(lines, 1, n))]
      n == Min({ k \in DOMAIN sums : Depth(sums[k]) = 0 })
  IN  IF lines = <<>> THEN [tokens |-> <<"par">>, stream |-> Closed]
      ELSE [tokens |-> sums[n], stream |-> [kind |-> "open", lines |-> SubSeq(lines, n + 1, Len(lines))]]

TrueReadline(lines) ==
  IF lines = <<>> THEN [tokens |-> <<" ">>, stream |-> Closed]
  ELSE [tokens |-> Line(Head(lines), TRUE), stream |-> [kind |-> "open", lines |-> Tail(lines)]]

-----------------------------------------------------------------------------
(* The code's streams. *)

StreamsInit ==
  /\ initial \in BOOLEAN
  /\ streams = <<>> /\ uncertain = FALSE
  /\ trueStreams \in IF initial THEN { [i \in Streams |-> Closed] } ELSE [Streams -> TrueStates]
  /\ answer = NoAnswer /\ saved = <<>> /\ steps = 0

At(file, position) == [kind |-> "open", file |-> file, at |-> position]
Set(index, stream) == [i \in DOMAIN streams \cup {index} |-> IF i = index THEN stream ELSE streams[i]]

(* What eof and read refuse to answer about. *)
Known(index) == ~uncertain /\ (index \in DOMAIN streams \/ initial)
eof(index) == index \notin DOMAIN streams \/ streams[index] = Closed

(* The file a name finds. *)
Source(name) ==
  IF name \in DOMAIN Files THEN {name}
  ELSE IF name \in DOMAIN Extended /\ Extended[name] \in DOMAIN Files THEN {Extended[name]} ELSE {}

LineEnd(text, position) ==
  Min({ n \in position..Len(text) : n = Len(text) \/ (n > position /\ text[n] = "/") })

(* Mutant of Gathered: what the brace cut off is read by the next reading. *)
GatheredToBrace(file, position, end, tokens) ==
  LET text == Files[file]
      all == tokens \o Line(SelectSeq(SubSeq(text, position + 1, end), LAMBDA c : c # "/"), FALSE)
      over == { n \in DOMAIN all : Depth(SubSeq(all, 1, n)) < 0 }
  IN  IF over = {} THEN [tokens |-> all, at |-> end]
      ELSE [tokens |-> SubSeq(all, 1, Min(over) - 1), at |-> position + Min(over) - Len(tokens)]

(* One more line of the file behind tokens. *)
Gathered(file, position, end, tokens) ==
  LET text == Files[file]
      all == tokens \o Line(SelectSeq(SubSeq(text, position + 1, end), LAMBDA c : c # "/"), FALSE)
      over == { n \in DOMAIN all : Depth(SubSeq(all, 1, n)) < 0 }
  IN  [tokens |-> IF over = {} THEN all ELSE SubSeq(all, 1, Min(over) - 1), at |-> end]

Failure == [kind |-> "failure"]
Reads(tokens, stream) == [kind |-> "read", tokens |-> tokens, stream |-> stream]

(* read: whole lines until the braces balance, or a failure that leaves    *)
(* the stream where it was.                                                *)
RECURSIVE read(_, _, _)
read(file, position, tokens) ==
  LET g == Gathered(file, position, LineEnd(Files[file], position), tokens)
  IN  IF position = Len(Files[file])
        THEN IF Depth(tokens) > 0 THEN Failure ELSE Reads(<<"par">>, Closed)
      ELSE IF Len(g.tokens) > MaxTokens THEN Failure
      ELSE IF Depth(g.tokens) = 0 THEN Reads(g.tokens, At(file, g.at))
      ELSE read(file, g.at, g.tokens)

readline(file, position) ==
  LET end == LineEnd(Files[file], position)
      chars == SelectSeq(SubSeq(Files[file], position + 1, end), LAMBDA c : c # "/")
  IN  IF position = Len(Files[file]) THEN Reads(<<" ">>, Closed)
      ELSE IF Len(chars) + 1 > MaxTokens THEN Failure
      ELSE Reads(Line(chars, TRUE), At(file, end))

-----------------------------------------------------------------------------
(* The commands.  One that fails is rolled back and retained: TeX runs it, *)
(* and the reader doubts every stream.                                     *)

Counted == steps < MaxSteps /\ steps' = steps + 1

Retain ==
  /\ Counted
  /\ uncertain' = TRUE
  /\ \E i \in Streams, s \in TrueStates : trueStreams' = [trueStreams EXCEPT ![i] = s]
  /\ answer' = NoAnswer
  /\ UNCHANGED <<initial, streams, saved>>

Open(index, name) ==
  /\ Counted /\ ~uncertain
  /\ streams' = Set(index, IF Source(name) = {} THEN Closed ELSE At(CHOOSE f \in Source(name) : TRUE, 0))
  /\ trueStreams' = [trueStreams EXCEPT ![index] =
       IF Source(name) = {} THEN Closed ELSE [kind |-> "open", lines |-> Lines(Files[CHOOSE f \in Source(name) : TRUE])]]
  /\ answer' = NoAnswer
  /\ UNCHANGED <<initial, uncertain, saved>>

Close(index) ==
  /\ Counted /\ ~uncertain
  /\ streams' = Set(index, Closed)
  /\ trueStreams' = [trueStreams EXCEPT ![index] = Closed]
  /\ answer' = NoAnswer
  /\ UNCHANGED <<initial, uncertain, saved>>

Read(index, raw) ==
  /\ Counted /\ Known(index) /\ ~eof(index)
  /\ LET s == streams[index]
         r == IF raw THEN readline(s.file, s.at) ELSE read(s.file, s.at, <<>>)
         lines == trueStreams[index].lines
         t == IF raw THEN TrueReadline(lines) ELSE TrueRead(lines)
     IN  /\ r # Failure
         /\ streams' = Set(index, r.stream)
         /\ trueStreams' = [trueStreams EXCEPT ![index] = t.stream]
         /\ answer' = [said |-> r.tokens, true |-> t.tokens]
  /\ UNCHANGED <<initial, uncertain, saved>>

(* A probe of the reader, which is given up without TeX having run it.     *)
Checkpoint ==
  /\ saved = <<>>
  /\ saved' = <<[streams |-> streams, uncertain |-> uncertain, trueStreams |-> trueStreams]>>
  /\ UNCHANGED <<initial, streams, uncertain, trueStreams, answer, steps>>

Rollback ==
  /\ saved # <<>>
  /\ streams' = saved[1].streams /\ uncertain' = saved[1].uncertain
  /\ trueStreams' = saved[1].trueStreams /\ saved' = <<>> /\ answer' = NoAnswer
  /\ UNCHANGED <<initial, steps>>

StreamsNext ==
  \/ Retain \/ Checkpoint \/ Rollback
  \/ \E i \in Streams : \/ Close(i)
                        \/ \E name \in Queries : Open(i, name)
                        \/ \E raw \in BOOLEAN : Read(i, raw)

-----------------------------------------------------------------------------
StreamsTypeOK ==
  /\ DOMAIN streams \subseteq Streams
  /\ \A i \in DOMAIN streams : streams[i] # Closed =>
       LET text == Files[streams[i].file]
       IN  streams[i].at \in {0, Len(text)} \cup { n \in DOMAIN text : text[n] = "/" }

(* Whatever \ifeof and \read still answer about is what TeX has: the same  *)
(* lines are unread in the same file.  Neither closing, opening nor a      *)
(* rolled back probe ends a doubt about the other streams.                 *)
StreamsAreTrue ==
  \A i \in Streams : Known(i) =>
    /\ eof(i) <=> trueStreams[i] = Closed
    /\ ~eof(i) =>
         LET text == Files[streams[i].file]
         IN  trueStreams[i].lines = Lines(SubSeq(text, streams[i].at + 1, Len(text)))

(* A reading gives TeX's tokens: balanced lines, cut at an unmatched brace, *)
(* and the empty line behind the end of the file.                          *)
ReadingsAreTrue == answer.said = answer.true
================================================================================
