------------------------------ MODULE Dispatcher ------------------------------
(***************************************************************************)
(* reading/dispatcher.py as the traversal of prepare/session.py drives it:  *)
(* one token after another is executed, skipped or captured; groups and    *)
(* conditionals nest independently of each other and of the input files;   *)
(* an input that cannot be read on is retained whole, and its caller       *)
(* resumes with the structure it had at the handoff.                       *)
(*                                                                         *)
(* The source is not chosen in advance: reading a token of an input        *)
(* reveals it, so text[n] is also how far the cursor of input n has come.  *)
(***************************************************************************)
EXTENDS Integers, Sequences, SequencesExt, SelectedText

CONSTANTS
  GroupKinds,  (* _GroupFrame.kind: "simple" braces and the others.           *)
  Indices,     (* Values an \ifcase may compute.                              *)
  MaxTokens,   (* Bound on the tokens of all inputs together.                 *)
  MaxInputs    (* Bound on the inputs entered, the root among them.           *)

ASSUME DispatcherAssumption ==
  /\ Indices \subseteq Int
  /\ MaxTokens \in Nat /\ MaxInputs \in Nat \ {0}

VARIABLES
  text,         (* What has been read of each input entered so far.           *)
  inputs,       (* The open inputs, the root first: the dispatcher's parents
                   and the session's frames, with the state at each handoff.  *)
  groups,       (* _groups: the kinds of the open groups.                     *)
  conditionals, (* _conditionals.                                             *)
  mode,         (* Executing, or inside a scan: _skip_start, _pending_skip
                   and the scanners' local variables.                         *)
  published,    (* The pieces and omissions of the prepared document.         *)
  remainder,    (* Once reading has stopped: where the preserved remainder
                   of the root begins.                                        *)
  stop          (* Whether, and where, reading has stopped.                   *)

vars == <<text, inputs, groups, conditionals, mode, published, remainder, stop>>

Token(role) == [role |-> role, kind |-> "none", index |-> 0]
Tokens ==
  { Token(role) : role \in {"iftrue", "iffalse", "ifunknown", "else", "or", "fi", "input", "invalid"} }
  \cup { [Token("ifcase") EXCEPT !.index = n] : n \in Indices }
  \cup { [Token(role) EXCEPT !.kind = k] : role \in {"open", "close"}, k \in GroupKinds }

Conditionals == [truth : BOOLEAN, inAlternative : BOOLEAN, isCase : BOOLEAN, remaining : Int]
Handoffs == [input : Nat, groups : Seq(GroupKinds), conditionals : Seq(Conditionals), published : Nat]
Fates == {"executed", "skipped", "captured", "discarded", "failed", "entered", "retained"}
Entries == [input : Nat, at : Nat, fate : Fates, child : Nat]

Executing == [scan |-> "none"]
Pending == [scan |-> "pending"]
Skipping(start, depth) == [scan |-> "skip", start |-> start, depth |-> depth]
Capturing(start, open, branches) ==
  [scan |-> "capture", start |-> start, open |-> open, branches |-> branches]
Modes ==
  {Executing, Pending}
  \cup [scan : {"skip"}, start : Nat, depth : Nat]
  \cup [scan : {"capture"}, start : Nat, open : Nat,
        branches : Seq([base : Nat, alternative : BOOLEAN])]

TypeOK ==
  /\ text \in Seq(Seq(Tokens)) /\ Len(text) \in 1..MaxInputs
  /\ inputs \in Seq(Handoffs) /\ Len(inputs) \in 1..Len(text)
  /\ groups \in Seq(GroupKinds)
  /\ conditionals \in Seq(Conditionals)
  /\ mode \in Modes
  /\ published \in Seq(Entries)
  /\ remainder \in Nat /\ stop \in {"no", "token", "end"}

Init ==
  /\ text = <<<<>>>>
  /\ inputs = <<[input |-> 1, groups |-> <<>>, conditionals |-> <<>>, published |-> 0]>>
  /\ groups = <<>> /\ conditionals = <<>>
  /\ mode = Executing
  /\ published = <<>>
  /\ remainder = 0 /\ stop = "no"

-----------------------------------------------------------------------------
(* The cursor and the prepared document. *)

Reading == stop = "no"
Current == Last(inputs).input
Position == Len(text[Current])      (* The tokens of the current input read. *)
AtRoot == Len(inputs) = 1

TokensRead == FoldLeft(LAMBDA n, source : n + Len(source), 0, text)
Moved(t) == [text EXCEPT ![Current] = Append(@, t)]
Consume(t) == TokensRead < MaxTokens /\ text' = Moved(t)

Entry(at, fate, child) == [input |-> Current, at |-> at, fate |-> fate, child |-> child]
Region(from, to, fate) == [i \in 1..(to + 1 - from) |-> Entry(from + i - 1, fate, 0)]
Publish(entries) == published' = published \o entries
PublishNext(fate) == Publish(<<Entry(Position + 1, fate, 0)>>)

(* input_recovery, taken when an input is entered. *)
Handoff(child) ==
  [input |-> child, groups |-> groups, conditionals |-> conditionals,
   published |-> Len(published)]

(* Mutant of RetainInput: the conditionals the input opened stay open. *)
RetainInputInside ==
  LET handoff == Last(inputs)
      caller == inputs[Len(inputs) - 1].input
  IN  /\ inputs' = Front(inputs)
      /\ groups' = handoff.groups
      /\ mode' = Executing
      /\ published' = Append(SubSeq(published, 1, handoff.published),
                             [input |-> caller, at |-> Len(text[caller]), fate |-> "retained",
                              child |-> handoff.input])
      /\ UNCHANGED <<conditionals, remainder, stop>>

(* The input's pieces are withdrawn, a reference to the whole file takes    *)
(* their place, and resume_input restores the caller.                      *)
RetainInput ==
  LET handoff == Last(inputs)
      caller == inputs[Len(inputs) - 1].input
  IN  /\ inputs' = Front(inputs)
      /\ groups' = handoff.groups /\ conditionals' = handoff.conditionals
      /\ mode' = Executing
      /\ published' = Append(SubSeq(published, 1, handoff.published),
                             [input |-> caller, at |-> Len(text[caller]), fate |-> "retained",
                              child |-> handoff.input])
      /\ UNCHANGED <<remainder, stop>>

(* A reading boundary whose residue begins at start. *)
Boundary(start, where) ==
  \/ ~AtRoot /\ RetainInput
  \/ /\ AtRoot
     /\ remainder' = start /\ stop' = where
     /\ UNCHANGED <<inputs, groups, conditionals, mode, published>>

-----------------------------------------------------------------------------
(* Conditionals: route_conditional. *)

Frame == Last(conditionals)

Routable(role) ==
  /\ conditionals # <<>>
  /\ role = "else" => ~Frame.inAlternative
  /\ role = "or" => Frame.isCase /\ ~Frame.inAlternative

NextCase == [Frame EXCEPT !.remaining = @ - 1, !.truth = Frame.remaining = 1]

(* Mutant of Routed: the counter reaches its case one \or too late. *)
RoutedLate(role) ==
  CASE role = "fi" -> Front(conditionals)
    [] role = "or" /\ ~Frame.truth ->
         [conditionals EXCEPT ![Len(conditionals)] =
            [Frame EXCEPT !.remaining = @ - 1, !.truth = Frame.remaining = 0]]
    [] OTHER -> [conditionals EXCEPT ![Len(conditionals)].inAlternative = TRUE]

Routed(role) ==
  CASE role = "fi" -> Front(conditionals)
    [] role = "or" /\ ~Frame.truth -> [conditionals EXCEPT ![Len(conditionals)] = NextCase]
    [] OTHER -> [conditionals EXCEPT ![Len(conditionals)].inAlternative = TRUE]

SkipsAfter(role) ==
  \/ role \in {"else", "or"} /\ Frame.truth
  \/ role = "or" /\ ~NextCase.truth

(* Mutant of RouteDelimiter: the residue begins at the cursor. *)
RouteDelimiterPast(t, at) ==
  \/ /\ Routable(t.role)
     /\ conditionals' = Routed(t.role)
     /\ mode' = IF SkipsAfter(t.role) THEN Skipping(at + 1, 0) ELSE Executing
     /\ Publish(<<Entry(at, "executed", 0)>>)
     /\ UNCHANGED <<inputs, groups, remainder, stop>>
  \/ ~Routable(t.role) /\ Boundary(at + 1, "token")

RouteDelimiter(t, at) ==
  \/ /\ Routable(t.role)
     /\ conditionals' = Routed(t.role)
     /\ mode' = IF SkipsAfter(t.role) THEN Skipping(at + 1, 0) ELSE Executing
     /\ Publish(<<Entry(at, "executed", 0)>>)
     /\ UNCHANGED <<inputs, groups, remainder, stop>>
  \/ ~Routable(t.role) /\ Boundary(at, "token")

-----------------------------------------------------------------------------
(* Executing. *)

Execute(t) == Reading /\ mode = Executing /\ Consume(t)

BeginGroup(t) ==
  /\ t.role = "open" /\ Execute(t)
  /\ groups' = Append(groups, t.kind)
  /\ PublishNext("executed")
  /\ UNCHANGED <<inputs, conditionals, mode, remainder, stop>>

EndGroup(t) ==
  /\ t.role = "close" /\ Execute(t)
  /\ IF groups # <<>> /\ Last(groups) = t.kind
       THEN /\ groups' = Front(groups)
            /\ PublishNext("executed")
            /\ UNCHANGED <<inputs, conditionals, mode, remainder, stop>>
       ELSE Boundary(Position + 1, "token")

OpenConditional(t) ==
  /\ t.role \in {"iftrue", "iffalse", "ifcase"} /\ Execute(t)
  /\ LET truth == t.role # "iffalse" /\ t.index = 0
     IN  /\ conditionals' = Append(conditionals,
              [truth |-> truth, inAlternative |-> FALSE, isCase |-> t.role = "ifcase",
               remaining |-> t.index])
         /\ mode' = IF truth THEN Executing ELSE Skipping(Position + 2, 0)
  /\ PublishNext("executed")
  /\ UNCHANGED <<inputs, groups, remainder, stop>>

MeetDelimiter(t) ==
  t.role \in {"else", "or", "fi"} /\ Execute(t) /\ RouteDelimiter(t, Position + 1)

(* An unresolved predicate: its conditional is captured, not routed. *)
Capture(t) ==
  /\ t.role = "ifunknown" /\ Execute(t)
  /\ mode' = Capturing(Position + 1, 0, <<[base |-> 0, alternative |-> FALSE]>>)
  /\ UNCHANGED <<inputs, groups, conditionals, published, remainder, stop>>

EnterInput(t) ==
  /\ t.role = "input" /\ Reading /\ mode = Executing
  /\ TokensRead < MaxTokens /\ Len(text) < MaxInputs
  /\ text' = Append(Moved(t), <<>>)
  /\ inputs' = Append(inputs, Handoff(Len(text) + 1))
  /\ Publish(<<Entry(Position + 1, "entered", Len(text) + 1)>>)
  /\ UNCHANGED <<groups, conditionals, mode, remainder, stop>>

(* The file is absent, unreadable or already open: the command's attempt is *)
(* rolled back, and reading resumes after the scanned command.              *)
FailInput(t) ==
  /\ t.role = "input" /\ Execute(t)
  /\ PublishNext("failed")
  /\ UNCHANGED <<inputs, groups, conditionals, mode, remainder, stop>>

(* An invalid character: lint may drop it if nothing is unresolved yet. *)
MeetInvalid(t) ==
  /\ t.role = "invalid" /\ Execute(t)
  /\ \/ Boundary(Position + 1, "token")
     \/ /\ \A e \in ToSet(published) : e.fate \notin {"captured", "failed", "retained"}
        /\ PublishNext("discarded")
        /\ UNCHANGED <<inputs, groups, conditionals, mode, remainder, stop>>

-----------------------------------------------------------------------------
(* Skipping: SkippedBranchScanner.read, a token a step. *)

(* Mutant of StopsSkip: a discarded \else branch also stops at \or, \else. *)
StopsSkipAlways(t) == t.role \in {"else", "or", "fi"} /\ mode.depth = 0

StopsSkip(t) ==
  /\ t.role \in {"else", "or", "fi"} /\ mode.depth = 0
  /\ t.role = "fi" \/ ~Frame.inAlternative

SkipToken(t) ==
  /\ Reading /\ mode.scan = "skip" /\ Consume(t)
  /\ t.role # "invalid" /\ ~StopsSkip(t)
  /\ mode' = CASE t.role \in Openers -> [mode EXCEPT !.depth = @ + 1]
               [] t.role = "fi" -> [mode EXCEPT !.depth = @ - 1]
               [] OTHER -> mode
  /\ UNCHANGED <<inputs, groups, conditionals, published, remainder, stop>>

(* The region is returned; its terminator is still owed. *)
EndSkip(t) ==
  /\ Reading /\ mode.scan = "skip" /\ Consume(t)
  /\ StopsSkip(t)
  /\ Publish(Region(mode.start, Position, "skipped"))
  /\ mode' = Pending
  /\ UNCHANGED <<inputs, groups, conditionals, remainder, stop>>

FailSkip(t) ==
  /\ Reading /\ mode.scan = "skip" /\ Consume(t)
  /\ t.role = "invalid" /\ Boundary(mode.start, "token")

(* The next call of next_item routes the terminator. *)
RoutePending ==
  /\ Reading /\ mode = Pending
  /\ RouteDelimiter(Last(text[Current]), Position)
  /\ UNCHANGED text

-----------------------------------------------------------------------------
(* Capturing: ConditionalScanner.read, a token a step. *)

Branch == Last(mode.branches)

(* Mutant of Refuses: a group of the caller may be closed. *)
RefusesInside(t) ==
  \/ t.role \in {"invalid", "ifcase"}
  \/ t.role \in {"open", "close"} /\ t.kind # "simple"
  \/ t.role \in {"else", "or", "fi"} /\ mode.open # Branch.base
  \/ t.role \in {"else", "or"} /\ Branch.alternative

(* What raw capture refuses: no operand recipe, a group command, a group    *)
(* that crosses the branch, a second alternative.                           *)
Refuses(t) ==
  \/ t.role \in {"invalid", "ifcase"}
  \/ t.role \in {"open", "close"} /\ t.kind # "simple"
  \/ t.role = "close" /\ mode.open = Branch.base
  \/ t.role \in {"else", "or", "fi"} /\ mode.open # Branch.base
  \/ t.role \in {"else", "or"} /\ Branch.alternative

Captures(t) ==
  LET last == Len(mode.branches)
  IN  CASE t.role = "open" -> [mode EXCEPT !.open = @ + 1]
        [] t.role = "close" -> [mode EXCEPT !.open = @ - 1]
        [] t.role \in Openers ->
             [mode EXCEPT !.branches = Append(@, [base |-> mode.open, alternative |-> FALSE])]
        [] t.role \in {"else", "or"} -> [mode EXCEPT !.branches[last].alternative = t.role = "else"]
        [] t.role = "fi" -> [mode EXCEPT !.branches = Front(@)]
        [] OTHER -> mode

CaptureToken(t) ==
  /\ Reading /\ mode.scan = "capture" /\ Consume(t)
  /\ ~Refuses(t) /\ Captures(t).branches # <<>>
  /\ mode' = Captures(t)
  /\ UNCHANGED <<inputs, groups, conditionals, published, remainder, stop>>

EndCapture(t) ==
  /\ Reading /\ mode.scan = "capture" /\ Consume(t)
  /\ ~Refuses(t) /\ Captures(t).branches = <<>>
  /\ Publish(Region(mode.start, Position + 1, "captured"))
  /\ mode' = Executing
  /\ UNCHANGED <<inputs, groups, conditionals, remainder, stop>>

FailCapture(t) ==
  /\ Reading /\ mode.scan = "capture" /\ Consume(t)
  /\ Refuses(t) /\ Boundary(mode.start, "token")

-----------------------------------------------------------------------------
(* The end of an input, or \endinput. *)

LeaveInput ==
  /\ Reading /\ mode = Executing /\ ~AtRoot
  /\ inputs' = Front(inputs)
  /\ UNCHANGED <<text, groups, conditionals, mode, published, remainder, stop>>

(* The hooks after a file fail: the file is retained after it was read. *)
FailLeaving ==
  /\ Reading /\ mode = Executing /\ ~AtRoot
  /\ RetainInput
  /\ UNCHANGED text

(* The root ends, with open structure or without: nothing remains. *)
EndRoot ==
  /\ Reading /\ mode = Executing /\ AtRoot
  /\ remainder' = Position + 1 /\ stop' = "end"
  /\ UNCHANGED <<text, inputs, groups, conditionals, mode, published>>

(* A scan does not leave its input. *)
EndInScan ==
  /\ Reading /\ mode.scan \in {"skip", "capture"}
  /\ Boundary(mode.start, "end")
  /\ UNCHANGED text

Next ==
  \/ \E t \in Tokens :
       \/ BeginGroup(t) \/ EndGroup(t)
       \/ OpenConditional(t) \/ MeetDelimiter(t) \/ Capture(t)
       \/ EnterInput(t) \/ FailInput(t) \/ MeetInvalid(t)
       \/ SkipToken(t) \/ EndSkip(t) \/ FailSkip(t)
       \/ CaptureToken(t) \/ EndCapture(t) \/ FailCapture(t)
  \/ RoutePending
  \/ LeaveInput \/ FailLeaving \/ EndRoot \/ EndInScan

Spec == Init /\ [][Next]_vars

-----------------------------------------------------------------------------
(* The tokens behind the prepared document, in its order. *)
Stream == [i \in DOMAIN published |-> text[published[i].input][published[i].at]]

(* Every token is executed, skipped or captured as TeX's conditionals, read *)
(* as a whole across all inputs that were not retained, decide: no branch   *)
(* is executed that TeX would skip, and none skipped that it would execute. *)
SelectedAsTeX ==
  \A i \in DOMAIN published :
    LET fate == published[i].fate
    IN  Fate(Stream, i) = IF fate \in {"skipped", "captured"} THEN fate ELSE "executed"

(* Reading stops at a token only if TeX, or the capture of a conditional,   *)
(* has to refuse it, and at the end only inside a conditional; and nothing  *)
(* that has to be refused is read over, but for a character lint drops.     *)
StopsForCause ==
  LET read == Stream \o SubSeq(text[1], remainder, Len(text[1]))
  IN  /\ stop = "token" => Refused(read, Len(read))
      /\ stop = "end" /\ remainder <= Len(text[1]) => Enclosing(read, Len(read) + 1) # {}
      /\ \A i \in DOMAIN published : Refused(Stream, i) => published[i].fate = "discarded"

(* The stacks hold what the prepared document leaves open, and nothing of   *)
(* an input that was retained: a conditional per open \if, executing or     *)
(* skipping as TeX would, and a group per executed opener.                  *)
StructureIsTrue ==
  LET end == Len(Stream) + 1
      open == OpenGroups(Stream, end)
  IN  /\ Len(conditionals) = Cardinality(Enclosing(Stream, end))
      /\ Reading => (Selected(Stream, end) <=> mode.scan \in {"none", "capture"})
      /\ Len(groups) = Cardinality(open)
      /\ \A g \in open : groups[Cardinality({ h \in open : h <= g })] = Stream[g].kind

(* How much of input n the prepared document accounts for. *)
Accounted(n) ==
  CASE n # 1 /\ ~\E e \in ToSet(published) : e.fate = "entered" /\ e.child = n -> 0
    [] n = 1 /\ ~Reading -> remainder - 1
    [] n = Current /\ Reading /\ mode.scan \in {"skip", "capture"} -> mode.start - 1
    [] n = Current /\ Reading /\ mode = Pending -> Len(text[n]) - 1
    [] OTHER -> Len(text[n])

(* Nothing is lost and nothing is published twice: the pieces of each input *)
(* are its tokens, once each and in order, up to the cursor or the          *)
(* preserved remainder; an input retained whole has no pieces beside it;    *)
(* and the pieces of an input stand in the place of the command that        *)
(* entered it.                                                              *)
NothingLost ==
  /\ \A n \in DOMAIN text : { e.at : e \in { d \in ToSet(published) : d.input = n } } = 1..Accounted(n)
  /\ \A i, j \in DOMAIN published :
       i < j /\ published[i].input = published[j].input => published[i].at < published[j].at
  /\ \A i, j \in DOMAIN published :
       i < j /\ published[i].fate = "entered" /\ published[j].input = published[i].child =>
         \A k \in i..j : published[k].input = published[i].input => k = i
=============================================================================
