-------------------------------- MODULE Content --------------------------------
(***************************************************************************)
(* engine/content.py and the primitives on lists: the lists a content      *)
(* build is making.  A build is one record: the stack of open lists        *)
(* (frames), the dispatcher's stack of groups, the box registers which the *)
(* groups save, the stack of token programs being executed, and the work   *)
(* charged.  Every operation takes the build and returns it, with `failed' *)
(* set where the code raises.                                              *)
(*                                                                         *)
(* What is typeset is a mark: the `time' it was appended at, which also    *)
(* passes with every command but characters and alignment tabs.            *)
(***************************************************************************)
EXTENDS Naturals, Sequences, SequencesExt, FiniteSets

CONSTANTS
  MaxNesting,  (* The open groups a content build allows.                       *)
  Limit,       (* ContentState.limit: the node budget.                          *)
  Macros,      (* The replacement text of each macro.                           *)
  Documents    (* Commands, opening, hooks, columns and floats; `length' is the
                  bound on the commands after the opening.                      *)

VARIABLES
  build,       (* The build.                             *)
  attempt,     (* The build before the current command.  *)
  vocabulary,  (* The commands of the document.          *)
  left         (* Bound: the commands it may still have. *)

contentVars == <<build, attempt, vocabulary, left>>

-----------------------------------------------------------------------------
(* Node: `run' is the text run of a character, `about' what a write, a     *)
(* stream operation or a driver event is about.                            *)
RECURSIVE Sizes(_)
Sizes(nodes) == IF nodes = <<>> THEN 0 ELSE Head(nodes).size + Sizes(Tail(nodes))

Node(kind, mark, kids) ==
  [kind |-> kind, mark |-> mark, kids |-> kids, run |-> <<>>, about |-> <<>>, size |-> 1 + Sizes(kids)]
About(node, about) == [node EXCEPT !.about = about]
Void == Node("void", 0, <<>>)

RECURSIVE Marks(_)
Marks(nodes) ==
  IF nodes = <<>> THEN <<>>
  ELSE (IF Head(nodes).mark > 0 THEN <<Head(nodes).mark>> ELSE <<>>) \o Marks(Head(nodes).kids) \o Marks(Tail(nodes))

Final(nodes) == IF nodes = <<>> THEN Void ELSE nodes[Len(nodes)]
Top(s) == s.frames[Len(s.frames)]
LastNode(s) == Final(Top(s).nodes)
InProgram(s) == s.programs # <<>> /\ s.programs[Len(s.programs)].frozen

Failed(s) == s.failed # ""
Fails(s, reason) == [s EXCEPT !.failed = IF @ = "" THEN reason ELSE @]
Requires(s, condition, reason) == IF condition THEN s ELSE Fails(s, reason)

-----------------------------------------------------------------------------
(* node and emit: a node costs one, and being referred to costs its size,  *)
(* so that a copied box is paid for as the tree it stands for.             *)
Charged(s, amount) ==
  IF Failed(s) THEN s ELSE Requires([s EXCEPT !.work = @ + amount], s.work + amount <= Limit, "content_budget")

SetNodes(s, nodes) == IF Failed(s) THEN s ELSE [s EXCEPT !.frames[Len(s.frames)].nodes = nodes]
AppendNodes(s, nodes) == SetNodes(s, Top(s).nodes \o nodes)

Emit(s, node) == AppendNodes(Charged(s, node.size), <<node>>)
EmitNew(s, node) == AppendNodes(Charged(s, 1 + node.size), <<node>>)

Marked(s) == [s EXCEPT !.time = @ + 1, !.made = @ \cup {s.time + 1}]
EmitLeaf(s, kind) == EmitNew(Marked(s), Node(kind, s.time + 1, <<>>))

(* break_text: the next character starts a text run. *)
BreakText(s) ==
  IF Top(s).mode # "h" THEN s
  ELSE [s EXCEPT !.work = @ + 1, !.frames[Len(s.frames)].run = <<s.work + 1>>]

-----------------------------------------------------------------------------
(* begin_group and end_group of the dispatcher, and the save journal of    *)
(* the box registers: `saved' holds what a local assignment replaced.      *)
InnerGroup(s) == IF s.groups = <<>> THEN "none" ELSE s.groups[Len(s.groups)].kind

BeginGroup(s, kind) ==
  IF Failed(s) THEN s
  ELSE Requires([s EXCEPT !.groups = Append(@, [kind |-> kind, saved |-> <<>>, after |-> <<>>])],
                Len(s.groups) < MaxNesting, "content_budget")

Restored(boxes, saved) == [k \in DOMAIN boxes |-> IF k \in DOMAIN saved THEN saved[k] ELSE boxes[k]]

EndGroup(s, kind) ==
  IF Failed(s) THEN s
  ELSE IF InnerGroup(s) # kind THEN Fails(s, "mismatched_group")
  ELSE [s EXCEPT !.groups = Front(@), !.boxes = Restored(@, s.groups[Len(s.groups)].saved)]

(* assign of the state cells, the value saved once in the current group.   *)
SavedIn(s, g, k, global) ==
  LET before == s.groups[g].saved IN
  IF global THEN [x \in DOMAIN before \ {k} |-> before[x]]
  ELSE IF g < Len(s.groups) \/ k \in DOMAIN before THEN before
  ELSE [x \in DOMAIN before \cup {k} |-> IF x = k THEN s.boxes[k] ELSE before[x]]

AssignBox(s, k, node, global) ==
  [s EXCEPT !.boxes[k] = node,
            !.groups = [g \in DOMAIN @ |-> [@[g] EXCEPT !.saved = SavedIn(s, g, k, global)]]]

OpenFrame(s, kind, mode, info) ==
  IF Failed(s) THEN s
  ELSE [s EXCEPT !.frames = Append(@, [kind |-> kind, mode |-> mode, nodes |-> <<>>, info |-> info, run |-> <<>>,
                                       fraction |-> FALSE, numerator |-> <<>>, depth |-> "ignored"])]

(* A command that owns its list owns a group of the same kind. *)
OpenOwned(s, kind, mode, info) == OpenFrame(BeginGroup(s, kind), kind, mode, info)

-----------------------------------------------------------------------------
(* evaluate: a frozen program, after which the command that wanted it goes *)
(* on.  insert_tokens: a program takes the tokens before those it has      *)
(* left; physical input executes them at once.                             *)
Nothing == [do |-> "nothing", command |-> ""]

Evaluate(s, tokens, then) ==
  IF Failed(s) THEN s
  ELSE [s EXCEPT !.programs = Append(@, [tokens |-> tokens, then |-> then, frozen |-> TRUE])]

InsertTokens(s, tokens) ==
  IF Failed(s) \/ tokens = <<>> THEN s
  ELSE IF InProgram(s) THEN [s EXCEPT !.programs[Len(s.programs)].tokens = tokens \o @]
  ELSE Evaluate(s, tokens, Nothing)

(* Physical input that is read before the rest: \input, or a second `$'.   *)
Physical(s, tokens) ==
  IF Failed(s) THEN s
  ELSE IF InProgram(s) THEN InsertTokens(s, tokens)
  ELSE [s EXCEPT !.programs = Append(@, [tokens |-> tokens, then |-> Nothing, frozen |-> FALSE])]

Hook(s, name) == IF Failed(s) \/ s.hooks[name] = <<>> THEN s ELSE Evaluate(s, s.hooks[name], Nothing)

-----------------------------------------------------------------------------
(* horizontal: text in a vertical list starts a paragraph, and goes on     *)
(* when \everypar is done and has not changed the mode.                    *)
StartsParagraph == {"a", "x", "$", "space", "indent", "noindent", "vrule", "hskip", "unhbox", "unhcopy", "link"}

Horizontal(s, command) ==
  Evaluate(OpenFrame(s, "paragraph", "h", <<>>), s.hooks["everypar"],
           [do |-> "resume", command |-> IF command \in {"indent", "noindent"} THEN "begun" ELSE command])

(* paragraph: the final interword space goes. *)
WithoutFinalSpace(nodes) == IF Final(nodes).kind = "space" THEN Front(nodes) ELSE nodes
FinalSpace(nodes) == IF Final(nodes).kind = "space" THEN {Final(nodes).mark} ELSE {}

SetDepth(s, depth) == IF Failed(s) THEN s ELSE [s EXCEPT !.frames[Len(s.frames)].depth = depth]

Paragraph(s) ==
  IF Failed(s) THEN s
  ELSE IF Top(s).mode = "m" THEN Fails(s, "content_mode")
  ELSE IF Top(s).kind # "paragraph" THEN s
  ELSE SetDepth(EmitNew([s EXCEPT !.frames = Front(@), !.discarded = @ \cup FinalSpace(Top(s).nodes)],
                        Node("paragraph", 0, WithoutFinalSpace(Top(s).nodes))), "unknown")

(* What needs a vertical list ends a paragraph first. *)
InVertical(s) == IF Failed(s) THEN s ELSE Requires(s, Top(s).mode = "v", "content_mode")
Vertical(s) == InVertical(Paragraph(s))

-----------------------------------------------------------------------------
(* character and math_character: a character of the current run, or an     *)
(* atom of its own in math.                                                *)
MathCharacter(s) ==
  IF Failed(s) THEN s
  ELSE IF Top(s).mode # "m" THEN Fails(s, "content_mode")
  ELSE EmitNew(Charged(Marked(s), 1), Node("noad", 0, <<Node("math_character", s.time + 1, <<>>)>>))

EmitCharacter(s, char) ==
  EmitNew(Marked(s), [Node("character", s.time + 1, <<>>) EXCEPT !.run = Top(s).run, !.about = <<char>>])

Character(s, char) ==
  IF Top(s).mode = "m" THEN MathCharacter(s)
  ELSE EmitCharacter(IF Top(s).run = <<>> THEN BreakText(s) ELSE s, char)

(* space: nothing in a vertical list, and only when explicit in math. *)
Space(s, explicit) ==
  IF Top(s).mode \in (IF explicit THEN {"h", "m"} ELSE {"h"}) THEN EmitLeaf(s, "space") ELSE s

(* append_baseline: between two boxes of a vertical list there is glue,    *)
(* whose width is unknown when a depth or a height is.  A box with text is *)
(* of unknown size.                                                        *)
Known(node) == Marks(<<node>>) = <<>>
Baseline(s, node) ==
  IF Top(s).depth = "unknown" \/ ~Known(node) THEN Node("baseline_glue", 0, <<>>) ELSE Node("glue", 0, <<>>)
AppendBaseline(s, node) ==
  SetDepth(IF Top(s).depth = "ignored" THEN s ELSE EmitNew(s, Baseline(s, node)),
           IF Known(node) THEN "known" ELSE "unknown")

-----------------------------------------------------------------------------
(* Lifecycle: what writes and streams do, without an output routine.  The  *)
(* text of a write is the `time' its macros were expanded at.  There is    *)
(* one stream and one file.                                                *)
Recorded(s, record, size) ==
  IF Failed(s) THEN s ELSE Charged([s EXCEPT !.records = Append(@, record)], size)

Observe(s, node, shipment) ==
  LET at == IF node.about.immediate THEN node.about.at ELSE s.time IN
  Recorded(Charged([s EXCEPT !.lines = IF s.file = "open" THEN Append(@, at) ELSE @], 2),
           [id |-> node.about.id, at |-> at, shipment |-> shipment, filed |-> s.file = "open"], 2)

Stream(s, node) ==
  IF Failed(s) THEN s
  ELSE IF node.about.opens THEN [s EXCEPT !.file = "open", !.lines = <<>>]
  ELSE [s EXCEPT !.file = IF @ = "open" THEN "closed" ELSE @]

Boxes == {"hbox", "vbox", "vtop"}

(* shipout: deferred effects are found in boxes, never in leaders. *)
RECURSIVE Effects(_)
Effects(nodes) ==
  IF nodes = <<>> THEN <<>>
  ELSE (IF Head(nodes).kind \in {"write", "output_stream"} /\ ~Head(nodes).about.immediate THEN <<Head(nodes)>>
        ELSE IF Head(nodes).kind \in Boxes THEN Effects(Head(nodes).kids) ELSE <<>>) \o Effects(Tail(nodes))

RECURSIVE Visit(_, _)
Visit(s, effects) ==
  IF Failed(s) \/ effects = <<>> THEN s
  ELSE Visit(IF Head(effects).kind = "write" THEN Observe(s, Head(effects), Len(s.shipped)) ELSE Stream(s, Head(effects)),
             Tail(effects))

Shipout(s, box) == Visit([s EXCEPT !.shipped = Append(@, box)], Effects(<<box>>))

-----------------------------------------------------------------------------
(* deliver_box: a finished box goes where its command said. *)
Appended(s, node) ==
  CASE Top(s).mode = "m" -> EmitNew(s, Node("noad", 0, <<node>>))
    [] Top(s).mode = "v" -> Emit(AppendBaseline(s, node), node)
    [] OTHER -> Emit(s, node)

Stored(s, node, target) ==
  [AssignBox(s, target.register, node, target.global) EXCEPT !.stored = @ \cup Range(Marks(<<node>>))]
FloatRecord(s) == [id |-> 0, at |-> s.time, shipment |-> 0, filed |-> FALSE]

DeliverBox(s, node, target) ==
  IF Failed(s) THEN s
  ELSE CASE target.to = "register" ->
              IF node = Void \/ target.register \notin s.floats THEN Stored(s, node, target)
              ELSE Recorded(Charged(Stored(s, node, target), 1), FloatRecord(s), 1 + node.size)
         [] target.to # "register" /\ node = Void -> s
         [] target.to = "shipout" /\ node # Void -> EmitNew(Shipout(s, node), Node("shipout", 0, <<node>>))
         [] target.to = "leaders" /\ node # Void ->
              EmitNew(Requires(s, Top(s).mode # "v", "leaders_glue"), Node("leaders", 0, <<node>>))
         [] target.to = "vcenter" -> EmitNew(s, Node("noad", 0, <<node>>))
         [] target.to = "append" /\ node # Void -> Appended(s, node)

To(where) == [to |-> where, register |-> 0, global |-> FALSE]
ToRegister(k, global) == [to |-> "register", register |-> k, global |-> global]

ReadBoxKept(s, take) == [s EXCEPT !.copied = IF take THEN @ ELSE @ \cup Range(Marks(<<s.boxes[0]>>))]
(* read_box: taking a box empties the slot it is in, saving nothing. *)
ReadBox(s, take) ==
  IF take THEN [s EXCEPT !.boxes[0] = Void] ELSE [s EXCEPT !.copied = @ \cup Range(Marks(<<s.boxes[0]>>))]

(* make_box: a register, the last box of an internal list, or a new list,  *)
(* at whose entry the pending \afterassignment and the hook are executed.  *)
LastBox(s, target) ==
  IF Top(s).mode = "m" \/ Top(s).kind = "document" THEN Fails(s, "content_mode")
  ELSE IF LastNode(s).kind \in Boxes THEN DeliverBox(SetNodes(s, Front(Top(s).nodes)), LastNode(s), target)
  ELSE DeliverBox(s, Void, target)

Due(s, kind, target) ==
  (IF target.to = "register" THEN s.afterAssignment ELSE <<>>)
    \o s.hooks[IF kind = "hbox" THEN "everyhbox" ELSE "everyvbox"]

NewBox(s, kind, target) ==
  Evaluate(OpenOwned([s EXCEPT !.afterAssignment = IF target.to = "register" THEN <<>> ELSE @],
                     kind, IF kind = "hbox" THEN "h" ELSE "v", target),
           Due(s, kind, target), Nothing)

MakeBox(s, kind, target) ==
  CASE kind \in {"box", "copy"} -> DeliverBox(ReadBox(s, kind = "box"), s.boxes[0], target)
    [] kind = "lastbox" -> LastBox(s, target)
    [] OTHER -> NewBox(s, kind, target)

(* unbox: the list inside, if it runs the way this one does; the runs of   *)
(* its characters are no longer those of the text around it.               *)
Rerun(s, node) == IF node.kind = "character" THEN [node EXCEPT !.run = <<s.time, s.work>> \o @] ELSE node

UnboxIn(s, mode, take) ==
  LET node == s.boxes[0] IN
  IF Failed(s) THEN s
  ELSE IF Top(s).mode # mode THEN Fails(s, "content_mode")
  ELSE IF node # Void /\ (node.kind = "hbox") # (mode = "h") THEN Fails(s, "box_kind")
  ELSE AppendNodes(Charged(ReadBox(s, take), Sizes(node.kids)), [i \in DOMAIN node.kids |-> Rerun(s, node.kids[i])])

Unbox(s, mode, take) == UnboxIn(IF mode = "v" /\ Top(s).kind = "paragraph" THEN Paragraph(s) ELSE s, mode, take)

-----------------------------------------------------------------------------
(* Math lists.  A script belongs to the last noad, which is made if there  *)
(* is none.                                                                *)
Noad(class, kids) == About(Node("noad", 0, kids), <<class>>)

OpenScript(s, target) ==
  IF \E kid \in Range(LastNode(s).kids) : kid.kind = target.script THEN Fails(s, "double_script")
  ELSE OpenOwned(s, "field", "m", target)

StartField(s, target) ==
  IF Failed(s) THEN s
  ELSE CASE Top(s).mode # "m" -> Fails(s, "content_mode")
         [] Top(s).mode = "m" /\ target.to = "script" ->
              OpenScript(IF LastNode(s).kind = "noad" THEN s ELSE EmitNew(s, Noad("ord", <<>>)), target)
         [] OTHER -> OpenOwned(s, "field", "m", target)

ToScript(script) == [to |-> "script", script |-> script]
ToClass(class) == [to |-> "class", class |-> class]
ToChoice(alternatives) == [to |-> "choice", alternatives |-> alternatives]

(* math_nodes: a list cut by \over is one fraction. *)
FractionCost(frame) == IF frame.fraction THEN 3 ELSE 0
MathNodes(frame) ==
  IF ~frame.fraction THEN frame.nodes
  ELSE <<Node("fraction", 0, <<Node("numerator", 0, frame.numerator), Node("denominator", 0, frame.nodes)>>)>>

Over(s) ==
  IF Top(s).fraction THEN Fails(s, "ambiguous_fraction")
  ELSE [s EXCEPT !.frames[Len(s.frames)].fraction = TRUE, !.frames[Len(s.frames)].numerator = Top(s).nodes,
                 !.frames[Len(s.frames)].nodes = <<>>]

Scripted(noad, script, nodes) ==
  About(Node("noad", 0, Append(noad.kids, Node(script, 0, nodes))), noad.about)

FinishField(s, frame, nodes) ==
  CASE frame.info.to = "script" ->
         SetNodes(Charged(s, 1), Append(Front(Top(s).nodes), Scripted(LastNode(s), frame.info.script, nodes)))
    [] frame.info.to = "choice" /\ Len(frame.info.alternatives) < 3 ->
         OpenOwned(Charged(s, 1), "field", "m",
                   ToChoice(Append(frame.info.alternatives, Node("alternative", 0, nodes))))
    [] frame.info.to = "choice" /\ Len(frame.info.alternatives) = 3 ->
         EmitNew(Charged(s, 1), Node("choice", 0, Append(frame.info.alternatives, Node("alternative", 0, nodes))))
    [] frame.info.to = "class" -> EmitNew(Charged(s, 1), Noad(frame.info.class, <<Node("math_list", 0, nodes)>>))

(* close: the innermost list ends with the group it owns; the tokens the   *)
(* group scheduled follow the publication of what was made.                *)
Owners == {"math", "field", "left", "alignment", "insert", "vadjust", "noalign"} \cup Boxes
OwnedGroups == Owners \cup {"cell"}

Finished(s, frame) ==
  IF Failed(s) THEN s
  ELSE CASE frame.kind = "math" ->
              EmitNew(Charged(s, FractionCost(frame)),
                      About(Node("math", 0, MathNodes(frame)), <<frame.info.display>>))
         [] frame.kind = "field" -> FinishField(Charged(s, FractionCost(frame)), frame, MathNodes(frame))
         [] frame.kind = "left" ->
              EmitNew(Charged(s, 1 + FractionCost(frame)), Noad("inner", <<Node("delimited", 0, MathNodes(frame))>>))
         [] frame.kind \in Boxes -> DeliverBox(Charged(s, 1), Node(frame.kind, 0, frame.nodes), frame.info)
         [] OTHER -> EmitNew(s, Node(frame.kind, 0, frame.nodes))

ClosePrepared(s) ==
  IF Failed(s) THEN s
  ELSE IF Top(s).kind \notin Owners \/ InnerGroup(s) # Top(s).kind THEN Fails(s, "content_group")
  ELSE InsertTokens(Finished([EndGroup(s, Top(s).kind) EXCEPT !.frames = Front(@)], Top(s)),
                    s.groups[Len(s.groups)].after)

Close(s) == ClosePrepared(IF Top(s).kind = "paragraph" THEN Paragraph(s) ELSE s)

(* math_shift: the first `$' opens or closes; the second of two is looked  *)
(* at when the math is displayed.                                          *)
EnterMath(s, display) ==
  Hook(OpenOwned(s, "math", "m", [display |-> display]), IF display THEN "everydisplay" ELSE "everymath")

MathShift(s, double) ==
  CASE Top(s).kind = "math" /\ InnerGroup(s) # "math" -> Fails(s, "math_group")
    [] Top(s).kind = "math" /\ InnerGroup(s) = "math" ->
         IF Top(s).info.display /\ ~double THEN Fails(s, "math_delimiter")
         ELSE Close(IF double /\ ~Top(s).info.display THEN Physical(s, <<"$">>) ELSE s)
    [] Top(s).kind # "math" /\ Top(s).mode = "m" -> Fails(s, "math_group")
    [] OTHER -> EnterMath(IF double THEN Vertical(s) ELSE s, double)

-----------------------------------------------------------------------------
(* Alignments: a row and a cell are begun by the first token of the cell,  *)
(* and its template's head is inserted there; the delimiter inserts the    *)
(* tail, and ends the cell.  A program only queues what is inserted.       *)
Column(s) == IF Top(s).kind = "row" THEN Len(Top(s).nodes) + 1 ELSE 1

OpenRow(s) == IF Top(s).kind = "row" THEN s ELSE OpenFrame(s, "row", "a", <<>>)

OpenCell(s, column, omit) ==
  OpenOwned(OpenRow(s), "cell", "h", [after |-> IF omit THEN <<>> ELSE s.columns[column].tail,
                                      column |-> IF omit \/ InProgram(s) THEN 0 ELSE column])

BeginCell(s, command) ==
  IF Column(s) > Len(s.columns) THEN Fails(s, "alignment_columns")
  ELSE IF command = "omit" THEN OpenCell(s, Column(s), TRUE)
  ELSE IF InProgram(s) THEN InsertTokens(OpenCell(s, Column(s), FALSE), s.columns[Column(s)].head)
  ELSE Evaluate(OpenCell(s, Column(s), FALSE), s.columns[Column(s)].head, [do |-> "execute", command |-> command])

AwaitsCell(s, command) ==
  \/ Top(s).kind = "row"
  \/ Top(s).kind = "alignment" /\ command \notin {"}", "noalign", "crcr"}

LastCell(s) == CHOOSE i \in DOMAIN s.frames :
  s.frames[i].kind = "cell" /\ \A j \in DOMAIN s.frames : j > i => s.frames[j].kind # "cell"
InCell(s) ==
  \E g \in DOMAIN s.groups :
    s.groups[g].kind = "cell" /\ \A h \in DOMAIN s.groups : h > g => s.groups[h].kind \in {"math", "left", "semi_simple"}

EmitCell(s, cell) ==
  EmitNew([EndGroup(s, "cell") EXCEPT !.frames = Front(@)],
          About(Node("cell", 0, cell.nodes), <<IF InProgram(s) THEN 0 ELSE cell.info.column>>))

EmitRow(s) == IF Failed(s) THEN s ELSE EmitNew([s EXCEPT !.frames = Front(@)], Node("row", 0, Top(s).nodes))

FinishCell(s, row) ==
  IF Failed(s) THEN s
  ELSE IF Top(s).kind # "cell" \/ InnerGroup(s) # "cell" THEN Fails(s, "alignment_template")
  ELSE IF row
    THEN Hook(InsertTokens(EmitRow(EmitCell(s, Top(s))), s.groups[Len(s.groups)].after), "everycr")
    ELSE InsertTokens(EmitCell(s, Top(s)), s.groups[Len(s.groups)].after)

EndCell(s, command) ==
  IF ~InCell(s) THEN Fails(s, "alignment_cell")
  ELSE IF InProgram(s) THEN FinishCell(InsertTokens(s, s.frames[LastCell(s)].info.after), command # "&")
  ELSE Evaluate(s, s.frames[LastCell(s)].info.after, [do |-> "end cell", command |-> command])

BeginAlignment(s) == Hook(OpenOwned(Vertical(s), "alignment", "a", <<>>), "everycr")

-----------------------------------------------------------------------------
(* Writes and streams are issued, now or when the box they are in is       *)
(* shipped; links and anchors are a driver's, installed at the outer level *)
(* once.                                                                   *)
WriteNode(s, immediate) ==
  About(Node("write", 0, <<Node("token", 0, <<>>)>>), [id |-> s.serial + 1, immediate |-> immediate, at |-> s.time])

Issue(s, node) == EmitNew(Charged([s EXCEPT !.serial = @ + 1], 1), node)

Write(s, immediate) ==
  IF immediate THEN Observe(Issue(s, WriteNode(s, TRUE)), WriteNode(s, TRUE), 0) ELSE Issue(s, WriteNode(s, FALSE))

StreamNode(opens, immediate) == About(Node("output_stream", 0, <<>>), [opens |-> opens, immediate |-> immediate])

OutputStream(s, opens, immediate) ==
  IF immediate THEN Stream(EmitNew(s, StreamNode(opens, TRUE)), StreamNode(opens, TRUE))
  ELSE EmitNew(s, StreamNode(opens, FALSE))

DriverEvent(s, starts, id) == EmitNew(s, About(Node("driver_event", 0, <<>>), [starts |-> starts, id |-> id]))

Install(s) ==
  Requires(Requires([s EXCEPT !.driver = TRUE], s.groups = <<>>, "driver_scope"), ~s.driver, "driver_reload")

StartLink(s) ==
  IF s.links # <<>> THEN Fails(s, "driver_nested_link")
  ELSE DriverEvent([BeginGroup(s, "semisimple") EXCEPT !.serial = @ + 1, !.links = <<s.serial + 1>>], TRUE, s.serial + 1)

(* What the link's group scheduled comes before the link's end. *)
EndLink(s) ==
  IF s.links = <<>> THEN Fails(s, "driver_link_stack")
  ELSE IF InnerGroup(s) # "semisimple" THEN Fails(s, "mismatched_group")
  ELSE Evaluate(EndGroup(s, "semisimple"), s.groups[Len(s.groups)].after, [do |-> "end link", command |-> ""])

FinishLink(s) == [DriverEvent(s, FALSE, s.links[1]) EXCEPT !.links = <<>>]

StartAnchor(s) ==
  IF s.anchors # <<>> THEN Fails(s, "driver_anchor_stack")
  ELSE DriverEvent([s EXCEPT !.anchors = <<s.serial>>], TRUE, 0)

EndAnchor(s) ==
  IF s.anchors = <<>> THEN Fails(s, "driver_anchor_stack")
  ELSE DriverEvent([s EXCEPT !.anchors = <<>>], FALSE, 0)

-----------------------------------------------------------------------------
(* token: the tokens of text. *)
Letters == {"a", "x"}
TextTokens == {"sp", "{", "}", "$", "$$", "&", "sup{", "sub{", "supa"}

EndScope(s, kind) ==
  IF InnerGroup(s) # kind THEN Fails(s, "mismatched_group")
  ELSE InsertTokens(EndGroup(s, kind), s.groups[Len(s.groups)].after)

TextToken(s, token) ==
  CASE token = "sp" -> Space(s, FALSE)
    [] token = "{" -> IF Top(s).mode = "m" THEN StartField(s, ToClass("ord")) ELSE BeginGroup(BreakText(s), "simple")
    [] token = "}" /\ InnerGroup(s) \in {"math", "left", "cell"} -> Fails(s, "content_group")
    [] token = "}" /\ InnerGroup(s) \in Owners \ {"math", "left"} -> Close(BreakText(s))
    [] token = "}" /\ InnerGroup(s) \notin OwnedGroups -> EndScope(BreakText(s), "simple")
    [] token \in {"$", "$$"} -> MathShift(s, token = "$$")
    [] token = "&" -> EndCell(s, token)
    [] token = "sup{" -> StartField(s, ToScript("sup"))
    [] token = "sub{" -> StartField(s, ToScript("sub"))
    [] token = "supa" -> Close(MathCharacter(StartField(s, ToScript("sup"))))

(* list_operation: what is appended to the current list, and in which mode. *)
EmitVertical(s, kind) == IF Failed(s) THEN s ELSE EmitLeaf(s, kind)

Shows(s, command) ==
  IF Top(s).mode = "m" THEN Fails(s, "content_mode")
  ELSE IF command = "indent" THEN EmitLeaf(s, "indent") ELSE s

RemoveLast(s, kinds) ==
  IF Top(s).kind = "document" THEN Fails(s, "outer_vertical_tail")
  ELSE IF LastNode(s).kind \notin kinds THEN s
  ELSE [SetNodes(s, Front(Top(s).nodes)) EXCEPT !.discarded = @ \cup {LastNode(s).mark}]

Listed(s, command) ==
  CASE command = "par" -> Paragraph(s)
    [] command \in {"indent", "noindent"} -> Shows(s, command)
    [] command = "space" -> Space(s, TRUE)
    [] command = "unskip" -> RemoveLast(s, {"glue", "space", "leaders"})
    [] command = "unkern" -> RemoveLast(s, {"kern"})
    [] command \in {"penalty", "kern"} -> EmitLeaf(s, command)
    [] command = "hrule" -> SetDepth(EmitVertical(Vertical(s), "rule"), "ignored")
    [] command = "vrule" -> IF Top(s).mode = "m" THEN Fails(s, "content_mode") ELSE EmitLeaf(s, "rule")
    [] command = "vskip" -> EmitVertical(Vertical(s), "glue")
    [] command = "hskip" -> EmitLeaf(s, "glue")
ListCommands == {"par", "indent", "noindent", "space", "unskip", "unkern", "penalty", "kern", "hrule", "vrule", "vskip", "hskip"}

(* box, set_box, move_box and unbox. *)
Target(command) ==
  CASE command \in {"setbox", "setvbox", "setlast"} -> ToRegister(0, FALSE)
    [] command = "gsetbox" -> ToRegister(0, TRUE)
    [] command = "setfloat" -> ToRegister(1, FALSE)
    [] command \in {"ship", "shipcopy"} -> To("shipout")
    [] command \in {"leaders", "vcenter"} -> To(command)
    [] OTHER -> To("append")
Maker(command) ==
  CASE command \in {"setbox", "gsetbox", "ship", "raise"} -> "hbox"
    [] command \in {"setvbox", "vcenter"} -> "vbox"
    [] command = "setfloat" -> "box"
    [] command = "setlast" -> "lastbox"
    [] command \in {"shipcopy", "leaders"} -> "copy"
    [] OTHER -> command

Boxed(s, command) ==
  CASE command \in {"unhbox", "unhcopy"} -> Unbox(s, "h", command = "unhbox")
    [] command \in {"unvbox", "unvcopy"} -> Unbox(s, "v", command = "unvbox")
    [] command = "vcenter" /\ Top(s).mode # "m" -> Fails(s, "content_mode")
    [] command = "raise" /\ Top(s).mode = "v" -> Fails(s, "content_mode")
    [] OTHER -> MakeBox(s, Maker(command), Target(command))
BoxCommands == {"hbox", "vbox", "vtop", "box", "copy", "lastbox", "setbox", "setvbox", "gsetbox", "setfloat", "setlast",
                "ship", "shipcopy", "leaders", "vcenter", "raise", "unhbox", "unhcopy", "unvbox", "unvcopy"}

(* execute of the math lists. *)
Limits(s) ==
  IF LastNode(s).kind # "noad" \/ LastNode(s).about # <<"op">> THEN Fails(s, "math_limits")
  ELSE SetNodes(s, Append(Front(Top(s).nodes), About(LastNode(s), <<"op", "limits">>)))

InMath(s, command) ==
  CASE Top(s).mode # "m" -> Fails(s, "content_mode")
    [] Top(s).mode = "m" /\ command = "mathop" -> StartField(s, ToClass("op"))
    [] Top(s).mode = "m" /\ command = "limits" -> Limits(s)
    [] Top(s).mode = "m" /\ command = "style" -> EmitLeaf(s, "style")
    [] Top(s).mode = "m" /\ command = "over" -> Over(s)
    [] Top(s).mode = "m" /\ command = "left" -> OpenOwned(s, "left", "m", <<>>)
    [] Top(s).mode = "m" /\ command = "right" ->
         IF Top(s).kind # "left" THEN Fails(s, "math_delimiter") ELSE Close(s)
    [] Top(s).mode = "m" /\ command = "choice" -> StartField(s, ToChoice(<<>>))
MathCommands == {"mathop", "limits", "style", "over", "left", "right", "choice"}

(* execute of the alignments. *)
Aligned(s, command) ==
  CASE command = "halign" -> BeginAlignment(s)
    [] command = "crcr" /\ Top(s).kind = "alignment" -> s
    [] command = "cr" \/ (command = "crcr" /\ Top(s).kind # "alignment") -> EndCell(s, command)
    [] command = "noalign" -> OpenOwned(Requires(s, Top(s).kind = "alignment", "alignment_noalign"), "noalign", "v", <<>>)
    [] command = "omit" -> Fails(s, "alignment_context")
AlignCommands == {"halign", "cr", "crcr", "noalign", "omit"}

(* Insertions, marks and writes; groups and what they schedule; \input of  *)
(* the file that was written.                                              *)
Issued(s, command) ==
  CASE command = "insert" -> OpenOwned(s, "insert", "v", <<>>)
    [] command = "vadjust" -> OpenOwned(Requires(s, Top(s).mode # "v", "content_mode"), "vadjust", "v", <<>>)
    [] command = "mark" -> EmitNew(Charged(s, 1), Node("mark", 0, <<Node("token", 0, <<>>)>>))
    [] command \in {"write", "iwrite"} -> Write(s, command = "iwrite")
    [] command \in {"open", "iopen"} -> OutputStream(s, TRUE, command = "iopen")
    [] command \in {"close", "iclose"} -> OutputStream(s, FALSE, command = "iclose")
    [] command = "begingroup" -> BeginGroup(s, "semi_simple")
    [] command = "endgroup" -> EndScope(s, "semi_simple")
    [] command = "aftergroup" -> IF s.groups = <<>> THEN s
                                 ELSE [s EXCEPT !.groups[Len(s.groups)].after = Append(@, "a")]
    [] command = "afterassignment" -> [s EXCEPT !.afterAssignment = <<"a">>]
    [] command = "reinput" ->
         IF InProgram(s) THEN Fails(s, "program_effect")
         ELSE IF s.file = "open" THEN Fails(s, "output_input_timing")
         ELSE IF s.file = "never" THEN Fails(s, "input_inventory")
         ELSE Physical(s, [line \in DOMAIN s.lines |-> "a"])
    [] command = "begun" -> s

Driven(s, command) ==
  CASE command = "driver" -> Install(s)
    [] command # "driver" /\ ~s.driver -> Fails(s, "undefined")
    [] command = "link" /\ s.driver -> StartLink(s)
    [] command = "linkend" /\ s.driver -> EndLink(s)
    [] command = "anchor" /\ s.driver -> StartAnchor(s)
    [] command = "anchorend" /\ s.driver -> EndAnchor(s)
DriverCommands == {"driver", "link", "linkend", "anchor", "anchorend"}

-----------------------------------------------------------------------------
(* _dispatch_event.  The meaning of a token is looked at after an          *)
(* alignment that awaits a row or a cell has seen it; a primitive other    *)
(* than a character breaks the text run.                                   *)
Prepared(s, command) ==
  IF Failed(s) \/ command \in Letters \cup {"&"} \cup DOMAIN Macros THEN s
  ELSE IF command \in TextTokens THEN [s EXCEPT !.time = @ + 1] ELSE BreakText([s EXCEPT !.time = @ + 1])

Effect(s, command) ==
  IF Failed(s) THEN s
  ELSE CASE command \in DOMAIN Macros -> InsertTokens(s, Macros[command])
         [] command \in StartsParagraph /\ Top(s).mode = "v" -> Horizontal(s, command)
         [] command \in Letters /\ Top(s).mode # "v" -> Character(s, command)
         [] command \in TextTokens /\ ~(command \in StartsParagraph /\ Top(s).mode = "v") -> TextToken(s, command)
         [] command \in ListCommands /\ ~(command \in StartsParagraph /\ Top(s).mode = "v") -> Listed(s, command)
         [] command \in BoxCommands /\ ~(command \in StartsParagraph /\ Top(s).mode = "v") -> Boxed(s, command)
         [] command \in MathCommands -> InMath(s, command)
         [] command \in AlignCommands -> Aligned(s, command)
         [] command \in DriverCommands /\ ~(command = "link" /\ Top(s).mode = "v") -> Driven(s, command)
         [] OTHER -> Issued(s, command)

(* before_event: whether the token goes no further, or not yet. *)
Consumed(s, command) ==
  /\ Top(s).kind \in {"alignment", "row"}
  /\ \/ command = "sp"
     \/ Top(s).kind = "alignment" /\ command = "}"
     \/ AwaitsCell(s, command) /\ (command = "omit" \/ ~InProgram(s))

Consume(s, command) ==
  CASE command = "sp" -> s
    [] command = "}" /\ Top(s).kind = "alignment" -> Close(s)
    [] OTHER -> BeginCell(s, command)

Ready(s, how, command) ==
  CASE how = "resume" -> Requires(s, Top(s).mode = "h", "paragraph_hook")
    [] how = "execute" -> Prepared(s, command)
    [] how = "dispatch" /\ Top(s).kind \notin {"alignment", "row"} -> Prepared(s, command)
    [] how = "dispatch" /\ Top(s).kind \in {"alignment", "row"} ->
         Prepared(IF AwaitsCell(s, command) THEN BeginCell(s, command) ELSE s, command)

Perform(s, how, command) ==
  CASE how = "nothing" -> s
    [] how = "end cell" -> FinishCell(s, command # "&")
    [] how = "end link" -> FinishLink(s)
    [] how = "dispatch" /\ Consumed(s, command) -> Consume(s, command)
    [] OTHER -> Effect(Ready(s, how, command), command)

-----------------------------------------------------------------------------
Empty(document) ==
  [frames |-> <<[kind |-> "document", mode |-> "v", nodes |-> <<>>, info |-> <<>>, run |-> <<>>,
                 fraction |-> FALSE, numerator |-> <<>>, depth |-> "ignored"]>>,
   groups |-> <<>>, boxes |-> [k \in {0, 1} |-> Void], afterAssignment |-> <<>>,
   hooks |-> document.hooks, columns |-> document.columns, floats |-> document.floats,
   programs |-> <<[tokens |-> document.opening, then |-> Nothing, frozen |-> FALSE]>>, failed |-> "", final |-> FALSE, work |-> 0,
   records |-> <<>>, shipped |-> <<>>, serial |-> 0, file |-> "never", lines |-> <<>>,
   driver |-> FALSE, links |-> <<>>, anchors |-> <<>>,
   time |-> 0, made |-> {}, discarded |-> {}, stored |-> {}, copied |-> {}]

ContentInit ==
  \E document \in Documents :
    /\ build = Empty(document)
    /\ attempt = build
    /\ vocabulary = document.commands
    /\ left = document.length

(* next_item: a command that fails is undone with every program it is in,  *)
(* all but the work it did, and is the boundary at which the build ends.   *)
Settled(s, before) == IF Failed(s) THEN [before EXCEPT !.failed = s.failed, !.work = s.work] ELSE s

Current == build.programs[Len(build.programs)]
Remaining(s) ==
  [s EXCEPT !.programs = IF Current.tokens = <<>> THEN Front(@) ELSE [@ EXCEPT ![Len(@)].tokens = Tail(@)]]

(* The next token of the innermost program, or what its end continues.     *)
Undoing == IF Current.frozen THEN attempt ELSE build

Continue ==
  /\ build.programs # <<>> /\ ~Failed(build)
  /\ attempt' = Undoing
  /\ build' = Settled(Perform(Remaining(build),
                              IF Current.tokens = <<>> THEN Current.then.do ELSE "dispatch",
                              IF Current.tokens = <<>> THEN Current.then.command ELSE Head(Current.tokens)),
                      Undoing)
  /\ UNCHANGED <<vocabulary, left>>

Command(command) ==
  /\ build.programs = <<>> /\ ~Failed(build) /\ left > 0
  /\ attempt' = build
  /\ build' = Settled(Perform(build, "dispatch", command), build)
  /\ left' = left - 1
  /\ UNCHANGED vocabulary

(* finish: \end closes the last paragraph, and nothing else may be open.   *)
(* It runs when no command does: what fails here is not undone.            *)
Closed(s) == Len(s.frames) = 1 /\ s.groups = <<>> /\ s.links = <<>> /\ s.anchors = <<>>
Ended(s) ==
  IF Failed(s) THEN [s EXCEPT !.final = TRUE] ELSE [s EXCEPT !.failed = IF Closed(s) THEN "completed" ELSE "content_unclosed"]

Finish ==
  /\ build.programs = <<>> /\ ~Failed(build)
  /\ build' = Ended(Paragraph(build))
  /\ UNCHANGED <<attempt, vocabulary, left>>

ContentNext ==
  \/ Continue
  \/ \E command \in vocabulary : Command(command)
  \/ Finish

ContentSpec == ContentInit /\ [][ContentNext]_contentVars

ContentTypeOK ==
  /\ \A i \in DOMAIN build.frames : build.frames[i].mode \in {"v", "h", "m", "a"}
  /\ build.made \subseteq 1..build.time
  /\ Len(build.groups) <= MaxNesting

-----------------------------------------------------------------------------
(* The frames that own a group own the groups of their kinds, in order.    *)
FramesOwnGroups ==
  LET Owned(kinds) == SelectSeq(kinds, LAMBDA kind : kind \in OwnedGroups)
  IN  Owned([i \in DOMAIN build.frames |-> build.frames[i].kind])
        = Owned([g \in DOMAIN build.groups |-> build.groups[g].kind])

(* Each list holds what TeX lets it hold: no text in a vertical list, no   *)
(* paragraph in a horizontal one, nothing but atoms and the like in math.  *)
Anywhere == {"glue", "kern", "penalty", "insert", "mark", "write", "output_stream", "shipout", "driver_event"}
Allowed == [v |-> Anywhere \cup Boxes \cup {"paragraph", "rule", "baseline_glue", "math", "alignment"},
            h |-> Anywhere \cup Boxes \cup {"character", "space", "rule", "indent", "math", "leaders", "vadjust"},
            m |-> Anywhere \cup {"noad", "space", "style", "choice", "leaders", "vadjust", "fraction"},
            a |-> {"row", "noalign"}, r |-> {"cell"}]
Inside(kind) ==
  CASE kind \in {"paragraph", "hbox", "cell"} -> "h"
    [] kind \in {"vbox", "vtop", "insert", "vadjust", "noalign"} -> "v"
    [] kind \in {"math", "math_list", "delimited", "alternative", "numerator", "denominator", "sup", "sub"} -> "m"
    [] kind = "alignment" -> "a"
    [] kind = "row" -> "r"
    [] OTHER -> "any"

RECURSIVE Fits(_, _)
Fits(mode, nodes) ==
  \A i \in DOMAIN nodes :
    /\ mode # "any" => nodes[i].kind \in Allowed[mode]
    /\ nodes[i].kind = "math" /\ nodes[i].about = <<TRUE>> => mode = "v"
    /\ Fits(Inside(nodes[i].kind), nodes[i].kids)

Listing(frame) == IF frame.kind = "row" THEN "r" ELSE frame.mode
ListsFitModes ==
  /\ \A i \in DOMAIN build.frames :
       /\ Fits(Listing(build.frames[i]), build.frames[i].nodes)
       /\ Fits("m", build.frames[i].numerator)
  /\ \A k \in DOMAIN build.boxes : Fits("any", <<build.boxes[k]>>)

-----------------------------------------------------------------------------
(* Everything appended is somewhere, once and in its order, unless it was  *)
(* removed from a list's end or has been in a register.  The paragraph     *)
(* that the budget does not let finish close is lost, which is excepted.   *)
Alternatives(frame) == IF frame.kind = "field" /\ frame.info.to = "choice" THEN frame.info.alternatives ELSE <<>>
Contents(frame) == Alternatives(frame) \o frame.numerator \o frame.nodes
Tree == FlattenSeq([i \in DOMAIN build.frames |-> Contents(build.frames[i])])
Stowed == FlattenSeq([k \in 1..Cardinality(DOMAIN build.boxes) |-> <<build.boxes[k - 1]>>])

NothingLost ==
  LET tree == Marks(Tree)
      direct == SelectSeq(tree, LAMBDA m : m \notin build.stored)
      once == SelectSeq(tree \o Marks(Stowed), LAMBDA m : m \notin build.copied)
  IN  /\ build.final \/ build.made \ (build.discarded \cup build.stored) \subseteq Range(tree)
      /\ \A i, j \in DOMAIN direct : i < j => direct[i] < direct[j]
      /\ IsInjective(once)

(* Characters next to one another are one text run exactly when no command *)
(* came between them.                                                      *)
RECURSIVE RunsIn(_)
RunsIn(nodes) ==
  /\ \A i \in 1..(Len(nodes) - 1) :
       LET one == nodes[i]
           next == nodes[i + 1]
       IN  one.kind = "character" /\ next.kind = "character" =>
             (one.run = next.run) = (next.mark = one.mark + 1)
  /\ \A i \in DOMAIN nodes : RunsIn(nodes[i].kids)
RunsAreText == \A i \in DOMAIN build.frames : RunsIn(Contents(build.frames[i]))

(* What the lists refer to has been paid for. *)
TreeIsCharged == Sizes(Tree) <= build.work

-----------------------------------------------------------------------------
(* Every deferred write is expanded once for each time a box it is in is   *)
(* shipped, in their order, and an immediate one once; the file holds what *)
(* was written since it was opened.                                        *)
RECURSIVE Deferred(_)
Deferred(nodes) ==
  IF nodes = <<>> THEN <<>>
  ELSE LET node == Head(nodes)
       IN  (IF node.kind = "write" /\ ~node.about.immediate THEN <<node.about.id>>
            ELSE IF node.kind \in Boxes THEN Deferred(node.kids) ELSE <<>>) \o Deferred(Tail(nodes))

WritesAreTrue ==
  LET written == SelectSeq(build.records, LAMBDA r : r.id > 0)
      ids(shipment) == LET these == SelectSeq(written, LAMBDA r : r.shipment = shipment)
                       IN  [i \in DOMAIN these |-> these[i].id]
      filed == SelectSeq(written, LAMBDA r : r.filed)
  IN  /\ \A shipment \in DOMAIN build.shipped : ids(shipment) = Deferred(<<build.shipped[shipment]>>)
      /\ IsInjective(ids(0))
      /\ \A i, j \in DOMAIN written : i < j => written[i].at <= written[j].at
      /\ IsSuffix(build.lines, [i \in DOMAIN filed |-> filed[i].at])

(* Links open and close in the lists as parentheses do. *)
RECURSIVE Links(_)
Links(nodes) ==
  IF nodes = <<>> THEN <<>>
  ELSE LET node == Head(nodes)
       IN  (IF node.kind = "driver_event" /\ node.about.id > 0 THEN <<node.about>> ELSE Links(node.kids))
             \o Links(Tail(nodes))
LinksNest ==
  LET Nested(open, event) ==
        IF event.starts THEN Append(open, event.id)
        ELSE IF open # <<>> /\ open[Len(open)] = event.id THEN Front(open) ELSE Append(open, 0)
  IN  FoldLeft(Nested, <<>>, Links(Tree)) = build.links

(* A cell whose delimiter is not in a macro's text is what its template    *)
(* says: the head, the source's material, the tail.                        *)
RECURSIVE TemplatedIn(_)
TemplatedIn(nodes) ==
  \A i \in DOMAIN nodes :
    /\ TemplatedIn(nodes[i].kids)
    /\ nodes[i].kind = "cell" /\ nodes[i].about[1] > 0 =>
         LET template == build.columns[nodes[i].about[1]]
             Is(token, kid) == IF token = "$" THEN kid.kind = "math" ELSE kid.kind = "character" /\ kid.about = <<token>>
         IN  /\ template.head # <<>> => Is(template.head[1], Final(SubSeq(nodes[i].kids, 1, 1)))
             /\ template.tail # <<>> => Is(template.tail[1], Final(nodes[i].kids))
TemplatesSurround == TemplatedIn(Tree)

(* What a content build has made, at any moment and at the boundary where  *)
(* it stops, is what its commands say.                                     *)
ContentIsTrue ==
  /\ FramesOwnGroups
  /\ ListsFitModes
  /\ NothingLost
  /\ RunsAreText
  /\ TreeIsCharged
  /\ WritesAreTrue
  /\ LinksNest
  /\ TemplatesSurround

=============================================================================
