------------------------------ MODULE Traversal -----------------------------
(***************************************************************************)
(* The traversal of prepare/session.py, which follows a paper's inputs in   *)
(* TeX's order and lays out master.tex, with the retention of sources       *)
(* (preservation.py) and the regions that are kept unread (deferred.py).    *)
(*                                                                         *)
(* A source is a sequence of items, one for each thing the dispatcher       *)
(* yields; a path is a directory and a name, and a name that the source     *)
(* does not resolve itself has the directory Searched.  A piece of the      *)
(* package is the words it holds: items, with the source they come from.    *)
(***************************************************************************)
EXTENDS SequencesExt, Integers

CONSTANTS
  Projects,   (* Sets of papers: their files, whether the external search   *)
              (* is closed, and whether the policy puts listings inline.    *)
  Bound       (* Packages that have a binding.                              *)

VARIABLES
  project,    (* The paper that is prepared.                                *)
  session     (* The PreparationSession, its manifest and its frames.       *)

Searched == "?"
Root == <<"", "main">>
None == <<"", "">>
Files == DOMAIN project.files
Text(path) == project.files[path].text
Is(path, state) == project.files[path].state = state

(* What a word of a package says, and where it comes from. *)
Word(path, i) == [item |-> Text(path)[i], path |-> path, at |-> i]
Words(path) == [i \in 1..Len(Text(path)) |-> Word(path, i)]
Says(kind, name) == [kind |-> kind, name |-> name, dir |-> "", names |-> <<>>, observed |-> FALSE]
Made(kind, word) == [word EXCEPT !.item.kind = kind]

Clear == [item |-> Says("clear", None), path |-> None, at |-> 0]
Envelope(words) == \E i \in DOMAIN words : words[i].item.kind = "envelope"

-----------------------------------------------------------------------------
(* Session. *)
Top(s) == Last(s.frames)
Item(s) == Text(Top(s).path)[Top(s).at]
Here(s) == Word(Top(s).path, Top(s).at)
Place(s) == <<Top(s).occurrence, Top(s).at>>

Frame(path, occurrence) ==
  [path |-> path, occurrence |-> occurrence, at |-> 1, emit |-> TRUE, dir |-> "", queue |-> <<>>,
   include |-> FALSE, bibliography |-> FALSE, start |-> 0, place |-> <<0, 0>>,
   candidate |-> FALSE, changed |-> FALSE, serves |-> FALSE,
   saved |-> [loads |-> [known |-> {}, dimmed |-> {}, doubt |-> FALSE], depth |-> 0]]

Opened ==
  [frames |-> <<Frame(Root, 1)>>, occurrences |-> <<Root>>, pieces |-> <<>>, checkpoint |-> [at |-> 1, pieces |-> 0],
   code |-> {}, styles |-> {}, candidates |-> {}, dirs |-> {}, images |-> {}, observed |-> {}, uses |-> {},
   literals |-> {}, resources |-> {}, edits |-> {}, paths |-> {}, depth |-> 0, only |-> {}, selected |-> FALSE,
   loads |-> [known |-> {}, dimmed |-> {}, doubt |-> FALSE], site |-> FALSE, inserted |-> {},
   ended |-> FALSE, preserved |-> 0, requirements |-> {}, unresolved |-> {}, failures |-> <<>>, present |-> {},
   placed |-> {}, markers |-> <<>>, conditional |-> FALSE]

(* emit: a piece of the words that a place of the source became. *)
Piece(op, place, words) == [op |-> op, place |-> place, words |-> words]
Emit(s, op, place, words) ==
  IF Top(s).emit THEN [s EXCEPT !.pieces = Append(@, Piece(op, place, words))] ELSE s
Copied(s, op) == Emit(s, op, Place(s), <<Here(s)>>)

(* require and diagnose. *)
Required(s, place, stage, dependency, materialization) ==
  [s EXCEPT !.requirements = @ \cup {[place |-> place, stage |-> stage, dependency |-> dependency,
                                      materialization |-> materialization]}]
Diagnosed(s, place, materialization) ==
  [s EXCEPT !.unresolved = @ \cup {[place |-> place, materialization |-> materialization]}]
Edge(s, place) == [s EXCEPT !.present = @ \cup {place}]

(* edit_payload: a second edit of a place must be the first.               *)
EditPayload(s, path, i, word) ==
  [s EXCEPT !.edits = @ \cup {[path |-> path, at |-> i, word |-> word]}]
Conflicting(s) == \E e, f \in s.edits : e.path = f.path /\ e.at = f.at /\ e.word # f.word

(* resolve: the first directory that has the name.  The search fails on a   *)
(* directory that cannot be listed or holds two candidates.                *)
Directories(dir) == <<dir, "">>
Found(name, dirs) ==
  LET hits == SelectSeq(dirs, LAMBDA d : <<d, name[2]>> \in Files)
  IN  IF name[1] # Searched THEN name ELSE IF hits = <<>> THEN None ELSE <<hits[1], name[2]>>
Outcome(path) ==
  CASE path = None -> IF project.closed THEN "absent" ELSE "unresolved"
    [] Is(path, "ambiguous") -> "ambiguous"
    [] OTHER -> "found"
(* The failure to read it: SourceStore.document. *)
Unreadable(path) == Is(path, "unreadable") \/ Is(path, "undecodable")
ReadOutcome(path) == IF Is(path, "unreadable") THEN "unreadable" ELSE "failed"
Failing(s, path) ==
  CASE Outcome(path) # "found" -> Outcome(path)
    [] \E i \in DOMAIN s.frames : s.frames[i].path = path -> "failed"
    [] Unreadable(path) -> ReadOutcome(path)
    [] OTHER -> "none"

(* image_path: the innermost search path set in a group that is open. *)
GraphicPaths(s) ==
  LET open == { p \in s.paths : p[1] <= s.depth }
  IN  IF open = {} THEN <<>> ELSE <<(CHOOSE p \in open : \A q \in open : q[1] <= p[1])[2]>>
ImagePath(s, name) == Found(name, Directories(Top(s).dir) \o GraphicPaths(s))

-----------------------------------------------------------------------------
(* SourceLoadState: what is known of the load markers.  An unavailable      *)
(* program, or one whose effects are not known, puts every set marker in    *)
(* doubt; a visible request that was not followed, every other.            *)
LoadTruth(s, name) ==
  CASE name \in s.loads.dimmed -> "unknown"
    [] name \in s.loads.known -> "loaded"
    [] s.loads.doubt -> "unknown"
    [] OTHER -> "not loaded"
Loaded(s, name) == [s EXCEPT !.loads.known = @ \cup {name}, !.loads.dimmed = @ \ {name}]
DeferEffects(s) == [s EXCEPT !.loads.dimmed = s.loads.known]
InvalidateLoads(s) == [s EXCEPT !.loads.doubt = TRUE]

(* recover, after its rollback: the failure is recorded at its request.  A  *)
(* failed request that is retained keeps its words; another leaves a marker.*)
PROGRAM_KINDS == {"input", "package", "command"}
Recorded(s, place, kind, outcome, name, retain, conditional) ==
  LET required == Required(s, place, "preparation", IF conditional THEN "possible" ELSE "required",
                           IF retain THEN "undetermined" ELSE "unavailable")
      noted == [required EXCEPT !.failures =
                  IF retain THEN @ ELSE Append(@, [place |-> place, kind |-> kind, outcome |-> outcome, name |-> name])]
  IN  IF kind \in PROGRAM_KINDS THEN [InvalidateLoads(DeferEffects(noted)) EXCEPT !.conditional = TRUE] ELSE noted

(* A command that fails is rolled back, so that nothing of it is left but   *)
(* the failure and the occurrences it opened, and emitted as it is.         *)
Fails(s, kind, outcome) ==
  Copied(Recorded(s, Place(s), kind, outcome, Item(s).name, FALSE, FALSE), "DEFER_RESOLUTION")
Defers(s, kind) ==
  Copied(Recorded(Diagnosed(s, Place(s), "not_required"), Place(s), kind, "unresolved", Item(s).name, TRUE, FALSE),
         "DEFER_RESOLUTION")

(* retain_source: keep a source's text at its own name. *)
Retain(s, path, dir) ==
  [s EXCEPT !.code = IF path \in s.styles THEN @ ELSE @ \cup {path}, !.candidates = @ \cup {path},
            !.dirs = @ \cup {<<path, dir>>}]

(* open_source and _enter: a new occurrence, read in place. *)
Enter(s, path, frame, place) ==
  [s EXCEPT !.occurrences = Append(@, path),
            !.frames = Append(@, [frame EXCEPT !.path = path, !.occurrence = Len(s.occurrences) + 1,
                                  !.start = Len(s.pieces), !.place = place,
                                  !.saved = [loads |-> s.loads, depth |-> s.depth]])]
Passed(s) == [s EXCEPT !.frames[Len(s.frames)].at = @ + 1]

-----------------------------------------------------------------------------
(* _command: requests of sources.  Local code is read but stays as it is,   *)
(* with its references made to the payload.                                *)
Rebased(word, path) == [word EXCEPT !.item.name = path]

Input(s) ==
  LET item == Item(s)
      imports == item.kind = "import"
      dir == IF imports THEN item.dir ELSE Top(s).dir
      path == Found(item.name, <<dir>>)
      includes == item.kind = "include"
      cleared == IF includes THEN Emit(s, "INCLUDE_BOUNDARY", Place(s), <<Clear>>) ELSE s
      inlined == Top(s).emit /\ ~project.files[path].style
      frame == [Frame(path, 0) EXCEPT !.emit = inlined, !.dir = dir, !.include = includes /\ inlined]
      rebased == Rebased(Here(s), path)
  IN  CASE includes /\ s.selected /\ item.name[2] \notin s.only -> cleared
        [] Outcome(path) # "found" -> Fails(s, "input", Outcome(path))
        [] ~inlined /\ dir # "" -> Retain(Defers(s, "input"), path, dir)
        [] Failing(s, path) # "none" -> Fails(s, "input", Failing(s, path))
        [] inlined -> Enter(Edge(cleared, Place(s)), path, frame, Place(s))
        [] OTHER ->
             LET coded == [Edge(cleared, Place(s)) EXCEPT !.code = @ \cup {path}]
             IN  Enter(IF Top(s).emit THEN Emit(coded, "REBASE_CODE_INPUT", Place(s), <<rebased>>)
                         ELSE EditPayload(coded, Top(s).path, Top(s).at, rebased), path, frame, Place(s))

(* A request for packages is emitted with the names of their payload; they  *)
(* are read before anything else of the input that asks.                   *)
Request(s) ==
  LET names == Item(s).names
      dirs == Directories(Top(s).dir)
      Named(name) == IF Found(name, dirs) = None THEN name ELSE Found(name, dirs)
      rebased == [Here(s) EXCEPT !.item.names = [i \in DOMAIN names |-> Named(names[i])]]
      asked == [i \in DOMAIN names |-> [name |-> names[i], place |-> Place(s)]]
      queued == [s EXCEPT !.frames[Len(s.frames)].queue = asked]
      ambiguous == { i \in DOMAIN names : Outcome(Found(names[i], dirs)) = "ambiguous" }
  IN  CASE ambiguous # {} ->
             Copied(Recorded(s, Place(s), "package", "ambiguous", names[CHOOSE i \in ambiguous : TRUE], FALSE, FALSE),
                    "DEFER_RESOLUTION")
        [] Top(s).emit -> Emit(queued, "MOUTH_EMISSION", Place(s), <<rebased>>)
        [] OTHER -> EditPayload(queued, Top(s).path, Top(s).at, rebased)

(* _package, for the first of them. *)
Serve(s) ==
  LET asked == Head(Top(s).queue)
      name == asked.name[2]
      path == Found(asked.name, Directories(Top(s).dir))
      t == [s EXCEPT !.frames[Len(s.frames)].queue = Tail(@)]
      truth == LoadTruth(s, name)
      Failed(outcome) == Recorded(t, asked.place, "package", outcome, asked.name, truth = "unknown", truth = "unknown")
      unsettled == Required(t, asked.place, "preparation", "possible",
                            IF path = None THEN "undetermined" ELSE "prepared")
      loaded == Loaded(t, name)
      entered == Enter([Edge(loaded, asked.place) EXCEPT !.styles = @ \cup {path}], path,
                       [Frame(path, 0) EXCEPT !.emit = FALSE, !.serves = TRUE], asked.place)
  IN  CASE truth = "loaded" -> t
        [] path # None /\ Outcome(path) # "found" -> Failed(Outcome(path))
        [] path # None /\ Unreadable(path) -> Failed(ReadOutcome(path))
        [] truth = "unknown" -> DeferEffects(IF path = None THEN unsettled ELSE Retain(unsettled, path, ""))
        [] path = None /\ name \notin Bound /\ project.closed -> Failed("absent")
        [] path # None /\ Failing(s, path) # "none" -> Failed(Failing(s, path))
        [] path # None -> entered
        [] name \in Bound -> loaded
        [] OTHER -> DeferEffects(Required(loaded, asked.place, "binding", "none", "not_required"))

(* The assets of a paper, under the search paths of the open groups. *)
Used(s, path) ==
  [s EXCEPT !.uses = @ \cup {[place |-> Place(s), source |-> Top(s).path, path |-> path]}]
Asset(s) ==
  LET path == ImagePath(s, Item(s).name)
  IN  IF Outcome(path) # "found" THEN Fails(s, "asset", Outcome(path))
      ELSE Copied([Edge(Used(s, path), Place(s)) EXCEPT !.images = @ \cup {path}], "IDENTITY")
SearchPaths(s) ==
  Copied([s EXCEPT !.paths = { p \in @ : p[1] # s.depth } \cup {<<s.depth, Item(s).dir>>}], "IDENTITY")
Scoped(s) == [s EXCEPT !.paths = { p \in @ : p[1] <= s.depth }]

(* prepare_external_literal: the text of a listing, inline or in a payload. *)
Literal(s) ==
  LET path == Found(Item(s).name, Directories(Top(s).dir))
      used == Edge([s EXCEPT !.literals = @ \cup {[place |-> Place(s), source |-> Top(s).path, path |-> path]}], Place(s))
      word == [Made("payload", Here(s)) EXCEPT !.item.name = path]
      kept == IF Top(s).emit THEN Emit(used, "REBASE_LITERAL_RESOURCE", Place(s), <<word>>)
              ELSE EditPayload(used, Top(s).path, Top(s).at, word)
  IN  CASE Outcome(path) # "found" -> Fails(s, "external_literal", Outcome(path))
        [] Unreadable(path) -> Fails(s, "external_literal", ReadOutcome(path))
        [] ~project.inline -> kept
        [] Is(path, "terminator") \/ ~Top(s).emit -> Required(kept, Place(s), "preparation", "none", "not_required")
        [] OTHER -> Emit([Edge(s, Place(s)) EXCEPT !.occurrences = Append(@, path)], "LITERAL_OPEN", Place(s),
                         <<[Made("inlined", Here(s)) EXCEPT !.item.name = path]>>)

(* The first bibliography is the one that is prepared, from the formatted   *)
(* one the paper comes with if it does.                                    *)
Formatted == <<"", "bbl">>
Bibliography(s) ==
  LET sited == Copied([s EXCEPT !.site = TRUE], "IDENTITY")
  IN  CASE s.site -> Defers(s, "bibliography")
        [] Formatted \notin Files -> sited
        [] Failing(s, Formatted) # "none" -> Fails(s, "bibliography", Failing(s, Formatted))
        [] OTHER -> Enter(Edge(sited, Place(s)), Formatted,
                          [Frame(Formatted, 0) EXCEPT !.emit = Top(s).emit, !.dir = Top(s).dir, !.bibliography = TRUE], Place(s))

(* retain_candidate_input: the body of a definition may ask for a source. *)
Define(s) ==
  LET path == Found(Item(s).name, Directories(Top(s).dir))
      kept == Outcome(path) = "found" /\ ~Unreadable(path)
      noted == Required(s, Place(s), "interpretation", "stored", IF kept THEN "prepared" ELSE "undetermined")
  IN  Copied(IF kept THEN Retain(noted, path, Top(s).dir) ELSE noted, "IDENTITY")


-----------------------------------------------------------------------------
(* deferred.py: a region that is kept unread is looked through for the      *)
(* requests in it.  A source it asks for is put in its place if it can be   *)
(* read whole; anything else is kept and what it may need is recorded.      *)
Possible(s, materialization) == Required(s, Place(s), "preparation", "possible", materialization)
Observable(path) == \A i \in DOMAIN Text(path) : Text(path)[i].kind \notin {"bad", "ahead", "endinput", "enddoc"}
Cyclic(s, path) == \E i \in DOMAIN s.frames : s.frames[i].path = path

ObserveAsset(s) ==
  LET path == ImagePath(s, Item(s).name)
      found == ~Top(s).changed /\ Outcome(path) = "found"
      seen == Required([Used(s, path) EXCEPT !.observed = @ \cup {path}], Place(s), "interpretation", "required", "pending")
  IN  Copied(IF found THEN seen ELSE Possible(s, "undetermined"), "DEFER_INTERPRETATION")

ObservedInput(s) ==
  LET path == Found(Item(s).name, Directories(Top(s).dir))
      resolved == ~Top(s).changed /\ Outcome(path) = "found"
      readable == resolved /\ ~Unreadable(path)
      whole == readable /\ ~project.files[path].style /\ ~Cyclic(s, path) /\ Observable(path)
      frame == [Frame(path, 0) EXCEPT !.dir = Top(s).dir, !.candidate = TRUE]
      kept == IF readable THEN Retain(Possible(s, "prepared"), path, Top(s).dir) ELSE Possible(s, "undetermined")
  IN  IF whole THEN Enter([s EXCEPT !.candidates = @ \cup {path}], path, frame, Place(s))
      ELSE Copied(kept, "DEFER_INTERPRETATION")

(* emit_bibliography: the formatted one is put in its place as a whole.     *)
ObservedBibliography(s) ==
  LET kept == Copied(Possible(s, "undetermined"), "IDENTITY")
      sited == Copied([s EXCEPT !.site = TRUE], "IDENTITY")
      occurrence == Len(s.occurrences) + 1
      whole == ~Unreadable(Formatted) /\ Observable(Formatted) /\ Envelope(Words(Formatted))
      pieces == [i \in DOMAIN Text(Formatted) |-> Piece("IDENTITY", <<occurrence, i>>, <<Word(Formatted, i)>>)]
  IN  CASE s.site -> kept
        [] Formatted \notin Files -> sited
        [] ~whole -> kept
        [] OTHER -> [sited EXCEPT !.occurrences = Append(@, Formatted), !.candidates = @ \cup {Formatted},
                                  !.pieces = @ \o pieces, !.inserted = { <<occurrence, i>> : i \in DOMAIN pieces }]

Observed(s) ==
  LET kind == Item(s).kind
      deferred == DeferEffects(s)
      requests == {"include", "import", "computed", "literal", "package", "input", "bib"}
  IN  CASE kind = "asset" -> ObserveAsset(deferred)
        [] kind = "paths" -> Copied([deferred EXCEPT !.frames[Len(s.frames)].changed = TRUE], "DEFER_INTERPRETATION")
        [] kind = "package" -> Copied(InvalidateLoads(Possible(deferred, "undetermined")), "DEFER_INTERPRETATION")
        [] kind = "input" /\ Top(s).emit -> ObservedInput(deferred)
        [] kind = "bib" /\ Top(s).emit -> ObservedBibliography(deferred)
        [] kind \in requests /\ ~(kind \in {"input", "bib"} /\ Top(s).emit) ->
             Copied(Possible(deferred, "undetermined"), "DEFER_INTERPRETATION")
        [] OTHER -> Copied(deferred, "DEFER_INTERPRETATION")

-----------------------------------------------------------------------------
(* A boundary is where reading cannot go on.  The innermost input is        *)
(* retained whole and its caller resumed with the state it entered with; a  *)
(* lookahead that may have left the input, or a boundary in the root,       *)
(* preserves what is left of the root.                                     *)
Cut(s, pieces) ==
  LET places == { pieces[i].place : i \in DOMAIN pieces }
  IN  [s EXCEPT !.pieces = pieces, !.inserted = IF @ \subseteq places THEN @ ELSE {}]

RetainInput(s) ==
  LET frame == Top(s)
      said == InvalidateLoads(Diagnosed(s, Place(s), "prepared"))
      stranded == { s.occurrences[i] : i \in frame.occurrence..Len(s.occurrences) }
      kept == [said EXCEPT !.code = @ \cup (stranded \ s.styles), !.candidates = @ \cup stranded,
                           !.dirs = @ \cup { <<path, frame.dir>> : path \in stranded }]
      recorded == Required(IF frame.emit THEN Cut(kept, SubSeq(s.pieces, 1, frame.start)) ELSE said,
                           Place(s), "preparation", "none", "prepared")
      resumed == DeferEffects(InvalidateLoads([recorded EXCEPT !.loads = frame.saved.loads,
                                                               !.depth = frame.saved.depth, !.frames = Front(@)]))
      reference == [item |-> [Says(IF frame.dir = "" THEN "input" ELSE "import", frame.path) EXCEPT !.dir = frame.dir],
                    path |-> s.occurrences[frame.place[1]], at |-> frame.place[2]]
      placed == Piece("PRESERVE_CODE_INPUT", frame.place, <<reference>>)
      cleared == IF frame.include THEN <<placed, Piece("INCLUDE_BOUNDARY", frame.place, <<Clear>>)>> ELSE <<placed>>
  IN  IF frame.emit THEN [resumed EXCEPT !.pieces = @ \o cleared] ELSE resumed

Remainder(s, kept) ==
  LET start == s.checkpoint.at
      words == [i \in 1..(Len(Text(Root)) - start + 1) |-> Word(Root, start + i - 1)]
      places == { kept[i].place : i \in DOMAIN kept }
      retained == s.code \cup s.styles
      uses == { u \in s.uses : u.place \in places \/ u.source \in retained }
      cut == Cut(InvalidateLoads(Diagnosed(s, Place(s), "not_required")),
                 Append(kept, Piece("PRESERVE_UNRESOLVED", <<1, start>>, words)))
  IN  [cut EXCEPT !.preserved = start, !.frames = <<>>,
                  !.images = { p \in @ : \E u \in uses : u.path = p },
                  !.observed = { p \in @ : \E u \in uses : u.path = p },
                  !.literals = { l \in @ : l.place \in places \/ l.source \in retained }]

(* A bug: what the input with the lookahead has given is kept as well. *)
PreserveRemainderTwice(s) == Remainder(s, s.pieces)
PreserveRemainder(s) == Remainder(s, SubSeq(s.pieces, 1, s.checkpoint.pieces))

Boundary(s) ==
  CASE Len(s.frames) = 1 \/ Item(s).kind = "ahead" -> PreserveRemainder(s)
    [] Top(s).serves -> RetainInput(s)
    [] OTHER -> Passed(RetainInput(s))

(* The end of an input, of its lines or where \endinput or \end{document}   *)
(* stops it.                                                              *)
Ended(s) ==
  LET frame == Top(s)
      left == { s.pieces[i].place : i \in (frame.start + 1)..Len(s.pieces) }
      named == IF frame.bibliography THEN [s EXCEPT !.inserted = left] ELSE s
      popped == [named EXCEPT !.frames = Front(@)]
      caller == Passed(popped)
  IN  CASE Len(s.frames) = 1 -> popped
        [] frame.serves -> popped
        [] frame.include -> Emit(caller, "INCLUDE_BOUNDARY", frame.place, <<Clear>>)
        [] OTHER -> caller

-----------------------------------------------------------------------------
(* _traverse: one package that is queued, one end of an input or one item.  *)
(* An item that opened an input is passed when the input ends.             *)
Dispatched(s) ==
  LET kind == Item(s).kind
  IN  CASE Item(s).observed \/ Top(s).candidate -> Observed(s)
        [] kind = "{" -> Copied([s EXCEPT !.depth = @ + 1], "IDENTITY")
        [] kind = "}" -> Copied([s EXCEPT !.depth = @ - 1], "IDENTITY")
        [] kind \in {"input", "include", "import"} -> Input(s)
        [] kind = "package" -> Request(s)
        [] kind = "asset" -> Asset(s)
        [] kind = "paths" -> SearchPaths(s)
        [] kind = "literal" -> Literal(s)
        [] kind = "bib" -> Bibliography(s)
        [] kind = "def" -> Define(s)
        [] kind = "use" -> Copied(DeferEffects(s), "DEFER_INTERPRETATION")
        [] kind = "only" -> [s EXCEPT !.selected = TRUE, !.only = { Item(s).names[i] : i \in DOMAIN Item(s).names }]
        [] kind = "refused" -> Defers(s, "command")
        [] kind = "computed" -> Defers(s, "input")
        [] kind = "comment" -> s
        [] kind = "endinput" -> [s EXCEPT !.frames[Len(s.frames)].at = Len(Text(Top(s).path))]
        [] kind = "enddoc" -> Copied([s EXCEPT !.ended = TRUE], "IDENTITY")
        [] OTHER -> Copied(s, "IDENTITY")

Taken(s) ==
  LET t == Dispatched(s)
      u == Scoped(t)
  IN  CASE Item(s).kind \in {"bad", "ahead"} -> Boundary(s)
        [] Len(t.frames) > Len(s.frames) -> u
        [] OTHER -> Passed(IF Item(s).observed THEN u ELSE [u EXCEPT !.frames[Len(u.frames)].changed = FALSE])

Checked(s) ==
  IF Len(s.frames) = 1 THEN [s EXCEPT !.checkpoint = [at |-> Top(s).at, pieces |-> Len(s.pieces)]] ELSE s

Step(s) ==
  CASE Top(s).queue # <<>> -> Serve(s)
    [] Top(s).at > Len(Text(Top(s).path)) -> Ended(Checked(s))
    [] OTHER -> Taken(Checked(s))
Traversing(s) == s.frames # <<>> /\ ~s.ended
=============================================================================
