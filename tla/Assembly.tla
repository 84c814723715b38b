------------------------------ MODULE Assembly ------------------------------
(***************************************************************************)
(* The stages of prepare/pipeline.py that follow the traversal: the survey's *)
(* retention (preservation.py), the bibliography, the assets, the markers   *)
(* of failed requests (recovery.py), the payload and the statuses of        *)
(* manifest.py.  What the package says is compared with what the paper does *)
(* by an abstract TeX that reads both.                                     *)
(***************************************************************************)
EXTENDS Traversal

VARIABLES
  phase,      (* The stage of _prepare_paper.                               *)
  package     (* What the staging directory holds.                          *)

vars == <<project, session, phase, package>>
Staged == [words |-> <<>>, files |-> <<>>, data |-> {}, literals |-> {}, graphics |-> {}]
Failed(s) == phase' = "failed" /\ session' = s /\ UNCHANGED <<project, package>>

-----------------------------------------------------------------------------
(* retain_survey_inputs: the sources and the resources that what is kept    *)
(* unread may ask for, from the start of a retained source or of the        *)
(* remainder of the root.                                                  *)
Master == <<"", "master.bbl">>
Seeds(s) ==
  { <<path, 1, "">> : path \in { p \in s.code \cup s.styles : \A d \in s.dirs : d[1] # p } }
    \cup { <<d[1], 1, d[2]>> : d \in { e \in s.dirs : e[1] \in s.code \cup s.styles } }
    \cup (IF s.preserved > 0 THEN {<<Root, s.preserved, "">>} ELSE {})

Listed(seed) ==
  LET text == Text(seed[1])
      stops == { i \in DOMAIN text : text[i].kind \in {"endinput", "enddoc"} }
  IN  IF Unreadable(seed[1]) THEN {}
      ELSE { text[i] : i \in { j \in seed[2]..Len(text) : ~text[j].observed /\ \A k \in stops : j < k } }

(* The names and the files of the resources of a request.                  *)
Databases(item) == { item.names[i] : i \in DOMAIN item.names }
Named(name, path) == IF path = None THEN {} ELSE {<<<<"", name[2]>>, path>>}
Resources(item) ==
  CASE item.kind = "bib" ->
         UNION { Named(name, Found(name, <<"">>)) : name \in Databases(item) }
           \cup (IF Formatted \in Files THEN {<<Master, Formatted>>} ELSE {})
    [] item.kind = "literal" -> Named(item.name, Found(item.name, <<"">>))
    [] OTHER -> {}
Readable(path) == Outcome(path) = "found" /\ ~Unreadable(path)
Held(seed) == { r \in UNION { Resources(item) : item \in Listed(seed) } : Readable(r[2]) }
Asked(seed) ==
  { <<path, 1, seed[3]>> : path \in
      { p \in { Found(item.name, Directories(seed[3])) : item \in { i \in Listed(seed) : i.kind = "input" } } : Readable(p) } }

Retaining(s) ==
  LET closure[n \in Nat] ==
        IF n = 0 THEN Seeds(s)
        ELSE LET seeds == closure[n - 1]
             IN  seeds \cup UNION { Asked(e) \cup { <<r[2], 1, "">> : r \in Held(e) } : e \in seeds }
      reached == closure[Cardinality(Files)]
      sources == { a[1] : a \in UNION { Asked(e) : e \in reached } }
      held == UNION { Held(e) : e \in reached }
  IN  [s EXCEPT !.code = @ \cup (sources \ s.styles), !.candidates = @ \cup sources \cup { r[2] : r \in held },
                !.resources = @ \cup held]

(* A name can stand for one file only. *)
Unambiguous(resources) == \A r, t \in resources : r[1] = t[1] => r[2] = t[2]

-----------------------------------------------------------------------------
(* prepare_bibliography. *)
IsDeclaration(piece) == piece.op # "PRESERVE_UNRESOLVED" /\ Len(piece.words) = 1 /\ piece.words[1].item.kind = "bib"
Discarded(s) == [s EXCEPT !.pieces = SelectSeq(@, LAMBDA p : p.place \notin s.inserted), !.inserted = {}]
(* A resource takes the name from another that has it. *)
Kept(s, held) ==
  [s EXCEPT !.resources = { r \in @ : \A h \in held : h[1] # r[1] } \cup held]
Originals(paths) == { <<p, p>> : p \in paths }
Surviving(s) == { s.pieces[i].words[1] : i \in { j \in DOMAIN s.pieces : Len(s.pieces[j].words) = 1 } }
Cited(s) ==
  { w.item.name : w \in { v \in Surviving(s) : v.item.kind = "cite" /\ ~v.item.observed } }
Entries(words) == { w.item.name : w \in { v \in words : v.item.kind = "entry" } }
InsertedWords(s) == { s.pieces[i].words[1] : i \in { j \in DOMAIN s.pieces : s.pieces[j].place \in s.inserted } }

(* Every database is looked for before anything is given up.               *)
Sought(s, declaration, names) ==
  LET dirs == <<"", declaration.words[1].path[1]>>
      Fate(name) == IF Outcome(Found(name, dirs)) # "found" THEN Outcome(Found(name, dirs))
                    ELSE IF Unreadable(Found(name, dirs)) THEN ReadOutcome(Found(name, dirs)) ELSE "found"
      Missed(t, name) ==
        IF Fate(name) = "found" \/ Formatted \in Files THEN t
        ELSE Recorded(t, declaration.place, "bibliography", Fate(name), name, FALSE, FALSE)
  IN  [session |-> FoldLeft(Missed, s, names),
       paths |-> { Found(names[i], dirs) : i \in { j \in DOMAIN names : Fate(names[j]) = "found" } },
       all |-> \A i \in DOMAIN names : Fate(names[i]) = "found"]

(* A declaration with the name of the one database that holds them all. *)
Rebase(s, place, names) ==
  [s EXCEPT !.pieces = [i \in DOMAIN @ |->
     IF @[i].place = place /\ IsDeclaration(@[i])
     THEN [@[i] EXCEPT !.words = <<[@[1] EXCEPT !.item.names = names, !.item.kind = "rebased"]>>] ELSE @[i]]]

Native(s, declaration, paths, found) ==
  LET place == declaration.place
      bad == { p \in paths : ~Is(p, "ok") }
      entries == UNION { Entries({ Word(p, i) : i \in DOMAIN Text(p) }) : p \in paths }
      spliced == [Made("spliced", declaration.words[1]) EXCEPT !.item.names = SetToSeq(paths)]
      failed == Kept(Recorded(s, place, "bibliography", "failed", None, FALSE, FALSE), Originals(paths))
  IN  CASE \E p \in bad : Is(p, "conflict") -> Rebase(Diagnosed(s, place, "not_required"), place, SetToSeq(paths))
        [] bad # {} \/ ~(Cited(s) \subseteq entries) -> failed
        [] OTHER -> [s EXCEPT !.pieces = [i \in DOMAIN @ |->
                       IF @[i] = declaration THEN Piece("SPLICE_BIB", place, <<spliced>>) ELSE @[i]]]

Supplied(s, declaration) ==
  LET place == declaration.place
      master == Kept(s, {<<Master, Formatted>>})
      unread == \E u \in s.unresolved : s.occurrences[u.place[1]] = Formatted
      requests == { i \in DOMAIN s.pieces : s.pieces[i].place = place /\ s.pieces[i] # declaration }
      first == CHOOSE i \in DOMAIN s.pieces : s.pieces[i] = declaration
      retracted == Discarded(Diagnosed(master, place, "not_required"))
      broken == Recorded(master, place, "formatted_bibliography", "failed", Formatted, FALSE, FALSE)
      entered == Recorded(s, place, "bibliography_entry", "absent", None, FALSE, FALSE)
  IN  CASE ~(\E w \in InsertedWords(s) : w.item.kind = "envelope") /\ unread ->
             [retracted EXCEPT !.pieces = SelectSeq(@, LAMBDA p :
                p = declaration \/ ~(p.place = place \/ IsDeclaration(p)))]
        [] ~(\E w \in InsertedWords(s) : w.item.kind = "envelope") -> Discarded(broken)
        [] ~(Cited(s) \subseteq Entries(InsertedWords(s))) -> entered
        [] OTHER -> [s EXCEPT !.pieces = SelectSeq(@, LAMBDA p : p # declaration)]

PrepareBibliography(s) ==
  LET declared == SelectSeq(s.pieces, IsDeclaration)
      declaration == Head(declared)
      failed == \E i \in DOMAIN s.failures : s.failures[i].place = declaration.place
      sought == Sought(s, declaration, declaration.words[1].item.names)
  IN  CASE declared = <<>> -> s
        [] failed -> Discarded(s)
        [] Formatted \in Files -> Supplied(sought.session, declaration)
        [] ~sought.all -> Discarded(Kept(sought.session, Originals(sought.paths)))
        [] OTHER -> Native(sought.session, declaration, sought.paths, sought.all)

-----------------------------------------------------------------------------
(* The assets: every use that is left is converted, and the reference to it *)
(* rewritten where the package has one.                                    *)
Holds(piece, place) == piece.op # "PRESERVE_UNRESOLVED" /\ piece.place = place
SurvivingUses(s) ==
  { u \in s.uses : u.source \in s.code \cup s.styles \/ \E i \in DOMAIN s.pieces : Holds(s.pieces[i], u.place) }
Graphic(word, path) == [word EXCEPT !.item.kind = "graphic", !.item.name = path]

Converted(s, broken) ==
  LET uses == SurvivingUses(s)
      Miss(t, u) == Recorded(t, u.place, "asset", "failed", u.path, FALSE, FALSE)
      missed == FoldLeft(Miss, s, SetToSeq({ u \in uses : u.path \in broken }))
      mapped == { u \in uses : u.path \notin broken }
      Rewrite(piece) ==
        IF \E u \in mapped : Holds(piece, u.place)
        THEN [piece EXCEPT !.words = <<Graphic(@[1], (CHOOSE u \in mapped : Holds(piece, u.place)).path)>>] ELSE piece
      Edit(t, u) == EditPayload(t, u.source, u.place[2], Graphic(Word(u.source, u.place[2]), u.path))
      edited == FoldLeft(Edit, missed, SetToSeq({ u \in mapped : u.source \in s.code \cup s.styles }))
      Prepared(r) == IF r.materialization = "pending" /\ \E u \in mapped : u.place = r.place
                     THEN [r EXCEPT !.materialization = "prepared"] ELSE r
  IN  IF s.images \cup s.observed = {} THEN s
      ELSE [edited EXCEPT !.pieces = [i \in DOMAIN @ |-> Rewrite(@[i])],
                          !.requirements = { Prepared(r) : r \in @ }]

-----------------------------------------------------------------------------
(* project_recoveries: a marker stands where a failed request stood, in the *)
(* master and in the payload of the source that asks.                      *)
At(s, f) == <<s.occurrences[f.place[1]], f.place[2]>>
Marked(kind, word, name) == [word EXCEPT !.item = Says(kind, name)]
Note(word) == Marked("note", word, None)
Marking(word, failed) == Marked(IF failed[1].kind = "bibliography_entry" THEN "note" ELSE "marker", word, failed[1].name)
Replacement(word, failed) ==
  LET names == Word(word.path, word.at).item.names
      lost == { failed[i].name : i \in DOMAIN failed }
      each == [i \in DOMAIN names |-> <<names[i], word.item.names[i]>>]
      gone == SelectSeq(each, LAMBDA n : n[1] \in lost)
      left == SelectSeq(each, LAMBDA n : n[1] \notin lost)
      rest == IF left = <<>> THEN <<>> ELSE <<[word EXCEPT !.item.names = [i \in DOMAIN left |-> left[i][2]]]>>
  IN  IF word.item.kind = "package" THEN [i \in DOMAIN gone |-> Marked("marker", word, gone[i][1])] \o rest
      ELSE <<Marking(word, failed)>>

ProjectRecoveries(s) ==
  LET FailedAt(place) == SelectSeq(s.failures, LAMBDA f : f.place = place)
      Standing(piece, i) == IF piece.op = "PRESERVE_UNRESOLVED" THEN <<1, piece.words[i].at>> ELSE piece.place
      Replaced(piece) ==
        [piece EXCEPT !.words = FlattenSeq([i \in DOMAIN @ |->
           IF FailedAt(Standing(piece, i)) = <<>> THEN <<@[i]>> ELSE Replacement(@[i], FailedAt(Standing(piece, i)))])]
      inMaster == { i \in DOMAIN s.failures : \E j \in DOMAIN s.pieces : \E k \in DOMAIN s.pieces[j].words :
                      Standing(s.pieces[j], k) = s.failures[i].place }
      inPayload == { i \in DOMAIN s.failures : At(s, s.failures[i])[1] \in s.code \cup s.styles }
      Peers(at) == SelectSeq(s.failures, LAMBDA f : At(s, f) = at)
      Present(at) == \E p \in s.present : <<s.occurrences[p[1]], p[2]>> = at
      Replaces(at) ==
        LET word == Word(at[1], at[2])
        IN  IF Present(at) THEN <<Note(word), word>> ELSE Replacement(word, Peers(at))
      places == { At(s, s.failures[i]) : i \in inPayload }
  IN  [s EXCEPT !.pieces = [i \in DOMAIN @ |-> Replaced(@[i])],
                !.markers = [at \in places |-> Replaces(at)],
                !.edits = { e \in @ : <<e.path, e.at>> \notin places },
                !.placed = { s.failures[i].place : i \in inMaster \cup inPayload }]

-----------------------------------------------------------------------------
(* The payload: every retained source with its edits, and the files that    *)
(* the package asks for by other names.                                    *)
Payload(s, path) ==
  FlattenSeq([i \in DOMAIN Text(path) |->
    CASE <<path, i>> \in DOMAIN s.markers -> s.markers[<<path, i>>]
      [] \E e \in s.edits : e.path = path /\ e.at = i -> <<(CHOOSE e \in s.edits : e.path = path /\ e.at = i).word>>
      [] OTHER -> <<Word(path, i)>>])
Emitted(s, broken) ==
  [words |-> FlattenSeq([i \in DOMAIN s.pieces |-> s.pieces[i].words]),
   files |-> [path \in s.code \cup s.styles |-> Payload(s, path)],
   data |-> s.resources, literals |-> { l.path : l \in s.literals },
   graphics |-> { u.path : u \in SurvivingUses(s) } \ broken]
(* A resource may not differ from the source that is at its name. *)
Agrees(s) == \A r \in s.resources : r[1] \in s.code \cup s.styles => Payload(s, r[1]) = Words(r[2])

(* refresh_status and the inventory. *)
PendingPayload(s) == \E r \in s.requirements : r.materialization = "pending"
PendingPreparation(s) ==
  s.unresolved # {} \/ PendingPayload(s) \/ \E r \in s.requirements : r.stage = "preparation" \/ r.dependency = "possible"
Status(s) == IF PendingPreparation(s) THEN "partial" ELSE "complete"
Reached(s) == { s.occurrences[i] : i \in DOMAIN s.occurrences }
Dormant(s) ==
  IF PendingPreparation(s) THEN {} ELSE Files \ (Reached(s) \cup s.candidates \cup s.images \cup s.observed)

-----------------------------------------------------------------------------
(* _prepare_paper.  A name that would stand for two files, and an edit that *)
(* contradicts another, give the preparation up: two uses of one image may  *)
(* be under different search paths.  What reading edits is always looked    *)
(* for in the same directories.                                            *)
Init ==
  /\ \E papers \in Projects : project \in papers
  /\ session = Opened /\ phase = "reading" /\ package = Staged
(* Nothing is prepared. *)
Idle == project = <<>> /\ session = <<>> /\ phase = "failed" /\ package = <<>>
Read ==
  /\ phase = "reading" /\ Traversing(session)
  /\ session' = Step(session)
  /\ UNCHANGED <<project, phase, package>>
Survey ==
  /\ phase = "reading" /\ ~Traversing(session)
  /\ LET s == Retaining(session) IN
       IF Unambiguous(s.resources) THEN session' = s /\ phase' = "bibliography" /\ UNCHANGED <<project, package>>
       ELSE Failed(s)
FormatBibliography ==
  /\ phase = "bibliography"
  /\ session' = PrepareBibliography(session) /\ phase' = "assets"
  /\ UNCHANGED <<project, package>>
ConvertAssets ==
  /\ phase = "assets"
  /\ LET broken == { p \in session.images \cup session.observed : Is(p, "broken") }
         s == Converted(session, broken)
         t == ProjectRecoveries(s)
     IN  IF Conflicting(s) \/ ~Agrees(t) THEN Failed(s)
           ELSE session' = t /\ package' = Emitted(t, broken) /\ phase' = "staged" /\ UNCHANGED project
(* A paper's frames are of occurrences, in the order they were opened; what  *)
(* names a place names one of an occurrence.                                *)
StagesTypeOK ==
  /\ phase \in {"reading", "bibliography", "assets", "staged", "failed"}
  /\ DOMAIN session.frames # {} => phase \in {"reading", "bibliography", "failed"} \/ session.ended
  /\ \A i \in DOMAIN session.frames : session.occurrences[session.frames[i].occurrence] = session.frames[i].path
  /\ \A i \in DOMAIN session.pieces : session.pieces[i].place[1] \in DOMAIN session.occurrences
  /\ session.checkpoint.pieces <= Len(session.pieces) \/ session.preserved > 0 \/ phase # "reading"
  /\ DOMAIN package.files \subseteq session.code \cup session.styles

Rest == phase \in {"staged", "failed"} /\ UNCHANGED vars
Next == Read \/ Survey \/ FormatBibliography \/ ConvertAssets \/ Rest
Spec == Init /\ [][Next]_vars
=============================================================================
