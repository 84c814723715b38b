--------------------------- MODULE PackageReading ---------------------------
(***************************************************************************)
(* What TeX makes of a paper and of its package: a reader that follows the  *)
(* requests of both, and the promises of the preparation about the two.     *)
(* A request that names nothing to be had is lost; a marker says so of one. *)
(***************************************************************************)
EXTENDS Assembly

(* What can be read: the paper as it is, without the requests that the      *)
(* package lost; and the package.                                          *)
Paper(lost) ==
  [words |-> Words(Root), files |-> [p \in { q \in Files : ~Is(q, "unreadable") } |-> Words(p)],
   data |-> { <<p, p>> : p \in Files }, literals |-> {}, graphics |-> Files,
   bbl |-> Formatted \in Files, lost |-> lost]
Package == [bbl |-> \E d \in package.data : d[1] = Master, lost |-> {}] @@ package

Token(kind, path, at, of) == [kind |-> kind, path |-> path, at |-> at, of |-> of]
Start(env) ==
  [stack |-> <<[words |-> env.words, at |-> 1, dir |-> "", path |-> Root, include |-> FALSE]>>, out |-> <<>>,
   lost |-> {}, read |-> {Root}, loaded |-> {}, paths |-> <<"">>, selected |-> FALSE, only |-> {}, defs |-> {}]

Current(m) == Last(m.stack)
Put(m, kind, path, at, of) == [m EXCEPT !.out = Append(@, Token(kind, path, at, of))]
(* A request, with what was read before it; the markers of the packages of  *)
(* one request stand before it, so that these have no place.               *)
OfPackage(word) == word.path \in Files /\ Text(word.path)[word.at].kind = "package"
Asking(m, word) ==
  [path |-> word.path, at |-> word.at, after |-> IF OfPackage(word) THEN 0 ELSE Len(m.out),
   name |-> IF OfPackage(word) THEN word.item.name[2] ELSE ""]
Lose(m, word) ==
  LET lost == [m EXCEPT !.lost = @ \cup {Asking(m, word)}]
  IN  IF OfPackage(word) THEN lost ELSE Put(lost, "lost", word.path, word.at, {})
Push(m, words, path, dir, include) ==
  [m EXCEPT !.stack = Append(@, [words |-> words, at |-> 1, dir |-> dir, path |-> path, include |-> include]),
            !.read = @ \cup {path}]
Pop(m) ==
  LET popped == [m EXCEPT !.stack = Front(@)]
  IN  IF Current(m).include THEN Put(popped, "clear", None, 0, {}) ELSE popped
Search(paths, name, dirs) ==
  LET hits == SelectSeq(dirs, LAMBDA d : <<d, name[2]>> \in paths)
  IN  CASE name[1] # Searched -> IF name \in paths THEN name ELSE None
        [] hits = <<>> -> None
        [] OTHER -> <<hits[1], name[2]>>

Sourced(env, m, word, dir) ==
  LET path == Search(DOMAIN env.files, word.item.name, <<dir>>)
      includes == word.item.kind = "include"
      cleared == IF includes THEN Put(m, "clear", None, 0, {}) ELSE m
  IN  CASE includes /\ m.selected /\ word.item.name[2] \notin m.only -> cleared
        [] path = None -> Lose(m, word)
        [] Cardinality({ i \in DOMAIN m.stack : m.stack[i].path = path }) > 2 -> Lose(m, word)
        [] OTHER -> Push(cleared, env.files[path], path, dir, includes)

(* A package is read once; one that is not to be had is left to TeX's own.  *)
Loading(word) ==
  [i \in DOMAIN word.item.names |-> [word EXCEPT !.item.kind = "load", !.item.name = word.item.names[i]]]
Loads(env, m, word) ==
  LET name == word.item.name
      dirs == Directories(Current(m).dir)
      path == Search(DOMAIN env.files, name, dirs)
      loaded == [m EXCEPT !.loaded = @ \cup {name[2]}]
  IN  CASE name[2] \in m.loaded -> m
        [] path # None -> Push(loaded, env.files[path], path, "", FALSE)
        [] Search(Files, name, dirs) # None -> Lose(m, word)
        [] OTHER -> loaded

Listing(env, m, word, name) ==
  LET path == Search({ d[1] : d \in env.data }, name, Directories(Current(m).dir))
  IN  IF path = None THEN Lose(m, word)
      ELSE Put(m, "literal", (CHOOSE d \in env.data : d[1] = path)[2], 0, {})
Image(env, m, word) ==
  LET path == Search(env.graphics, word.item.name, Directories(Current(m).dir) \o <<Last(m.paths)>>)
  IN  IF path = None THEN Lose(m, word) ELSE Put(m, "image", path, 0, {})
Formats(env, m, word) ==
  LET dirs == <<"", word.path[1]>>
      found == { Search({ d[1] : d \in env.data }, n, dirs) : n \in Databases(word.item) }
  IN  CASE env.bbl # (Formatted \in Files) -> Lose(m, word)
        [] env.bbl -> Push(m, Words(Formatted), Formatted, Current(m).dir, FALSE)
        [] None \in found -> Lose(m, word)
        [] OTHER -> Put(m, "formatted", None, 0, found)

(* One word.  The body of a definition asks for its source when it is used. *)
Requests == {"input", "include", "computed", "import", "load", "marker", "asset", "graphic", "literal", "payload",
             "inlined", "bib", "spliced", "rebased", "def"}
Defined(m, word) == { d \in m.defs : word.item.kind = "use" /\ d.item.name = word.item.name }
Read1(env, m, word) ==
  LET kind == word.item.kind
      asks == kind \in {"input", "include", "computed", "import", "def"}
      dir == IF kind = "import" THEN word.item.dir ELSE Current(m).dir
  IN  CASE kind \in Requests /\ Asking(m, word) \in env.lost -> Lose(m, word)
        [] asks -> Sourced(env, m, word, dir)
        [] kind = "package" -> Push(m, Loading(word), Current(m).path, Current(m).dir, FALSE)
        [] kind = "load" -> Loads(env, m, word)
        [] kind = "marker" -> Lose(m, word)
        [] kind \in {"asset", "graphic"} -> Image(env, m, word)
        [] kind = "literal" -> Listing(env, m, word, word.item.name)
        [] kind = "payload" -> IF word.item.name \in env.literals THEN Put(m, "literal", word.item.name, 0, {})
                               ELSE Lose(m, word)
        [] kind = "inlined" -> Put(m, "literal", word.item.name, 0, {})
        [] kind = "bib" -> Formats(env, m, word)
        [] kind \in {"spliced", "rebased"} -> Put(m, "formatted", None, 0, Databases(word.item))
        [] kind = "{" -> [Put(m, "text", word.path, word.at, {}) EXCEPT !.paths = Append(@, Last(@))]
        [] kind = "}" -> [Put(m, "text", word.path, word.at, {}) EXCEPT !.paths = Front(@)]
        [] kind = "paths" -> [Put(m, "text", word.path, word.at, {}) EXCEPT !.paths = Append(Front(@), word.item.dir)]
        [] kind = "only" -> [m EXCEPT !.selected = TRUE, !.only = Databases(word.item)]
        [] kind = "endinput" -> Pop(m)
        [] kind = "enddoc" -> [Put(m, "enddoc", None, 0, {}) EXCEPT !.stack = <<>>]
        [] kind = "clear" -> Put(m, "clear", None, 0, {})
        [] kind \in {"note", "comment"} -> m
        [] OTHER -> Put(m, "text", word.path, word.at, {})

Execute(env, m, word) ==
  LET defined == Defined(m, word)
  IN  CASE word.item.kind = "def" -> [m EXCEPT !.defs = @ \cup {word}]
        [] defined # {} -> Read1(env, m, CHOOSE d \in defined : TRUE)
        [] OTHER -> Read1(env, m, word)
Advanced(m) == [m EXCEPT !.stack[Len(m.stack)].at = @ + 1]
Turn(env, m) ==
  IF Current(m).at > Len(Current(m).words) THEN Pop(m)
  ELSE Execute(env, Advanced(m), Current(m).words[Current(m).at])
RECURSIVE Run(_, _)
Run(env, m) == IF m.stack = <<>> THEN m ELSE Run(env, Turn(env, m))

-----------------------------------------------------------------------------
(* What the manifest says of a request that is lost: a record of it, or the *)
(* boundary before it, or that its source was not reached.  Only the body   *)
(* of a definition may ask for what a complete preparation does not have.   *)
Records(records, s, l) ==
  \E r \in records : s.occurrences[r.place[1]] = l.path /\ r.place[2] = l.at
Stored(s, l) == Records({ r \in s.requirements : r.dependency = "stored" }, s, l)
Unread(s, l) ==
  \/ l.path = Root /\ s.preserved > 0 /\ l.at >= s.preserved
  \/ l.path \notin Reached(s)
  \/ \E u \in s.unresolved : s.occurrences[u.place[1]] = l.path /\ u.place[2] <= l.at
Said(s, l) == Records(s.requirements \cup s.unresolved, s, l) \/ Unread(s, l)

AgreesWithPaper(made, meant) ==
  /\ made.out = meant.out /\ made.lost = meant.lost
  /\ \A l \in made.lost : Said(session, l)
  /\ Status(session) = "complete" => \A l \in made.lost : l.path \notin Reached(session) \/ Stored(session, l)
  /\ Dormant(session) \cap meant.read = {}
Compared(made) == AgreesWithPaper(made, Run(Paper(made.lost), Start(Paper(made.lost))))

(* A package reads as its paper, in order and to the end, but for the       *)
(* requests that could not be had; every one of those is said by the        *)
(* manifest; a preparation that is complete lost nothing of what it read;   *)
(* and no file that is listed as dormant is one TeX reads (session.py,      *)
(* preservation.py, bibliography.py, assets.py, recovery.py, manifest.py). *)
PackageReadsAsPaper ==
  /\ phase \in {"reading", "bibliography"} => ~Conflicting(session)
  /\ phase = "staged" => Compared(Run(Package, Start(Package)))
=============================================================================
