------------------------------- MODULE Papers -------------------------------
(* For TLC: small papers, in families about inputs, packages, images, the   *)
(* bibliography, and listings with includes and imports.                    *)
EXTENDS Sequences, FiniteSets, Integers, TLC

LOCAL Says(kind, name) ==
  [kind |-> kind, name |-> <<"?", name>>, dir |-> "", names |-> <<>>, observed |-> FALSE]
LOCAL Kept(item) == [item EXCEPT !.observed = TRUE]
LOCAL Of(kind, names) == [Says(kind, "n") EXCEPT !.names = [i \in DOMAIN names |-> <<"?", names[i]>>]]
LOCAL From(kind, dir, name) == [Says(kind, name) EXCEPT !.dir = dir]
LOCAL Only(name) == [Says("only", "n") EXCEPT !.names = <<name>>]

LOCAL A == Says("input", "a")
LOCAL Bad == Says("bad", "x")
LOCAL Txt == Says("text", "t")

LOCAL File(name, state, text) == <<"", name>> :> [text |-> text, state |-> state, style |-> FALSE]
LOCAL Style(name, state, text) == <<"", name>> :> [text |-> text, state |-> state, style |-> TRUE]
LOCAL In(dir, name, text) == <<dir, name>> :> [text |-> text, state |-> "ok", style |-> FALSE]
LOCAL Paper(files, closed, inline) == [files |-> files, closed |-> closed, inline |-> inline]
LOCAL Texts(words, n) == UNION { [1..k -> words] : k \in 1..n }
LOCAL Mains(words, n) == { File("main", "ok", text) : text \in Texts(words, n) }

-----------------------------------------------------------------------------
(* Inputs that ask for each other, with boundaries, ends and definitions.   *)
InputPapers(n) ==
  LET words == {A, Says("input", "s"), Bad, Says("ahead", "x"), Says("def", "b"), Says("use", "b"), Says("enddoc", "x"),
                Kept(A)}
      inner == {<<Txt, Bad, Says("input", "b")>>, <<Says("input", "b"), Says("endinput", "x"), Txt>>,
                <<Says("input", "b"), Says("computed", "b"), Txt>>, <<Says("input", "a")>>, <<Txt, Says("ahead", "x")>>}
      others == {File("b", "ok", <<Txt>>), File("b", "ambiguous", <<Txt>>)}
  IN  { Paper(main @@ File("a", "ok", a) @@ Style("s", "ok", <<Says("comment", "c"), A, Txt>>) @@ b, TRUE, TRUE) :
          main \in Mains(words, n), a \in inner, b \in others }

(* Requests for packages that ask for others, before and after a doubt.     *)
PackagePapers(n) ==
  LET words == {Of("package", <<"p">>), Of("package", <<"p", "q">>), Of("package", <<"amsmath">>),
                Kept(Of("package", <<"p">>)), Bad, A, Says("refused", "r")}
      packages == { Style("p", state, text) : state \in {"ok", "unreadable", "ambiguous"},
                     text \in {<<A, Txt>>, <<Of("package", <<"q">>), Txt, Bad>>} }
  IN  { Paper(main @@ p @@ File("a", "ok", <<Txt, Of("package", <<"p">>)>>), closed, TRUE) :
          main \in Mains(words, n), p \in packages, closed \in BOOLEAN }

(* Images under search paths that groups and retained inputs restore.       *)
ImagePapers(n) ==
  LET x == Says("asset", "x")
      words == {x, Kept(x), From("paths", "d", "n"), Says("{", "g"), Says("}", "g"), Bad, A}
      Balanced(text) ==
        \A i \in DOMAIN text : 2 * Cardinality({ j \in 1..i : text[j].kind = "}" })
                                 <= Cardinality({ j \in 1..i : text[j].kind \in {"{", "}"} })
      inner == { File("a", "ok", <<x, Bad>>), File("a", "ok", <<From("paths", "d", "n"), x>>), Style("a", "ok", <<x>>) }
      others == { In("d", "x", <<>>) @@ x1 : x1 \in { File("y", "ok", <<>>), File("x", "ok", <<>>) } }
  IN  { Paper(File("main", "ok", text) @@ a @@ other, FALSE, TRUE) :
          text \in { t \in Texts(words, n) : Balanced(t) }, a \in inner, other \in others }

(* Bibliographies from databases or from a formatted one.                   *)
BibliographyPapers(n) ==
  LET db == Of("bib", <<"db">>)
      words == {db, Of("bib", <<"db", "dc">>), Kept(db), Says("cite", "k"), Bad, A}
      k == Says("entry", "k")
      e == Says("envelope", "e")
      databases == { File("z", "ok", <<>>), File("db", "ok", <<k>>) @@ File("dc", "ok", <<>>), File("db", "conflict", <<k>>),
                     File("db", "unreadable", <<k>>) }
      formatted == { File("bbl", "ok", <<e, k>>), File("bbl", "ok", <<e, Bad, k>>), File("bbl", "ok", <<k>>),
                     File("bbl", "undecodable", <<e>>) }
      Once(text) == Cardinality({ i \in DOMAIN text : text[i].kind \in {"bib", "input"} }) < 2
  IN  { Paper(main @@ db1 @@ File("a", "ok", <<db>>), TRUE, TRUE) :
          main \in Mains(words, n), db1 \in databases }
      \cup { Paper(main @@ bbl @@ File("a", "ok", <<db>>), TRUE, TRUE) :
               main \in { m \in Mains(words, n) : Once(m[<<"", "main">>].text) }, bbl \in formatted }

(* Listings, inline or in the payload, with includes and imports.           *)
ListingPapers(n) ==
  LET l == Says("literal", "l")
      words == {l, Kept(l), Bad, A, Says("input", "s"), Says("include", "b"), Only("c"), From("import", "d", "e")}
      listings == { File("l", "ok", <<>>), File("l", "terminator", <<>>), File("l", "unreadable", <<>>) }
      imports == { In("d", "e", <<Says("input", "f"), Bad>>), In("d", "e", <<Says("input", "f"), Says("input", "b")>>) }
  IN  { Paper(main @@ File("a", "ok", <<l, Bad>>) @@ Style("s", "ok", <<l, Says("input", "b")>>)
                @@ File("b", "ok", <<Txt, l>>) @@ listing @@ import @@ In("d", "f", <<Txt>>), TRUE, inline) :
          main \in Mains(words, n), listing \in listings, import \in imports, inline \in BOOLEAN }

(* Images that are broken, and resources that are wanted at names where     *)
(* something else is; what is read before a boundary asks for none.         *)
CollisionPapers(n) ==
  LET db == Of("bib", <<"db">>)
      words == {Bad, A, db, Says("literal", "a"), Says("literal", "master.bbl")}
      bbls == File("bbl", "ok", <<Txt>>) @@ File("master.bbl", "ok", <<>>)
  IN  { Paper(main @@ bbls @@ File("db", "ok", <<>>) @@ File("a", "ok", <<Says("asset", "x"), Bad>>) @@ File("x", state, <<>>),
              TRUE, FALSE) : state \in {"ok", "broken"}, main \in { File("main", "ok", <<first>> \o rest) : first \in {Bad, A}, rest \in Texts(words, n - 1) } }

MCPapers ==
  { CollisionPapers(3), InputPapers(3), PackagePapers(3), ImagePapers(4), BibliographyPapers(3), ListingPapers(3) }
=============================================================================
