------------------------------- MODULE Coverage --------------------------------
(***************************************************************************)
(* reading/coverage.py: what the reader has established about a source,    *)
(* as three-valued queries.  A snapshot is taken of the ordered items the  *)
(* dispatcher produced; queries about their kinds are combined with not,   *)
(* or, and.                                                                *)
(***************************************************************************)
EXTENDS Spans, FiniteSets

CONSTANTS
  Length,       (* Characters of the source.                                 *)
  MaxItems,     (* Bound on the items of the stream.                         *)
  MaxQueries    (* Bound on the queries composed.                            *)

Kinds == {"literal", "definition", "skipped"}
Parts(kind) == IF kind = "skipped" THEN {"span"} ELSE {"span", "body"}

VARIABLES
  items,        (* The stream: [kind, span, body, children], in order.       *)
  closed,       (* Whether a reading boundary has ended it.                  *)
  answer,       (* The query built so far: [window, matches, unknown] ...    *)
  meant,        (* ... and, per character, what it should answer.            *)
  queries

coverageVars == <<items, closed, answer, meant, queries>>

Item(kind, span, body, children) == [kind |-> kind, span |-> span, body |-> body, children |-> children]
Result(window, matches, unknown) == [window |-> window, matches |-> matches, unknown |-> unknown]

End(seen) == IF seen = <<>> THEN 0 ELSE Last(seen).span.end

-----------------------------------------------------------------------------
(* ReadingCoverage. *)

Deferred(seen) ==
  { seen[i].span : i \in { j \in 1..Len(seen) : seen[j].kind = "deferred" } }
    \cup UNION { seen[i].children : i \in 1..Len(seen) }

Observed(seen) ==
  Difference(SpanSet({ seen[i].span : i \in { j \in 1..Len(seen) : seen[j].kind # "deferred" } }),
             SpanSet(Deferred(seen)))
Unknown(seen) == Complement(Observed(seen), Whole(Length))

(* query *)
Query(seen, kind, part, window) ==
  LET records == { i \in 1..Len(seen) : seen[i].kind = kind }
      extents == { IF part = "span" THEN seen[i].span ELSE seen[i].body : i \in records }
  IN  Result(window, Difference(Clip(SpanSet(extents), window), Unknown(seen)), Clip(Unknown(seen), window))

Nonmatches(c) == Complement(Union(c.matches, c.unknown), c.window)

negate(c) == Result(c.window, Nonmatches(c), c.unknown)

union(c, d) ==
  LET matches == Union(c.matches, d.matches)
  IN  Result(c.window, matches, Difference(Union(c.unknown, d.unknown), matches))

intersection(c, d) ==
  LET matches == Intersection(c.matches, d.matches)
      nonmatches == Union(Nonmatches(c), Nonmatches(d))
  IN  Result(c.window, matches, Complement(Union(matches, nonmatches), c.window))

restrict(c, window) == Result(window, Clip(c.matches, window), Clip(c.unknown, window))

partition(c, cuts) == Split(c.matches, cuts) \o Split(Nonmatches(c), cuts) \o Split(c.unknown, cuts)

-----------------------------------------------------------------------------
(* The reference: what is known of a character. *)
Known(seen, i) ==
  /\ \E n \in 1..Len(seen) : seen[n].kind # "deferred" /\ i \in At(seen[n].span)
  /\ \A s \in Deferred(seen) : i \notin At(s)

Truth(seen, kind, part, i) ==
  IF ~Known(seen, i) THEN "unknown"
  ELSE IF \E n \in 1..Len(seen) : /\ seen[n].kind = kind
                                  /\ i \in At(IF part = "span" THEN seen[n].span ELSE seen[n].body)
    THEN "match" ELSE "nonmatch"

Not(v) == CASE v = "match" -> "nonmatch" [] v = "nonmatch" -> "match" [] v = "unknown" -> v
Or(v, w) == IF "match" \in {v, w} THEN "match" ELSE IF "unknown" \in {v, w} THEN "unknown" ELSE "nonmatch"
And(v, w) == Not(Or(Not(v), Not(w)))

Answered(c, i) ==
  IF i \in Covered(c.matches) THEN "match" ELSE IF i \in Covered(c.unknown) THEN "unknown" ELSE "nonmatch"

-----------------------------------------------------------------------------
None == Result(Whole(Length), <<>>, <<>>)

Init ==
  /\ items = <<>> /\ closed = FALSE /\ queries = 0
  /\ answer = None /\ meant = [i \in At(Whole(Length)) |-> "nonmatch"]

(* The items the dispatcher can append: in order, possibly with gaps; a    *)
(* literal may hold interpolations, regions have delimiters.               *)
Bodies(span) == { b \in SpansOf(Length) : span.start < b.start /\ b.end < span.end }
Next3(span) ==
  { Item(kind, span, span, {}) : kind \in {"event", "skipped", "deferred"} }
    \cup { Item("definition", span, b, {}) : b \in Bodies(span) }
    \cup UNION { { Item("literal", span, b, inside) :
                     inside \in SUBSET { c \in SpansOf(Length) : b.start <= c.start /\ c.end <= b.end /\ c.start < c.end }}
                 : b \in Bodies(span) }

Read(item) ==
  /\ ~closed /\ queries = 0 /\ Len(items) < MaxItems
  /\ item.span.start >= End(items)
  /\ Cardinality(item.children) <= 1
  /\ items' = Append(items, item)
  /\ UNCHANGED <<closed, answer, meant, queries>>

(* A boundary: nothing behind it is established. *)
Stop ==
  /\ ~closed /\ queries = 0
  /\ closed' = TRUE
  /\ UNCHANGED <<items, answer, meant, queries>>

Asked(result, values) ==
  /\ closed /\ queries < MaxQueries
  /\ answer' = result /\ meant' = values /\ queries' = queries + 1
  /\ UNCHANGED <<items, closed>>

Within == At(answer.window)

Ask(kind, part) ==
  /\ queries = 0
  /\ Asked(Query(items, kind, part, answer.window), [i \in Within |-> Truth(items, kind, part, i)])

AskOr(kind, part) ==
  /\ queries > 0
  /\ Asked(union(answer, Query(items, kind, part, answer.window)),
           [i \in Within |-> Or(meant[i], Truth(items, kind, part, i))])

AskAnd(kind, part) ==
  /\ queries > 0
  /\ Asked(intersection(answer, Query(items, kind, part, answer.window)),
           [i \in Within |-> And(meant[i], Truth(items, kind, part, i))])

(* difference *)
AskWithout(kind, part) ==
  /\ queries > 0
  /\ Asked(intersection(answer, negate(Query(items, kind, part, answer.window))),
           [i \in Within |-> And(meant[i], Not(Truth(items, kind, part, i)))])

Narrow(window) ==
  /\ queries > 0 /\ answer.window.start <= window.start /\ window.end <= answer.window.end
  /\ Asked(restrict(answer, window), [i \in At(window) |-> meant[i]])

Next ==
  \/ \E span \in SpansOf(Length) : \E item \in Next3(span) : Read(item)
  \/ Stop
  \/ \E kind \in Kinds : \E part \in Parts(kind) :
        Ask(kind, part) \/ AskOr(kind, part) \/ AskAnd(kind, part) \/ AskWithout(kind, part)
  \/ \E window \in SpansOf(Length) : Narrow(window)

-----------------------------------------------------------------------------
(* However queries are combined, a character is called matching or not     *)
(* only when the items established it, an unread or deferred character is  *)
(* unknown unless the rest of the question settles it, and the segments of *)
(* the answer cover the window once.                                       *)
CoverageIsTrue ==
  /\ Normal(answer.matches) /\ Normal(answer.unknown)
  /\ \A i \in Within : Answered(answer, i) = meant[i]
  /\ \A cut \in 0..Length :
        LET segments == partition(answer, {cut})
        IN  \A i \in Within : Cardinality({ n \in 1..Len(segments) : i \in At(segments[n]) }) = 1

================================================================================
