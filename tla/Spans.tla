--------------------------------- MODULE Spans ---------------------------------
(***************************************************************************)
(* reading/spans.py: intervals of one source occurrence, and coverage as a *)
(* sorted sequence of disjoint intervals that do not touch, combined by    *)
(* sweeps from left to right.                                              *)
(***************************************************************************)
EXTENDS Integers, Sequences, SequencesExt

Span(start, end) == [start |-> start, end |-> end]
SpansOf(length) == { s \in [start: 0..length, end: 0..length] : s.start <= s.end }
Whole(length) == Span(0, length)

(* The reference: the characters an interval, or a set of them, covers.    *)
At(span) == span.start..(span.end - 1)
Covered(spans) == UNION { At(spans[i]) : i \in 1..Len(spans) }

Least(i, j) == IF i < j THEN i ELSE j
Most(i, j) == IF i > j THEN i ELSE j
Before(a, b) == a.start < b.start \/ (a.start = b.start /\ a.end < b.end)

Merged(sofar, span) ==
  IF sofar # <<>> /\ span.start <= Last(sofar).end
    THEN Front(sofar) \o <<Span(Last(sofar).start, Most(Last(sofar).end, span.end))>>
    ELSE Append(sofar, span)

SpanSet(spans) == FoldLeft(Merged, <<>>, SetToSortSeq({ s \in spans : s.start < s.end }, Before))

Union(a, b) == SpanSet(ToSet(a) \cup ToSet(b))

RECURSIVE Intersection(_, _), Difference(_, _), DifferenceSpent(_, _), Split(_, _)

Intersection(a, b) ==
  IF a = <<>> \/ b = <<>> THEN <<>>
  ELSE LET start == Most(Head(a).start, Head(b).start)
           end == Least(Head(a).end, Head(b).end)
       IN  (IF start < end THEN <<Span(start, end)>> ELSE <<>>)
             \o (IF Head(a).end <= Head(b).end THEN Intersection(Tail(a), b) ELSE Intersection(a, Tail(b)))

(* Mutant of Difference: an interval that ends one is not held for the next. *)
DifferenceSpent(a, b) ==
  IF a = <<>> \/ b = <<>> THEN a
  ELSE IF Head(b).end <= Head(a).start THEN DifferenceSpent(a, Tail(b))
  ELSE IF Head(b).start >= Head(a).end THEN <<Head(a)>> \o DifferenceSpent(Tail(a), b)
  ELSE (IF Head(a).start < Head(b).start THEN <<Span(Head(a).start, Head(b).start)>> ELSE <<>>)
         \o DifferenceSpent((IF Head(b).end < Head(a).end THEN <<Span(Head(b).end, Head(a).end)>> ELSE <<>>)
                              \o Tail(a), Tail(b))

(* What is left of each interval of a; one of b may also cover the next.   *)
Difference(a, b) ==
  IF a = <<>> \/ b = <<>> THEN a
  ELSE IF Head(b).end <= Head(a).start THEN Difference(a, Tail(b))
  ELSE IF Head(b).start >= Head(a).end THEN <<Head(a)>> \o Difference(Tail(a), b)
  ELSE (IF Head(a).start < Head(b).start THEN <<Span(Head(a).start, Head(b).start)>> ELSE <<>>)
         \o (IF Head(b).end >= Head(a).end
               THEN Difference(Tail(a), b)
               ELSE Difference(<<Span(Head(b).end, Head(a).end)>> \o Tail(a), Tail(b)))

Clip(a, window) == Intersection(a, SpanSet({window}))
Complement(a, window) == Difference(SpanSet({window}), a)
Covers(a, b) == Difference(b, a) = <<>>

(* partition: the intervals cut at the given offsets.                      *)
Split(a, points) ==
  IF a = <<>> THEN <<>>
  ELSE LET inside == { p \in points : Head(a).start < p /\ p < Head(a).end }
           cut == CHOOSE p \in inside : \A q \in inside : p <= q
       IN  IF inside = {} THEN <<Head(a)>> \o Split(Tail(a), points)
           ELSE <<Span(Head(a).start, cut)>> \o Split(<<Span(cut, Head(a).end)>> \o Tail(a), points)

Normal(spans) ==
  /\ \A i \in 1..Len(spans) : spans[i].start < spans[i].end
  /\ \A i \in 1..(Len(spans) - 1) : spans[i].end < spans[i + 1].start

================================================================================
