------------------------------- MODULE Locations -------------------------------
(***************************************************************************)
(* reading/edit_map.py with prepare/emission.py, prepare/locations.py and  *)
(* the ledger of prepare/provenance.py: prepared artifacts are made of     *)
(* pieces, each copied from an interval of a source and then edited, and   *)
(* every piece carries a map from its source to its text.  At the end the  *)
(* maps say where an interval of the source went, and evidence of discards *)
(* says why the rest did not.                                              *)
(*                                                                         *)
(* A piece is [artifact, span, text, length, runs, operation, replaces]:   *)
(* `length' and `runs' are its EditMap; `text' is, per character, the      *)
(* source characters it stands for and whether it is a copy; `replaces'    *)
(* has the commands in whose place it was put.                             *)
(***************************************************************************)
EXTENDS Spans, FiniteSets

CONSTANTS
  Length,       (* Characters of the source.                                 *)
  Artifacts,    (* master.tex, and the payloads of retained inputs.          *)
  Master,
  MaxPieces,    (* Bound on the pieces ...                                   *)
  MaxSteps      (* ... and on pieces, discards and edits together.           *)

VARIABLES
  pieces,       (* In the order of emission.                                 *)
  discarded,    (* Intervals a scanner, or a tombstone, gives a reason for.  *)
  accounts,     (* Whether account() has run, and what it left: tombstones,
                   and the intervals nobody accounts for.                    *)
  edits

locationVars == <<pieces, discarded, accounts, edits>>

Run(source, start, end, kind) == [source |-> source, start |-> start, end |-> end, kind |-> kind]
Shifted(run, amount) == [run EXCEPT !.start = @ + amount, !.end = @ + amount]
Point(p) == Span(p, p)
Char(from, copy) == [from |-> from, copy |-> copy]

Commands == UNION { pieces[n].replaces : n \in 1..Len(pieces) }
Steps == Len(pieces) + Cardinality(discarded) + Cardinality(Commands) + edits

(* EditMap.copied, and the characters copied. *)
Copied(artifact, span) ==
  [artifact |-> artifact, span |-> span, operation |-> "IDENTITY", length |-> span.end - span.start, replaces |-> {},
   runs |-> <<Run(span, 0, span.end - span.start, "copy")>>,
   text |-> [i \in 1..(span.end - span.start) |-> Char({span.start + i - 1}, TRUE)]]

(* EditMap.replaced: text generated for an interval, or at a point. *)
Generated(artifact, span, length) ==
  [artifact |-> artifact, span |-> span, operation |-> "GENERATED", length |-> length, replaces |-> {},
   runs |-> <<Run(span, 0, length, IF span.start = span.end THEN "insert" ELSE "replace")>>,
   text |-> [i \in 1..length |-> Char(At(span), FALSE)]]

-----------------------------------------------------------------------------
(* project_run: where one run takes an interval, if anywhere.              *)
Projected(start, end, relation) == [start |-> start, end |-> end, relation |-> relation]

project_run(run, span) ==
  LET source == run.source
      start == Most(span.start, source.start)
      end == Least(span.end, source.end)
  IN  CASE span.start = span.end /\ run.kind = "copy" /\ source.start <= span.start /\ span.start <= source.end ->
             {Projected(run.start + span.start - source.start, run.start + span.start - source.start, "copy")}
        [] span.start = span.end /\ run.kind # "copy" /\ source.start < span.start /\ span.start < source.end ->
             {Projected(run.start, run.end, "enclosing")}
        [] span.start < span.end /\ run.kind = "insert" /\ span.start < source.start /\ source.start < span.end ->
             {Projected(run.start, run.end, "insert")}
        [] span.start < span.end /\ run.kind = "copy" /\ start < end ->
             {Projected(run.start + start - source.start, run.start + end - source.start, "copy")}
        [] span.start < span.end /\ run.kind = "replace" /\ start < end ->
             {Projected(run.start, run.end,
                IF span.start <= source.start /\ source.end <= span.end THEN "replace" ELSE "enclosing")}
        [] OTHER -> {}

-----------------------------------------------------------------------------
(* EditMap.edit: one replacement in the coordinates of the text. *)

Removal(run, start, end, length) ==
  LET delta == length - (end - start)
      a == Most(run.start, start)
      b == Least(run.end, end)
      left == run.source.start + a - run.start
      right == run.source.start + b - run.start
  IN  IF run.end <= start THEN <<run>>
      ELSE IF run.start >= end THEN <<Shifted(run, delta)>>
      ELSE IF run.kind = "copy"
        THEN (IF run.start < a THEN <<Run(Span(run.source.start, left), run.start, a, "copy")>> ELSE <<>>)
               \o (IF a < b THEN <<Run(Span(left, right), start, start + length, "replace")>> ELSE <<>>)
               \o (IF b < run.end THEN <<Run(Span(right, run.source.end), b + delta, run.end + delta, "copy")>> ELSE <<>>)
        ELSE <<Run(run.source, Least(run.start, start), Most(start + length, run.end + delta), run.kind)>>

(* The last run that touches the point of an insertion anchors it, copied   *)
(* text by a point of its own.                                             *)
Insertion(runs, kept, start, length) ==
  LET touching == SelectSeq(runs, LAMBDA r : r.start <= start /\ start <= r.end)
      copies == SelectSeq(touching, LAMBDA r : r.kind = "copy")
      anchor == Last(copies)
      origin == Last(touching).source
  IN  IF copies # <<>>
        THEN <<Run(Point(anchor.source.start + start - anchor.start), start, start + length, "insert")>>
      ELSE IF \E i \in 1..Len(kept) : kept[i].start <= start /\ start + length <= kept[i].end THEN <<>>
      ELSE <<Run(origin, start, start + length, IF origin.start = origin.end THEN "insert" ELSE "replace")>>

Anchored(runs, start) == \E i \in 1..Len(runs) : runs[i].start <= start /\ start <= runs[i].end

Placed(sofar, r) ==
  SelectSeq(sofar, LAMBDA q : ~Before(r, q)) \o <<r>> \o SelectSeq(sofar, LAMBDA q : Before(r, q))

EditedRuns(runs, start, end, length) ==
  LET kept == FlattenSeq([i \in 1..Len(runs) |-> Removal(runs[i], start, end, length)])
      inserted == IF start = end /\ length > 0 THEN Insertion(runs, kept, start, length) ELSE <<>>
  IN  FoldLeft(Placed, <<>>, kept \o inserted)

(* SourcePiece.edited: the characters written stand for those they replace. *)
edited(piece, start, end, length) ==
  [piece EXCEPT
     !.operation = "EDIT", !.length = @ + length - (end - start),
     !.runs = EditedRuns(@, start, end, length),
     !.text = SubSeq(@, 1, start)
                \o [i \in 1..length |-> Char(UNION { @[j].from : j \in (start + 1)..end }, FALSE)]
                \o SubSeq(@, end + 1, Len(@))]


(* edit_source: the one output range an interval goes to, if it is precise. *)
SourceRange(piece, span) ==
  LET ranges == FoldLeft(Placed, <<>>, SetToSeq(UNION { project_run(piece.runs[i], span) : i \in 1..Len(piece.runs) }))
      precise == /\ ranges # <<>>
                 /\ \A i \in 1..Len(ranges) : ranges[i].relation # "enclosing"
                 /\ \A i \in 1..(Len(ranges) - 1) : ranges[i].end = ranges[i + 1].start
  IN  IF precise THEN {Span(Head(ranges).start, Last(ranges).end)} ELSE {}

-----------------------------------------------------------------------------
(* PreparedLocations. *)

OfArtifact(a) == SelectSeq(pieces, LAMBDA p : p.artifact = a)
Offset(parts, n) == FoldLeft(LAMBDA sum, p : sum + p.length, 0, SubSeq(parts, 1, n - 1))
TextOf(a) == FlattenSeq([n \in 1..Len(OfArtifact(a)) |-> OfArtifact(a)[n].text])

(* add: the runs of an artifact's pieces, in its own coordinates; a piece  *)
(* put in the place of a command is, whole, where the command went.        *)
PieceRuns(piece) == ToSet(piece.runs) \cup { Run(span, 0, piece.length, "replace") : span \in piece.replaces }

LocatedRuns ==
  UNION { LET parts == OfArtifact(a)
          IN  UNION { { [artifact |-> a, run |-> Shifted(r, Offset(parts, n))] : r \in PieceRuns(parts[n]) } :
                        n \in 1..Len(parts) } : a \in Artifacts }

(* account: tombstoned intervals are runs without an artifact. *)
None == "none"
Entries ==
  LocatedRuns \cup { [artifact |-> None, run |-> Run(accounts.tombstones[i], 0, 0, "replace")] :
                       i \in 1..Len(accounts.tombstones) }

Location(artifact, start, end, precision) ==
  [artifact |-> artifact, start |-> start, end |-> end, precision |-> precision]

(* _merge_locations *)
MergedLocation(sofar, l) ==
  IF sofar # <<>> /\ Last(sofar).artifact = l.artifact /\ l.start <= Last(sofar).end
    THEN Front(sofar) \o <<Location(l.artifact, Last(sofar).start, Most(Last(sofar).end, l.end),
                             IF l.precision = "enclosing" THEN l.precision ELSE Last(sofar).precision)>>
    ELSE Append(sofar, l)

Merge(locations) ==
  UNION { ToSet(FoldLeft(MergedLocation, <<>>, SetToSortSeq({ l \in locations : l.artifact = a }, Before))) :
            a \in Artifacts }

project(entries, span) ==
  LET found == UNION { { [entry |-> e, at |-> r] : r \in project_run(e.run, span) } : e \in entries }
      covered == SpanSet({ Span(Most(span.start, h.entry.run.source.start), Least(span.end, h.entry.run.source.end)) :
                             h \in { g \in found : Most(span.start, g.entry.run.source.start)
                                                     < Least(span.end, g.entry.run.source.end) } })
      complete == Covers(covered, SpanSet({span}))
      shown == { h \in found : h.entry.artifact # None /\ (h.at.start < h.at.end \/ span.start = span.end) }
      locations == Merge({ Location(h.entry.artifact, h.at.start, h.at.end,
                             IF h.at.relation = "enclosing" THEN "enclosing" ELSE "exact") : h \in shown })
  IN  [locations |-> locations,
       status |-> IF locations # {}
                    THEN IF ~complete THEN "partial"
                         ELSE IF \E l \in locations : l.precision = "enclosing" THEN "enclosing" ELSE "mapped"
                    ELSE IF complete /\ span.start < span.end THEN "omitted" ELSE "unmapped"]

Represented == SpanSet({ e.run.source : e \in { f \in LocatedRuns : f.run.start < f.run.end } })
Removed == { e.run.source : e \in { f \in LocatedRuns : f.run.start = f.run.end } }
NoAccounts == [done |-> FALSE, tombstones |-> <<>>, unaccounted |-> <<>>]

-----------------------------------------------------------------------------
(* The ledger of prepare/provenance.py for master.tex. *)

Segment(piece, offset) ==
  [generated |-> Span(offset, offset + piece.length), source |-> piece.span, operation |-> piece.operation]

Extended(sofar, next) ==
  IF sofar # <<>> /\ next.operation = "IDENTITY" /\ Last(sofar).operation = "IDENTITY"
       /\ Last(sofar).source.end = next.source.start
    THEN Front(sofar) \o <<[Last(sofar) EXCEPT !.generated.end = next.generated.end, !.source.end = next.source.end]>>
    ELSE Append(sofar, next)

(* build_from_pieces *)
Segments ==
  LET parts == OfArtifact(Master)
      all == [n \in 1..Len(parts) |-> Segment(parts[n], Offset(parts, n))]
  IN  FoldLeft(Extended, <<>>, SelectSeq(all, LAMBDA g : g.generated.start < g.generated.end))

-----------------------------------------------------------------------------
Init == pieces = <<>> /\ discarded = {} /\ accounts = NoAccounts /\ edits = 0

Emit(piece) ==
  /\ ~accounts.done /\ edits = 0 /\ Len(pieces) < MaxPieces /\ Steps < MaxSteps
  /\ pieces' = Append(pieces, piece)
  /\ UNCHANGED <<discarded, accounts, edits>>

(* link_replacement: what was emitted from a piece on, an input's text or a *)
(* bibliography's, stands in the place of the command that asked for it.   *)
LinkReplacement(start, span) ==
  /\ ~accounts.done /\ edits = 0 /\ Steps < MaxSteps
  /\ pieces' = [n \in 1..Len(pieces) |->
                  IF n >= start THEN [pieces[n] EXCEPT !.replaces = @ \cup {span}] ELSE pieces[n]]
  /\ UNCHANGED <<discarded, accounts, edits>>

(* A scanner passes over characters it may or may not emit later. *)
Discard(span) ==
  /\ ~accounts.done /\ edits = 0 /\ Steps < MaxSteps
  /\ discarded' = discarded \cup {span}
  /\ UNCHANGED <<pieces, accounts, edits>>

Edit(n, range, length) ==
  /\ ~accounts.done /\ Steps < MaxSteps
  /\ range.end <= pieces[n].length /\ range.end - range.start + length > 0
  /\ pieces' = [pieces EXCEPT ![n] = edited(@, range.start, range.end, length)]
  /\ edits' = edits + 1
  /\ UNCHANGED <<discarded, accounts>>

EditSource(n, span, length) == \E range \in SourceRange(pieces[n], span) : Edit(n, range, length)

(* account: emission is subtracted before a discard counts as a deletion. *)
Account ==
  /\ ~accounts.done
  /\ LET deleted == Difference(SpanSet(discarded \cup Removed), Represented)
     IN  accounts' = [done |-> TRUE, tombstones |-> deleted,
                      unaccounted |-> Complement(Union(Represented, deleted), Whole(Length))]
  /\ UNCHANGED <<pieces, discarded, edits>>

Next ==
  \/ \E a \in Artifacts, span \in SpansOf(Length) :
        (span.start < span.end /\ Emit(Copied(a, span))) \/ Emit(Generated(a, span, 1))
  \/ \E span \in SpansOf(Length) : span.start < span.end /\ Discard(span)
  \/ \E start \in 1..Len(pieces), span \in SpansOf(Length) : span.start < span.end /\ LinkReplacement(start, span)
  \/ \E n \in 1..Len(pieces), range \in SpansOf(Length + MaxSteps), length \in 0..1 : Edit(n, range, length)
  \/ \E n \in 1..Len(pieces), span \in SpansOf(Length), length \in 0..1 : EditSource(n, span, length)
  \/ Account

-----------------------------------------------------------------------------
(* Every character of an artifact, with what it stands for: the characters  *)
(* it was made from, and the commands its piece replaces.                  *)
Output ==
  UNION { LET parts == OfArtifact(a)
          IN  UNION { { [artifact |-> a, place |-> Offset(parts, n) + i - 1, char |-> parts[n].text[i],
                         replaced |-> UNION { At(span) : span \in parts[n].replaces }] :
                          i \in 1..parts[n].length } : n \in 1..Len(parts) } : a \in Artifacts }
StandsFor(o) == o.char.from \cup o.replaced
Inside(o, l) == o.artifact = l.artifact /\ o.place \in At(l)

(* Where the maps send an interval is where its characters are, although    *)
(* they were copied more than once, edited over earlier edits, replaced by *)
(* other text and merged: none is elsewhere, an exact place holds no copy  *)
(* from outside but in the place of a command inside, and a place is       *)
(* complete only when every character was emitted, replaced or discarded.  *)
ProjectionsAreTrue ==
  LET output == Output
      entries == Entries
  IN  \A span \in SpansOf(Length) : span.start < span.end =>
        LET r == project(entries, span)
        IN  /\ \A o \in output : StandsFor(o) \cap At(span) # {} => \E l \in r.locations : Inside(o, l)
            /\ \A l \in r.locations : l.precision = "exact" =>
                  \A o \in output :
                    Inside(o, l) /\ o.char.copy /\ o.replaced \cap At(span) = {} => o.char.from \subseteq At(span)
            /\ r.status \in {"mapped", "enclosing", "omitted"} =>
                  \A i \in At(span) : \/ \E o \in output : i \in StandsFor(o)
                                      \/ \E d \in discarded : i \in At(d)
                                      \/ \E e \in entries : e.artifact # None /\ i \in At(e.run.source)

(* A tombstone is put only on characters no artifact holds or stands for,   *)
(* and somebody discarded or deleted; what is neither in an artifact nor   *)
(* discarded stays unaccounted.                                            *)
TombstonesAreTrue ==
  accounts.done =>
    LET output == Output
    IN  /\ \A i \in Covered(accounts.tombstones) : \A o \in output : i \notin StandsFor(o)
        /\ \A i \in Covered(accounts.unaccounted) :
              (\A o \in output : i \notin StandsFor(o)) /\ (\A d \in discarded : i \notin At(d))

(* A segment the ledger calls identical is: offsets carry over, across the *)
(* pieces it joins; and the segments tile master.tex.                      *)
LedgerIsTrue ==
  LET segments == Segments
      text == TextOf(Master)
  IN  /\ \A n \in 1..Len(segments) :
            LET g == segments[n]
            IN  /\ g.generated.start = (IF n = 1 THEN 0 ELSE segments[n - 1].generated.end)
                /\ g.operation = "IDENTITY" =>
                      \A i \in At(g.generated) : text[i + 1] = Char({g.source.start + i - g.generated.start}, TRUE)
      /\ text # <<>> => Last(segments).generated.end = Len(text)

LocationsAreTrue == ProjectionsAreTrue /\ TombstonesAreTrue /\ LedgerIsTrue

================================================================================
