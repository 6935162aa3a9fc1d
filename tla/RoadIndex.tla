----------------------------- MODULE RoadIndex -----------------------------
(***************************************************************************)
(* The index that finds the roads at a point of a map (class RoadIndex of  *)
(* src/src/model/model.cpp): the roads of one line are merged into         *)
(* fragments, and the fragments of a line are searched for a coordinate.   *)
(***************************************************************************)
EXTENDS Integers, Sequences, FiniteSets

(* A road runs between two points along one axis; one that is a mere point *)
(* counts as horizontal.                                                   *)
IsHorizontal(road) == road.start.y = road.end.y

Lesser(a, b) == IF a < b THEN a ELSE b
Greater(a, b) == IF a < b THEN b ELSE a

(* Road::Normalized: a fragment goes from the lesser coordinate up.        *)
Fragment(a, b) == [first |-> Lesser(a, b), second |-> Greater(a, b)]

HorizontalRoads(roads, y) ==
    {Fragment(r.start.x, r.end.x) : r \in {h \in roads : IsHorizontal(h) /\ h.start.y = y}}

VerticalRoads(roads, x) ==
    {Fragment(r.start.y, r.end.y) : r \in {v \in roads : ~IsHorizontal(v) /\ v.start.x = x}}

(* Bug: a fragment that lies within the last one cuts it short.            *)
MergeStepCuttingShort(merged, f) ==
    LET last == merged[Len(merged)]
    IN  IF merged = <<>> \/ f.first > last.second
        THEN Append(merged, f)
        ELSE [merged EXCEPT ![Len(merged)].second = f.second]

(* The loop of MergeFragments: a fragment that begins where the last one   *)
(* has not ended yet prolongs it.                                          *)
MergeStep(merged, f) ==
    LET last == merged[Len(merged)]
    IN  IF merged = <<>> \/ f.first > last.second
        THEN Append(merged, f)
        ELSE [merged EXCEPT ![Len(merged)].second = Greater(@, f.second)]

(* The fragments of a line by where they begin; which of two that begin   *)
(* together comes first is left open.                                      *)
IsSorted(s) == \A i, j \in DOMAIN s : i < j => s[i].first <= s[j].first

Sorted(fragments) ==
    CHOOSE s \in [1 .. Cardinality(fragments) -> fragments] :
        IsSorted(s) /\ \A f \in fragments : \E i \in DOMAIN s : s[i] = f

MergeFragments(fragments) ==
    LET s == Sorted(fragments)
        merged[n \in 0 .. Cardinality(fragments)] ==
            IF n = 0 THEN <<>> ELSE MergeStep(merged[n - 1], s[n])
    IN  merged[Cardinality(fragments)]

(* equal_range: the fragments that neither end before nor begin after c.   *)
FragmentsAt(fragments, c) ==
    LET merged == MergeFragments(fragments)
    IN  {f \in {merged[j] : j \in DOMAIN merged} : f.first <= c /\ c <= f.second}

GetRoadsAtPoint(roads, x, y) ==
    [horizontal |-> FragmentsAt(HorizontalRoads(roads, y), x),
     vertical   |-> FragmentsAt(VerticalRoads(roads, x), y)]
=============================================================================
