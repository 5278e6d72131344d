------------------------------- MODULE Geometry -----------------------------
(***************************************************************************)
(* The plane geometry of the event rules (src/event_analytics.cpp), over   *)
(* integer points instead of floats: the tolerance of 1e-6 is zero, and    *)
(* what the code divides is compared after multiplying by the divisor.     *)
(***************************************************************************)
EXTENDS Integers, Sequences, FiniteSets

Cross(first, second, point) ==
  (second.x - first.x) * (point.y - first.y)
    - (second.y - first.y) * (point.x - first.x)

Between(a, v, b) == (a <= v /\ v <= b) \/ (b <= v /\ v <= a)

\* point_on_segment
OnSegment(point, first, second) ==
  /\ Cross(first, second, point) = 0
  /\ Between(first.x, point.x, second.x)
  /\ Between(first.y, point.y, second.y)

\* The edges of a polygon, each from the previous vertex to the current one.
Edges(region) ==
  {[first |-> region[IF i = 1 THEN Len(region) ELSE i - 1],
    second |-> region[i]] : i \in 1 .. Len(region)}

\* Mutated: both ends of an edge belong to it.
PassesRightOf_ClosedEdge(edge, point) ==
  /\ Between(edge.first.y, point.y, edge.second.y)
  /\ edge.first.y # edge.second.y
  /\ LET dy == edge.second.y - edge.first.y
         lead == (edge.second.x - edge.first.x) * (point.y - edge.first.y)
                   - (point.x - edge.first.x) * dy
     IN  IF dy > 0 THEN lead > 0 ELSE lead < 0

\* The edge crosses the height of the point to the right of it.
PassesRightOf(edge, point) ==
  /\ (edge.first.y > point.y) # (edge.second.y > point.y)
  /\ LET dy == edge.second.y - edge.first.y
         lead == (edge.second.x - edge.first.x) * (point.y - edge.first.y)
                   - (point.x - edge.first.x) * dy
     IN  IF dy > 0 THEN lead > 0 ELSE lead < 0

\* point_in_polygon: on an edge, or with an odd number of edges to the right.
\* The edges are a set here, so a polygon repeats none.
InPolygon(point, region) ==
  \/ \E e \in Edges(region) : OnSegment(point, e.first, e.second)
  \/ Cardinality({e \in Edges(region) : PassesRightOf(e, point)}) % 2 = 1

\* 0 <= numerator / denominator <= 1
Fraction(numerator, denominator) ==
  IF denominator > 0 THEN 0 <= numerator /\ numerator <= denominator
  ELSE denominator <= numerator /\ numerator <= 0

\* Mutated: the second segment stands for its whole line.
SegmentsIntersect_WholeLine(p, q, a, b) ==
  LET rx == q.x - p.x    ry == q.y - p.y
      sx == b.x - a.x    sy == b.y - a.y
      denominator == rx * sy - ry * sx
  IN  /\ denominator # 0
      /\ Fraction((a.x - p.x) * sy - (a.y - p.y) * sx, denominator)

\* segments_intersect: of p-q and a-b; parallel ones do not.
SegmentsIntersect(p, q, a, b) ==
  LET rx == q.x - p.x    ry == q.y - p.y
      sx == b.x - a.x    sy == b.y - a.y
      denominator == rx * sy - ry * sx
  IN  /\ denominator # 0
      /\ Fraction((a.x - p.x) * sy - (a.y - p.y) * sx, denominator)
      /\ Fraction((a.x - p.x) * ry - (a.y - p.y) * rx, denominator)
=============================================================================
