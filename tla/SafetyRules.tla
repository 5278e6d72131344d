----------------------------- MODULE SafetyRules ----------------------------
(***************************************************************************)
(* A SafetyEventEngine with one rule, of any of its three kinds            *)
(* (src/event_analytics.cpp).  The rules of an engine share the timeline   *)
(* and nothing else, so an engine with several of them behaves like        *)
(* several engines with one rule each.  The geometry a rule is computed     *)
(* with is swept on its own: any region and line, against any anchor.      *)
(*                                                                         *)
(* What the engine is configured with is constant, and a choice among       *)
(* several settings is made when it starts.                                *)
(***************************************************************************)
EXTENDS Geometry

CONSTANTS
  Tracks,               \* the tracks whose class the rule accepts
  ConfirmationFrames,   \* confirmation_frames of every rule
  ExitMargins, ExitConfirmations, EntryConfirmations, RoiStaleAfter,  \* ROI rules
  DwellTime, MaxGap, Rearms, DwellStaleAfter,                         \* dwell rules
  LinePlaces, LineStart, LineEnd, SideEpsilon, LineRules, LineStaleAfter,
  RoiBounds, DwellBounds, LineBounds,    \* bounds: how far a kind's media goes
  GridSize              \* bound: the last coordinate of the geometry's points

VARIABLES
  kind,      \* roi_intrusion, dwell, line_crossing, or the geometry alone
  rule,      \* the rule's settings, of a geometry its region; neither changes
  frame, active, states, events,    \* see EventTimeline; of a geometry its anchor
  history,   \* history: what the kind's module remembers of each track
  barred     \* history: the tracks whose last event no departure has followed

vars == <<kind, rule, frame, active, states, events, history, barred>>

Point(a, b) == [x |-> a, y |-> b]

Roi == INSTANCE RoiIntrusion WITH
  Places <- {"in", "near", "out"}, StaleAfter <- RoiStaleAfter,
  MaxSeq <- RoiBounds.seq, MaxJump <- RoiBounds.jump,
  MaxPtsStep <- RoiBounds.pts, MaxGeneration <- RoiBounds.gen, run <- history

Dwell == INSTANCE Dwell WITH
  Places <- {"in", "out"}, StaleAfter <- DwellStaleAfter,
  MaxSeq <- DwellBounds.seq, MaxJump <- DwellBounds.jump,
  MaxPtsStep <- DwellBounds.pts, MaxGeneration <- DwellBounds.gen,
  rearm <- rule, watch <- history

Line == INSTANCE LineCrossing WITH
  Places <- LinePlaces, StaleAfter <- LineStaleAfter, Rules <- LineRules,
  MaxSeq <- LineBounds.seq, MaxJump <- LineBounds.jump,
  MaxPtsStep <- LineBounds.pts, MaxGeneration <- LineBounds.gen,
  trail <- history

ASSUME RulesAssumption ==
  /\ Roi!RoiAssumption /\ Dwell!DwellAssumption /\ Line!LineAssumption
  /\ GridSize \in Nat

Grid == 0 .. GridSize
Vertices == {p \in [x : Grid, y : Grid] : p.x % 2 = 0 /\ p.y % 2 = 0}

\* Four vertices of a region; its first one and the anchor are the way of a
\* track, its second and third a line.
GeometryInit ==
  /\ rule \in {r \in [1 .. 4 -> Vertices] : \A i, j \in 1 .. 4 : i # j => r[i] # r[j]}
  /\ frame = Point(0, 0)
  /\ active = {} /\ states = <<>> /\ events = {} /\ history = <<>> /\ barred = {}

Sweep ==
  /\ frame' = IF frame.x < GridSize THEN [frame EXCEPT !.x = @ + 1]
              ELSE Point(0, IF frame.y < GridSize THEN frame.y + 1 ELSE 0)
  /\ UNCHANGED <<rule, active, states, events, history, barred>>

Init ==
  \/ kind = "roi_intrusion" /\ Roi!Init
  \/ kind = "dwell" /\ Dwell!Init
  \/ kind = "line_crossing" /\ Line!Init /\ barred = {}
  \/ kind = "geometry" /\ GeometryInit

Next ==
  /\ UNCHANGED kind
  /\ \/ kind = "roi_intrusion" /\ Roi!Next
     \/ kind = "dwell" /\ Dwell!Next
     \/ kind = "line_crossing" /\ Line!Next /\ UNCHANGED barred
     \/ kind = "geometry" /\ Sweep

Spec == Init /\ [][Next]_vars

-----------------------------------------------------------------------------
\* Every state of a rule has its type, and the engine remembers a track for
\* stale_after_frames at most: its maps do not grow with the track numbers the
\* tracker keeps inventing (prune_stale).
TypeOK ==
  /\ kind = "roi_intrusion" => Roi!TypeOK /\ Roi!MemoryBounded
  /\ kind = "dwell" => Dwell!TypeOK /\ Dwell!MemoryBounded
  /\ kind = "line_crossing" => Line!TypeOK /\ Line!MemoryBounded

\* An intrusion is raised only for a track that has been observed inside often
\* and long enough, without a hole in the observations of a guarded rule and
\* within the present timeline: neither a dropped frame nor a stream change nor
\* a repeated time stamp can stand in for an observation (update_roi).
IntrusionIsObserved == kind = "roi_intrusion" => Roi!EventsAreObserved

\* Two intrusions of one track are separated by a departure, observed beyond
\* the exit margin without a hole for the exit duration, or by an absence
\* beyond the stale limit; trembling at the boundary raises no second event.
NoReentryWithoutDeparture ==
  [][kind = "roi_intrusion" => Roi!ReentersAfterDeparture]_vars

\* With rearming, a dwell is raised only for a track that has been visiting the
\* region for the dwell time, without an absence of more than max_gap_frames:
\* time in which nobody saw the track is not time it stayed (update_dwell).
RearmedDwellIsWatched == kind = "dwell" /\ rule => Dwell!DwellIsWatched

\* A track that stays raises one event: a second one needs a confirmed departure
\* (with rearming, one whose observations have no hole), an expired state, or,
\* without rearming, an absence that ends the visit.
OneDwellPerVisit == [][kind = "dwell" => Dwell!DwellsOnce]_vars

\* A crossing is raised exactly when the observations say so: the track stayed on
\* one side, then on the other, both confirmed, and its way led through the
\* finite segment in a direction that is watched for.  Passing the segment's end,
\* a hole in a timed trail or an excursion too short to be confirmed raises
\* nothing, and no crossing is missed or raised twice (update_lines).
CrossingIsObserved == kind = "line_crossing" => Line!EventsAreCrossings

InTriangle(p, a, b, c) ==
  LET sides == {Cross(a, b, p), Cross(b, c, p), Cross(c, a, p)}
  IN  (\A s \in sides : s >= 0) \/ (\A s \in sides : s <= 0)

\* The diagonal from the first vertex has the others on different sides of it:
\* it cuts the region, convex or not, into two triangles.
Cut == Cross(rule[1], rule[3], rule[2]) * Cross(rule[1], rule[3], rule[4]) < 0

\* A point counts as inside exactly in the closed region: neither a vertex at the
\* point's height, nor a horizontal edge, nor a dent makes point_in_polygon err.
InsideIsInATriangle ==
  kind = "geometry" /\ Cut =>
    (InPolygon(frame, rule) <=> \/ InTriangle(frame, rule[1], rule[2], rule[3])
                                \/ InTriangle(frame, rule[1], rule[3], rule[4]))

\* Two segments that are not parallel intersect exactly if neither lies on one
\* side of the other: a way past the end of the line is not across it.
IntersectionSeparates ==
  kind = "geometry" =>
    LET p == rule[1]    a == rule[2]    b == rule[3]
        parallel == Cross(p, frame, Point(p.x + b.x - a.x, p.y + b.y - a.y)) = 0
    IN  SegmentsIntersect(p, frame, a, b)
          <=> /\ ~ parallel
              /\ Cross(p, frame, a) * Cross(p, frame, b) <= 0
              /\ Cross(a, b, p) * Cross(a, b, frame) <= 0
=============================================================================
