----------------------------- MODULE LineCrossing ---------------------------
(***************************************************************************)
(* An event engine with one line crossing rule: update() and reset() of    *)
(* SafetyEventEngine, update_lines and update_confirmed_line of            *)
(* src/event_analytics.cpp.  A place is a point of the plane.              *)
(***************************************************************************)
EXTENDS EventTimeline, Geometry

CONSTANTS
  LineStart, LineEnd,    \* line_start and line_end
  SideEpsilon,           \* side_epsilon, times the length of the line
  ConfirmationFrames,    \* confirmation_frames
  Rules    \* the settings tried: confirmation_ns, and direction as the side that
           \* must be reached, or 0

LineAssumption ==
  /\ TimelineAssumption
  /\ ConfirmationFrames \in Nat \ {0}
  /\ SideEpsilon \in Nat
  /\ Rules \subseteq [confirmation : Nat, direction : {-1, 0, 1}]
  /\ Places \subseteq [x : Int, y : Int]
  /\ LineStart \in [x : Int, y : Int] /\ LineEnd \in [x : Int, y : Int]
  /\ LineStart # LineEnd

VARIABLE rule     \* the rule's settings, never changed

VARIABLE trail    \* history: the observations of each track that count

vars == <<rule, frame, active, states, events, trail>>

Init == rule \in Rules /\ TimelineInit /\ trail = << >>

-----------------------------------------------------------------------------
\* Side 0 is none: a neutral anchor, no stable side, no candidate.
Sides == {-1, 0, 1}

SideOf(point) ==
  LET cross == Cross(LineStart, LineEnd, point)
  IN  IF cross > SideEpsilon THEN 1 ELSE IF cross < - SideEpsilon THEN -1 ELSE 0

\* The count stops at the confirmation count.  point is stable_point, and means
\* nothing until there is a stable side.
LineStates ==
  [stable : Sides, candidate : Sides, count : 0 .. ConfirmationFrames,
   since : Nat, crosses : BOOLEAN, point : Places \cup {LineStart},
   seq : Nat, pts : Nat]

NoLine ==
  [stable |-> 0, candidate |-> 0, count |-> 0, since |-> 0, crosses |-> FALSE,
   point |-> LineStart, seq |-> 0, pts |-> 0]

Timed == rule.confirmation > 0

Continued(l) == IF l.count < ConfirmationFrames THEN l.count + 1 ELSE l.count

-----------------------------------------------------------------------------
(* The timed rule, update_confirmed_line.                                  *)

\* A path nobody observed establishes nothing.
Kept(l, f) ==
  IF (l.stable # 0 \/ l.candidate # 0) /\ (f.seq # l.seq + 1 \/ f.pts <= l.pts)
  THEN NoLine
  ELSE l

\* On the stable side, or neutral: the candidate is given up.
Withdrawn(l, point) ==
  [l EXCEPT !.candidate = 0, !.count = 0,
            !.point = IF SideOf(point) = 0 THEN @ ELSE point]

\* Mutated: the geometry is taken anew at every observation.
Advanced_LatePoint(l, f, point) ==
  LET side == SideOf(point)
      begins == l.candidate # side
  IN  [l EXCEPT !.candidate = side,
                !.count = IF begins THEN 1 ELSE Continued(l),
                !.since = IF begins THEN f.pts ELSE @,
                !.crosses = l.stable # 0
                              /\ SegmentsIntersect(l.point, point, LineStart, LineEnd)]

\* On the other side: a candidate begins, with the geometry of the crossing, or
\* goes on.
Advanced(l, f, point) ==
  LET side == SideOf(point)
  IN  IF l.candidate # side
      THEN [l EXCEPT !.candidate = side, !.count = 1, !.since = f.pts,
                     !.crosses = l.stable # 0
                       /\ SegmentsIntersect(l.point, point, LineStart, LineEnd)]
      ELSE [l EXCEPT !.count = Continued(l)]

Settles(l, f) == l.count >= ConfirmationFrames /\ f.pts - l.since >= rule.confirmation

TimedRule(l, f, point) ==
  LET side == SideOf(point)
      kept == Kept(l, f)
      seen == Advanced(kept, f, point)
  IN  IF side = 0 \/ kept.stable = side
      THEN [state |-> Withdrawn(kept, point), crossed |-> FALSE]
      ELSE IF ~ Settles(seen, f)
      THEN [state |-> seen, crossed |-> FALSE]
      ELSE [state |-> [seen EXCEPT !.stable = side, !.point = point,
                                   !.candidate = 0, !.count = 0],
            crossed |-> seen.stable # 0 /\ seen.crosses]

-----------------------------------------------------------------------------
(* The untimed rule, update_lines: neutral anchors are passed over, and    *)
(* observations are joined across gaps.                                    *)

Counted(l, side) ==
  [l EXCEPT !.candidate = side,
            !.count = IF l.candidate # side THEN 1 ELSE Continued(l)]

UntimedRule(l, point) ==
  LET side == SideOf(point)
      seen == Counted(l, side)
  IN  IF side = 0
      THEN [state |-> l, crossed |-> FALSE]
      ELSE IF seen.count < ConfirmationFrames
      THEN [state |-> seen, crossed |-> FALSE]
      ELSE [state |-> [seen EXCEPT !.stable = side, !.point = point],
            crossed |-> /\ seen.stable = - side
                        /\ SegmentsIntersect(seen.point, point, LineStart, LineEnd)]

-----------------------------------------------------------------------------
Applied(l, f, point) ==
  IF Timed
  THEN LET result == TimedRule(l, f, point)
       IN  [result EXCEPT !.state.seq = f.seq, !.state.pts = f.pts]
  ELSE LET result == UntimedRule(l, point)
       IN  [result EXCEPT !.state.seq = f.seq]

\* direction_allowed: the side now reached is the one that is watched for.
Allowed(side) == rule.direction = 0 \/ rule.direction = side

-----------------------------------------------------------------------------
(* History.  The trail of a track is its last observation, and the path    *)
(* of those the rule may use: of a timed rule, the last stretch of         *)
(* consecutive frames with advancing times; of an untimed one, all but the *)
(* neutral observations.                                                   *)

\* Time stamps do not matter to an untimed rule.
Observation(f, place) ==
  [seq |-> f.seq, pts |-> IF Timed THEN f.pts ELSE 0, place |-> place]

Remembered(f) ==
  IF active /\ f.gen = frame.gen /\ f.pts >= frame.pts
  THEN DOMAIN trail
  ELSE {}

Joins(f, t) ==
  /\ t \in Remembered(f)
  /\ Timed => f.seq = trail[t].last.seq + 1 /\ f.pts > trail[t].last.pts

TrailOf(f, t, place) ==
  LET path == IF Joins(f, t) THEN trail[t].path ELSE << >>
  IN  [last |-> Observation(f, place),
       path |-> IF ~ Timed /\ SideOf(place) = 0 THEN path
                ELSE Append(path, Observation(f, place))]

-----------------------------------------------------------------------------
(* update() and reset()                                                    *)

Update ==
  \E f \in NextFrames, sightings \in Sightings :
    LET seen == DOMAIN sightings
        result(t) == Applied(StateOf(Known(f), t, NoLine), f, sightings[t])
        fresh(t) == t \in seen \/ f.seq - trail[t].last.seq <= StaleAfter
    IN  /\ Apply(f, Known(f), [t \in seen |-> result(t).state])
        /\ events' = {t \in seen : result(t).crossed /\ Allowed(result(t).state.stable)}
        /\ trail' = [t \in {u \in Remembered(f) \cup seen : fresh(u)} |->
                       IF t \in seen THEN TrailOf(f, t, sightings[t]) ELSE trail[t]]
        /\ UNCHANGED rule

Reset == Forget /\ trail' = << >> /\ UNCHANGED rule

Over == Exhausted /\ UNCHANGED vars

Next == Update \/ Reset \/ Over

Spec == Init /\ [][Next]_vars

-----------------------------------------------------------------------------
(* Properties.  What a crossing is, said of the trail alone.               *)

Stay(s, i, j, side) == \A k \in i .. j : SideOf(s[k].place) = side

\* At j the track has been on the side often and long enough.
StayedAt(s, j, side) ==
  \E i \in 1 .. j :
    /\ Stay(s, i, j, side)
    /\ j - i + 1 >= ConfirmationFrames /\ s[j].pts - s[i].pts >= rule.confirmation

\* Before n the side was the last one the track stayed on.
CameFrom(s, n, side) ==
  \E j \in 1 .. n - 1 :
    /\ StayedAt(s, j, side)
    /\ \A k \in j + 1 .. n - 1 : ~ StayedAt(s, k, - side)

\* The last of a set of indexes, the first of another.
LastIn(I) == CHOOSE i \in I : \A j \in I : j <= i
FirstIn(I) == CHOOSE i \in I : \A j \in I : i <= j

\* The way across: a timed rule takes the step that left the old side, an untimed
\* one the way between two confirmed points.
Departure(s, n, side) ==
  LastIn({k \in 1 .. n - 1 : IF Timed THEN SideOf(s[k].place) = side
                             ELSE StayedAt(s, k, side)})
Arrival(s, n, side) ==
  IF Timed THEN FirstIn({i \in 1 .. n : Stay(s, i, n, side)}) ELSE n

\* The ends of the line are on different sides of the way from p to q, or on it.
MeetsLine(p, q) == Cross(p, q, LineStart) * Cross(p, q, LineEnd) <= 0

Crossed(trace) ==
  LET s == trace.path
      n == Len(s)
      side == SideOf(trace.last.place)
  IN  /\ side # 0
      /\ StayedAt(s, n, side) /\ CameFrom(s, n, - side)
      /\ MeetsLine(s[Departure(s, n, - side)].place, s[Arrival(s, n, side)].place)
      /\ Allowed(side)

TypeOK ==
  /\ rule \in Rules
  /\ frame.seq \in -1 .. MaxSeq /\ frame.pts \in Nat
  /\ frame.gen \in 0 .. MaxGeneration
  /\ active \in BOOLEAN
  /\ DOMAIN states \subseteq Tracks
  /\ \A t \in DOMAIN states : states[t] \in LineStates
  /\ events \subseteq Tracks
  /\ DOMAIN trail \subseteq Tracks
  /\ \A t \in DOMAIN trail :
       \A i \in DOMAIN trail[t].path : trail[t].path[i].place \in Places

\* A crossing is raised exactly when the observations say so: the track stayed on
\* one side, then on the other, both confirmed, and its way led through the
\* finite segment in a direction that is watched for.  Passing the segment's end,
\* a hole in a timed trail or an excursion too short to be confirmed raises
\* nothing, and no crossing is missed or raised twice.
EventsAreCrossings ==
  events = {t \in DOMAIN trail :
              trail[t].last.seq = frame.seq /\ Crossed(trail[t])}
=============================================================================
