-------------------------- MODULE SafetyRulesProofs -------------------------
(***************************************************************************)
(* Proofs about the safety event rules (SafetyRules), for every setting of *)
(* a rule, any number of tracks and any media.                             *)
(*                                                                         *)
(* The argument: what a rule remembers of a track never says more than     *)
(* the observations do.  The invariant relates the remembered state to the *)
(* history the modules keep beside it, once per kind; one step is one      *)
(* observation of each track that is seen (ROI rules and dwell rules share *)
(* theirs, the occupancy), the tracks that are forgotten, and nothing for  *)
(* the others.  The geometry is decided for every four points of the plane.*)
(***************************************************************************)
EXTENDS SafetyRules, FiniteSetTheorems, SequenceTheorems, TLAPS

Occ == INSTANCE Occupancy

-----------------------------------------------------------------------------
(* The inductive invariant.                                                *)

\* A track's stable side is inside.
Within(o) == o.initialized /\ o.stableInside

\* What an ROI rule remembers of a track, against the run of observations the
\* track is in: a candidate is backed by a run as long and as old, and a track
\* that raised an event is inside until it departs.
RoiCandidate(o, r) ==
  /\ o.candidate = "inside" /\ ~ Within(o) =>
       r.side = "in" /\ r.count >= o.count /\ r.since <= o.since
  /\ o.candidate = "outside" /\ Within(o) =>
       r.side = "out" /\ r.count >= o.count /\ r.since <= o.since

RoiTrack(o, r) ==
  /\ o.seq = r.seq /\ o.pts = r.pts /\ r.since <= r.pts
  /\ RoiCandidate(o, r)

RoiInv ==
  /\ Roi!TypeOK /\ Roi!MemoryBounded
  /\ ~ active => states = << >>
  /\ DOMAIN states = DOMAIN history
  /\ \A t \in DOMAIN states :
       RoiTrack(states[t], history[t]) /\ history[t].pts <= frame.pts
  /\ \A t \in barred : Within(states[t])
  /\ Roi!EventsAreObserved

\* What a dwell rule remembers of a track, against the visit that was watched:
\* an entry lies within the visit, and the observations outside that the rule has
\* joined are among those that end the visit.
DwellCandidate(o, w, rearm) ==
  /\ rearm /\ o.candidate = "inside" /\ ~ Within(o) => w.visiting /\ w.since <= o.since
  /\ Within(o) => w.outs = IF o.candidate = "outside" THEN o.count ELSE 0

DwellStay(d, w, rearm) ==
  rearm /\ Within(d.occupancy) /\ ~ d.emitted => w.visiting /\ w.since <= d.enteredAt

DwellTrack(d, w, rearm) ==
  /\ d.seq = w.seq /\ d.occupancy.seq = w.seq /\ d.occupancy.pts = w.pts
  /\ w.since <= w.pts /\ d.occupancy.since <= w.pts
  /\ d.occupancy.candidate # "none"
  /\ DwellCandidate(d.occupancy, w, rearm)
  /\ DwellStay(d, w, rearm)

DwellInv ==
  /\ Dwell!TypeOK /\ Dwell!MemoryBounded
  /\ ~ active => states = << >>
  /\ DOMAIN states = DOMAIN history
  /\ \A t \in DOMAIN states :
       DwellTrack(states[t], history[t], rule) /\ history[t].pts <= frame.pts
  /\ \A t \in barred : Within(states[t].occupancy) /\ states[t].emitted
  /\ rule => Dwell!DwellIsWatched

\* The observations of a side that lead up to the n-th begin with the b-th.
RunBegins(s, b, n, side) ==
  /\ b \in 1 .. n
  /\ Line!Stay(s, b, n, side)
  /\ b > 1 => Line!SideOf(s[b - 1].place) # side

\* The k-th observation is one the way across may depart from.
Departs(s, k, side) ==
  IF Line!Timed THEN Line!SideOf(s[k].place) = side ELSE Line!StayedAt(s, k, side)

\* What a line rule remembers of a track, against the path it may use.  The stable
\* side is the one the path came from.
LineStable(l, s) ==
  \A side \in {-1, 1} : Line!CameFrom(s, Len(s) + 1, side) <=> l.stable = side

\* A candidate stands for the observations of its side that lead up to the last one.
LineCandidate(l, s) ==
  /\ l.candidate # 0 =>
       \E b \in 1 .. Len(s) :
         /\ RunBegins(s, b, Len(s), l.candidate)
         /\ l.count = IF Len(s) - b + 1 < ConfirmationFrames THEN Len(s) - b + 1
                      ELSE ConfirmationFrames
         /\ Line!Timed =>
              /\ l.candidate # l.stable /\ l.since = s[b].pts
              /\ l.stable # 0 =>
                   (l.crosses
                     <=> Line!SegmentsIntersect(l.point, s[b].place, LineStart, LineEnd))
  /\ l.candidate = 0 /\ Len(s) > 0 =>
       Line!Timed /\ Line!SideOf(s[Len(s)].place) \in {0, l.stable}

\* The stable point is the last one to depart from.
LinePoint(l, s) ==
  l.stable # 0 =>
    \E d \in 1 .. Len(s) :
      /\ l.point = s[d].place /\ Departs(s, d, l.stable)
      /\ \A k \in d + 1 .. Len(s) : ~ Departs(s, k, l.stable)

\* Time does not go back on a path, and does not matter to an untimed rule.
PathTimes(s) ==
  /\ \A i, j \in 1 .. Len(s) : i <= j => s[i].pts <= s[j].pts
  /\ ~ Line!Timed => \A i \in 1 .. Len(s) : s[i].pts = 0

LineMemory(l, s) ==
  LineStable(l, s) /\ LineCandidate(l, s) /\ LinePoint(l, s) /\ PathTimes(s)

LineTrack(l, h) ==
  /\ l.seq = h.last.seq
  /\ Line!Timed => l.pts = h.last.pts /\ Len(h.path) > 0 /\ h.last = h.path[Len(h.path)]
  /\ LineMemory(l, h.path)

Observations == [seq : Nat, pts : Nat, place : LinePlaces]

LineInv ==
  /\ Line!TypeOK /\ Line!MemoryBounded
  /\ ~ active => states = << >>
  /\ DOMAIN states = DOMAIN history
  /\ \A t \in DOMAIN states :
       /\ history[t].path \in Seq(Observations) /\ history[t].last \in Observations
       /\ LineTrack(states[t], history[t])
  /\ Line!EventsAreCrossings

Plane == [x : Int, y : Int]

\* The region and the anchor are points of the plane, the region's all different.
GeometryInv ==
  /\ rule \in [1 .. 4 -> Plane] /\ frame \in Plane
  /\ \A i, j \in 1 .. 4 : i # j => rule[i] # rule[j]

RulesInv ==
  /\ kind \in {"roi_intrusion", "dwell", "line_crossing", "geometry"}
  /\ kind = "roi_intrusion" => RoiInv
  /\ kind = "dwell" => DwellInv
  /\ kind = "line_crossing" => LineInv
  /\ kind = "geometry" => GeometryInv
-----------------------------------------------------------------------------
(* ROI rules.                                                              *)

Frames == [seq : Nat, pts : Nat, gen : Nat]

\* What update_occupancy makes of a state, field by field.
Succeeds(a, o, inside, f, exit, entry) ==
  LET side == IF inside THEN "inside" ELSE "outside"
  IN  /\ a \in Occ!Occupancies
      /\ a.seq = f.seq /\ a.pts = f.pts /\ a.candidate = side
      /\ o.candidate # side => a.count = 1 /\ a.since = f.pts
      /\ o.candidate = side =>
           /\ a.since = o.since
           /\ a.count = IF o.count < ConfirmationFrames THEN o.count + 1 ELSE o.count
      /\ ~ Within(o) /\ Within(a) =>
           inside /\ a.count >= ConfirmationFrames /\ f.pts - a.since >= entry
      /\ Within(o) /\ ~ Within(a) =>
           ~ inside /\ a.count >= ConfirmationFrames /\ f.pts - a.since >= exit
      /\ Within(a) /\ ~ inside =>
           a.count < ConfirmationFrames \/ f.pts - a.since < exit
      /\ o.initialized => a.initialized

LEMMA OccupiedSucceeds ==
  ASSUME NEW o \in Occ!Occupancies, NEW inside \in BOOLEAN, NEW f \in Frames,
         NEW exit \in Nat, NEW entry \in Nat, ConfirmationFrames \in Nat \ {0}
  PROVE  Succeeds(Occ!Occupied(o, inside, f, exit, entry), o, inside, f, exit, entry)
<1> DEFINE side == IF inside THEN "inside" ELSE "outside"
           s == Occ!Observe(o, inside, f.pts)
           c == IF Occ!Confirmed(s, inside, f.pts, exit, entry)
                THEN [s EXCEPT !.initialized = TRUE, !.stableInside = inside] ELSE s
           a == Occ!Occupied(o, inside, f, exit, entry)
<1>1. /\ s \in Occ!Occupancies
      /\ s.candidate = side /\ s.initialized = o.initialized
      /\ s.stableInside = o.stableInside
      /\ o.candidate # side => s.count = 1 /\ s.since = f.pts
      /\ o.candidate = side =>
           /\ s.since = o.since
           /\ s.count = IF o.count < ConfirmationFrames THEN o.count + 1 ELSE o.count
  <2>1. CASE o.candidate # side
    <3>1. s = [o EXCEPT !.candidate = side, !.count = 1, !.since = f.pts]
      BY <2>1 DEF Occ!Observe
    <3>2. side \in {"inside", "outside"}
      OBVIOUS
    <3>3. f.pts \in Nat
      BY DEF Frames
    <3> HIDE DEF s, side
    <3>4. s = [initialized |-> o.initialized, stableInside |-> o.stableInside,
               candidate |-> side, count |-> 1, since |-> f.pts,
               seq |-> o.seq, pts |-> o.pts]
      BY <3>1 DEF Occ!Occupancies
    <3> QED
      BY <2>1, <3>2, <3>3, <3>4 DEF Occ!Occupancies
  <2>2. CASE o.candidate = side
    <3>1. s = [o EXCEPT !.count = IF o.count < ConfirmationFrames THEN o.count + 1
                                  ELSE o.count]
      BY <2>2 DEF Occ!Observe
    <3> QED
      BY <2>2, <3>1 DEF Occ!Occupancies
  <2> QED
    BY <2>1, <2>2
<1>2. a = [c EXCEPT !.seq = f.seq, !.pts = f.pts]
  BY DEF Occ!Occupied
<1>3. /\ c \in Occ!Occupancies
      /\ c.candidate = s.candidate /\ c.count = s.count /\ c.since = s.since
      /\ c.initialized = (s.initialized \/ Occ!Confirmed(s, inside, f.pts, exit, entry))
      /\ c.stableInside = IF Occ!Confirmed(s, inside, f.pts, exit, entry) THEN inside
                          ELSE s.stableInside
  <2>1. CASE Occ!Confirmed(s, inside, f.pts, exit, entry)
    BY <1>1, <2>1 DEF Occ!Occupancies
  <2>2. CASE ~ Occ!Confirmed(s, inside, f.pts, exit, entry)
    BY <1>1, <2>2 DEF Occ!Occupancies
  <2> QED
    BY <2>1, <2>2
<1> HIDE DEF s, c, a
<1>4. /\ a \in Occ!Occupancies /\ a.seq = f.seq /\ a.pts = f.pts
      /\ a.candidate = c.candidate /\ a.count = c.count /\ a.since = c.since
      /\ a.initialized = c.initialized /\ a.stableInside = c.stableInside
  BY <1>2, <1>3 DEF Occ!Occupancies, Frames
<1>5. /\ a.candidate = side
      /\ o.candidate # side => a.count = 1 /\ a.since = f.pts
      /\ o.candidate = side =>
           /\ a.since = o.since
           /\ a.count = IF o.count < ConfirmationFrames THEN o.count + 1 ELSE o.count
  BY <1>1, <1>3, <1>4
<1>6. /\ ~ Within(o) /\ Within(a) =>
           inside /\ a.count >= ConfirmationFrames /\ f.pts - a.since >= entry
      /\ Within(o) /\ ~ Within(a) =>
           ~ inside /\ a.count >= ConfirmationFrames /\ f.pts - a.since >= exit
      /\ Within(a) /\ ~ inside =>
           a.count < ConfirmationFrames \/ f.pts - a.since < exit
      /\ o.initialized => a.initialized
  BY <1>1, <1>3, <1>4 DEF Within, Occ!Confirmed, Occ!Occupancies
<1> QED
  BY <1>4, <1>5, <1>6 DEF a, Succeeds

LEMMA RoiOccupancy ==
  /\ Roi!Occupancies = Occ!Occupancies /\ Roi!NoOccupancy = Occ!NoOccupancy
  /\ \A o, inside, f, exit, entry :
       Roi!Occupied(o, inside, f, exit, entry) = Occ!Occupied(o, inside, f, exit, entry)
BY DEF Roi!Occupancies, Occ!Occupancies, Roi!NoOccupancy, Occ!NoOccupancy, Roi!Occupied,
       Occ!Occupied, Roi!Observe, Occ!Observe, Roi!Confirmed, Occ!Confirmed

LEMMA RoiConstants ==
  /\ ConfirmationFrames \in Nat \ {0} /\ RoiStaleAfter \in Nat \ {0}
  /\ RoiBounds.seq \in Nat /\ RoiBounds.jump \in Nat
  /\ RoiBounds.pts \in Nat /\ RoiBounds.gen \in Nat
  /\ ExitMargins \subseteq BOOLEAN
  /\ ExitConfirmations \subseteq Nat /\ EntryConfirmations \subseteq Nat
BY RulesAssumption DEF Roi!RoiAssumption, Roi!TimelineAssumption,
   Roi!ConfirmationAssumption

LEMMA RoiNextFrame ==
  ASSUME Roi!TypeOK, NEW f \in Roi!NextFrames
  PROVE  /\ f \in Frames /\ f.seq > frame.seq
         /\ f.seq <= RoiBounds.seq /\ f.gen <= RoiBounds.gen
BY RoiConstants DEF Roi!TypeOK, Roi!NextFrames, Frames

\* One observation of one track, of an ROI rule: the candidate stays backed by the
\* run, an event has one that lasted, and leaving takes one that did.
LEMMA RoiObservation ==
  ASSUME RoiInv, NEW f \in Roi!NextFrames, NEW t \in Tracks,
         NEW place \in {"in", "near", "out"}
  PROVE  LET before == Roi!StateOf(Roi!Known(f), t, Roi!NoOccupancy)
             after == Roi!Observed(before, f, place)
             latest == Roi!RunOf(f, t, place)
         IN  /\ after \in Roi!Occupancies /\ after.seq = f.seq /\ after.pts = f.pts
             /\ latest \in Roi!Runs /\ latest.seq = f.seq /\ latest.pts = f.pts
             /\ latest.since <= f.pts
             /\ RoiCandidate(after, latest)
             /\ Roi!Intrudes(before, f, place) =>
                  /\ Within(after)
                  /\ Roi!Lasts(latest, "in", rule.entryConfirmation)
             /\ t \in barred /\ t \in Roi!Remembered(f) =>
                  Within(after) \/ Roi!Lasts(latest, "out", rule.exitConfirmation)
             /\ t \in barred /\ Roi!Intrudes(before, f, place) =>
                  \/ f.gen # frame.gen \/ f.pts < frame.pts
                  \/ Roi!Guarded /\ f.seq - history[t].seq > RoiStaleAfter
<1> DEFINE before == Roi!StateOf(Roi!Known(f), t, Roi!NoOccupancy)
           kept == Roi!Interrupted(before, f)
           inside == Roi!Inside(kept, place)
           after == Roi!Observed(before, f, place)
           latest == Roi!RunOf(f, t, place)
           joined == /\ t \in Roi!Remembered(f)
                     /\ Roi!Guarded => f.seq = history[t].seq + 1
                     /\ rule.entryConfirmation > 0 => f.pts > history[t].pts
<1>1. /\ f \in Frames /\ f.seq \in Nat /\ f.pts \in Nat /\ f.seq > frame.seq
      /\ frame.seq \in Int /\ frame.pts \in Nat /\ active \in BOOLEAN
  BY RoiNextFrame DEF RoiInv, Roi!TypeOK, Frames
<1>2. /\ rule.exitConfirmation \in Nat /\ rule.entryConfirmation \in Nat
      /\ rule.exitMargin \in BOOLEAN /\ Roi!Guarded \in BOOLEAN
  BY RoiConstants DEF RoiInv, Roi!TypeOK, Roi!Rules, Roi!Guarded
<1>3. \/ before = Roi!NoOccupancy
      \/ /\ t \in DOMAIN states /\ before = states[t] /\ active
         /\ f.gen = frame.gen /\ f.pts >= frame.pts
  BY <1>1 DEF Roi!StateOf, Roi!Known, Roi!Restarted, RoiInv
<1>4. /\ before \in Roi!Occupancies
      /\ before # Roi!NoOccupancy =>
           /\ RoiTrack(before, history[t]) /\ t \in DOMAIN history
           /\ history[t] \in Roi!Runs
  <2>1. Roi!NoOccupancy \in Roi!Occupancies
    BY RoiConstants DEF Roi!NoOccupancy, Roi!Occupancies
  <2>2. CASE t \in DOMAIN states /\ before = states[t]
    BY <2>2 DEF RoiInv, Roi!TypeOK
  <2> HIDE DEF before
  <2> QED
    BY <1>3, <2>1, <2>2
<1>5. /\ kept \in Roi!Occupancies
      /\ kept.candidate # "none" => kept = before /\ before # Roi!NoOccupancy /\ joined
      /\ Within(kept) => Within(before)
      /\ Within(before) /\ before # Roi!NoOccupancy =>
           \/ Within(kept)
           \/ Roi!Guarded /\ f.seq - history[t].seq > RoiStaleAfter
  <2>1. Roi!NoOccupancy \in Roi!Occupancies /\ Roi!NoOccupancy.candidate = "none"
        /\ ~ Within(Roi!NoOccupancy)
    BY RoiConstants DEF Roi!NoOccupancy, Roi!Occupancies, Within
  <2>2. CASE kept = Roi!NoOccupancy /\ Roi!Guarded /\ f.seq - before.seq > RoiStaleAfter
    BY <2>1, <2>2, <1>4 DEF RoiTrack
  <2>3. CASE kept = [before EXCEPT !.candidate = "none"]
    BY <2>1, <2>3, <1>4 DEF Roi!Occupancies, Within
  <2>4. CASE kept = before /\ ~ (Roi!Guarded /\ (Roi!ObservationGap(before, f)
                                              \/ Roi!RepeatedPts(before, f)))
    <3>1. CASE before = Roi!NoOccupancy
      BY <2>1, <2>4, <3>1
    <3>2. CASE before # Roi!NoOccupancy
      <4>1. before.seq = history[t].seq /\ before.pts = history[t].pts
            /\ history[t].seq \in Nat /\ history[t].pts \in Nat
            /\ before.seq <= frame.seq
        BY <1>3, <1>4, <3>2 DEF RoiTrack, Roi!Runs, RoiInv, Roi!MemoryBounded
      <4>2. Roi!Guarded => f.seq = history[t].seq + 1
        BY <4>1, <2>4, <1>1 DEF Roi!ObservationGap
      <4>3. rule.entryConfirmation > 0 /\ before.candidate # "none"
              => f.pts > history[t].pts
        BY <4>1, <2>4, <1>1 DEF Roi!RepeatedPts, Roi!Guarded
      <4>4. t \in Roi!Remembered(f)
        BY <1>1, <1>3, <1>4, <3>2, <4>1, <4>2, RoiConstants DEF Roi!Remembered
      <4> QED
        BY <1>4, <2>4, <3>2, <4>2, <4>3, <4>4
    <3> QED
      BY <3>1, <3>2
  <2> QED
    BY <2>2, <2>3, <2>4 DEF Roi!Interrupted
<1>6. /\ inside \in BOOLEAN
      /\ inside /\ ~ Within(kept) => Roi!Side(place) = "in"
      /\ ~ inside /\ Within(kept) => Roi!Side(place) = "out"
  BY <1>2 DEF Roi!Inside, Roi!Side, Within
<1>7. after = Occ!Occupied(kept, inside, f, rule.exitConfirmation,
                           rule.entryConfirmation)
  BY RoiOccupancy DEF Roi!Observed
<1> HIDE DEF before, kept, inside, after, latest
<1>8. Succeeds(after, kept, inside, f, rule.exitConfirmation, rule.entryConfirmation)
  <2>1. kept \in Occ!Occupancies /\ ConfirmationFrames \in Nat \ {0}
    BY <1>5, RoiOccupancy, RoiConstants
  <2> QED
    BY <1>1, <1>2, <1>6, <1>7, <2>1, OccupiedSucceeds
<1>9. /\ latest \in Roi!Runs /\ latest.seq = f.seq /\ latest.pts = f.pts
      /\ latest.since <= f.pts
      /\ latest.side = Roi!Side(place)
      /\ joined /\ history[t].side = latest.side =>
           /\ latest.since = history[t].since
           /\ latest.count = IF history[t].count = ConfirmationFrames
                             THEN ConfirmationFrames ELSE history[t].count + 1
      /\ ~ (joined /\ history[t].side = latest.side) =>
           latest.since = f.pts /\ latest.count = 1
  <2>1. Roi!Side(place) \in {"in", "near", "out"}
    BY DEF Roi!Side
  <2>2. Roi!Continues(f, t, place) <=> joined /\ history[t].side = Roi!Side(place)
    BY DEF Roi!Continues
  <2>3. joined => /\ history[t] \in Roi!Runs
                  /\ history[t].since <= history[t].pts
                  /\ history[t].pts <= f.pts
    BY <1>1 DEF Roi!Remembered, RoiInv, RoiTrack, Roi!TypeOK, Roi!Runs
  <2>4. latest = [side |-> Roi!Side(place),
                  count |-> IF ~ Roi!Continues(f, t, place) THEN 1
                            ELSE IF history[t].count = ConfirmationFrames
                            THEN ConfirmationFrames ELSE history[t].count + 1,
                  since |-> IF Roi!Continues(f, t, place) THEN history[t].since
                            ELSE f.pts,
                  seq |-> f.seq, pts |-> f.pts]
    BY DEF latest, Roi!RunOf
  <2> QED
    BY <1>1, <2>1, <2>2, <2>3, <2>4, RoiConstants DEF Roi!Runs
<1>10. RoiCandidate(after, latest)
       /\ (Within(kept) /\ ~ inside => latest.side = "out"
             /\ latest.count >= after.count /\ latest.since <= after.since)
       /\ (~ Within(kept) /\ inside => latest.side = "in"
             /\ latest.count >= after.count /\ latest.since <= after.since)
  <2>1. /\ (Within(kept) /\ ~ inside) \/ (~ Within(kept) /\ inside)
        /\ kept.candidate = after.candidate
        => /\ joined /\ history[t].side = latest.side
           /\ history[t].count >= kept.count /\ history[t].since <= kept.since
           /\ history[t] \in Roi!Runs
    BY <1>4, <1>5, <1>6, <1>8, <1>9 DEF Succeeds, RoiTrack, RoiCandidate
  <2>2. (Within(kept) /\ ~ inside) \/ (~ Within(kept) /\ inside)
        => latest.count >= after.count /\ latest.since <= after.since
    <3>1. CASE kept.candidate = after.candidate
      BY <1>1, <1>5, <1>8, <1>9, <2>1, <3>1, RoiConstants
      DEF Succeeds, Roi!Runs, Roi!Occupancies
    <3>2. CASE kept.candidate # after.candidate
      BY <1>1, <1>8, <1>9, <3>2 DEF Succeeds, Roi!Runs
    <3> QED
      BY <3>1, <3>2
  <2>3. /\ after.candidate = "inside" /\ ~ Within(after) => inside /\ ~ Within(kept)
        /\ after.candidate = "outside" /\ Within(after) => ~ inside /\ Within(kept)
    BY <1>6, <1>8 DEF Succeeds
  <2>4. latest.side = Roi!Side(place)
    BY <1>9
  <2> QED
    BY <1>6, <2>2, <2>3, <2>4 DEF RoiCandidate
<1>11. Roi!Intrudes(before, f, place) => ~ Within(kept) /\ Within(after)
  BY DEF Roi!Intrudes, Roi!Entered, Within, kept, after
<1>12. after.count \in Nat /\ after.since \in Nat
       /\ latest.count \in Nat /\ latest.since \in Nat
  BY <1>8, <1>9, RoiConstants DEF Succeeds, Occ!Occupancies, Roi!Runs
<1>13. ~ Within(kept) /\ Within(after)
       => Roi!Lasts(latest, "in", rule.entryConfirmation)
  BY <1>1, <1>2, <1>8, <1>9, <1>10, <1>12, RoiConstants DEF Succeeds, Roi!Lasts
<1>14. Within(kept) /\ ~ Within(after)
       => Roi!Lasts(latest, "out", rule.exitConfirmation)
  BY <1>1, <1>2, <1>8, <1>9, <1>10, <1>12, RoiConstants DEF Succeeds, Roi!Lasts
<1>15. t \in barred =>
         \/ f.gen # frame.gen \/ f.pts < frame.pts
         \/ Roi!Guarded /\ f.seq - history[t].seq > RoiStaleAfter
         \/ Within(kept)
  <2>1. t \in barred => t \in DOMAIN states /\ active /\ Within(states[t])
    BY <1>1 DEF RoiInv, Roi!TypeOK
  <2>2. t \in barred /\ f.gen = frame.gen /\ f.pts >= frame.pts
        => before = states[t] /\ before # Roi!NoOccupancy
    BY <1>1, <2>1 DEF before, Roi!StateOf, Roi!Known, Roi!Restarted, Within,
      Roi!NoOccupancy
  <2> QED
    BY <1>1, <1>5, <2>1, <2>2
<1>16. t \in barred /\ t \in Roi!Remembered(f) => Within(kept)
  <2>1. t \in Roi!Remembered(f) =>
          /\ f.gen = frame.gen /\ f.pts >= frame.pts
          /\ Roi!Guarded => f.seq - history[t].seq <= RoiStaleAfter
          /\ history[t].seq \in Nat
    BY DEF Roi!Remembered, RoiInv, Roi!TypeOK, Roi!Runs
  <2> QED
    BY <1>1, <1>15, <2>1, RoiConstants
<1> QED
  BY <1>8, <1>9, <1>10, <1>11, <1>12, <1>13, <1>14, <1>15, <1>16, RoiOccupancy
  DEF Succeeds, before, after, latest

\* What the maps keep: the results, and what was known of other tracks and is not
\* stale (prune_stale after the rule's loop).
LEMMA MergedAndPruned ==
  ASSUME NEW known, NEW results, NEW f \in Frames, NEW stale \in Nat, NEW kept,
         \A t \in DOMAIN results : results[t].seq = f.seq,
         LET whole == [t \in DOMAIN known \cup DOMAIN results |->
                         IF t \in DOMAIN results THEN results[t] ELSE known[t]]
         IN  kept = [t \in {u \in DOMAIN whole : f.seq - whole[u].seq <= stale} |->
                       whole[t]]
  PROVE  /\ DOMAIN results \subseteq DOMAIN kept
         /\ \A t \in DOMAIN results : kept[t] = results[t]
         /\ \A t \in DOMAIN kept \ DOMAIN results : kept[t] = known[t]
         /\ \A t : t \notin DOMAIN results =>
              (t \in DOMAIN kept <=> t \in DOMAIN known /\ f.seq - known[t].seq <= stale)
<1> DEFINE whole == [t \in DOMAIN known \cup DOMAIN results |->
                       IF t \in DOMAIN results THEN results[t] ELSE known[t]]
<1>1. /\ DOMAIN kept = {u \in DOMAIN whole : f.seq - whole[u].seq <= stale}
      /\ \A t \in DOMAIN kept : kept[t] = whole[t]
  OBVIOUS
<1>2. f.seq - f.seq <= stale
  BY DEF Frames
<1>3. /\ \A t \in DOMAIN results : t \in DOMAIN whole /\ whole[t] = results[t]
      /\ \A t : t \notin DOMAIN results =>
           /\ t \in DOMAIN whole <=> t \in DOMAIN known
           /\ t \in DOMAIN known => whole[t] = known[t]
  OBVIOUS
<1> HIDE DEF whole
<1> QED
  BY <1>1, <1>2, <1>3

LEMMA RoiUpdated ==
  ASSUME RoiInv, NEW f \in Roi!NextFrames, NEW results,
         \A t \in DOMAIN results : results[t].seq = f.seq,
         Roi!Apply(f, Roi!Known(f), results),
         DOMAIN history' =
           {u \in Roi!Remembered(f) \cup DOMAIN results :
              ~ (u \notin DOMAIN results /\ f.seq - history[u].seq > RoiStaleAfter)},
         \A t \in DOMAIN history' \ DOMAIN results : history'[t] = history[t]
  PROVE  /\ frame' = f /\ active' = TRUE
         /\ DOMAIN states' = DOMAIN history' /\ DOMAIN results \subseteq DOMAIN states'
         /\ \A t \in DOMAIN results : states'[t] = results[t]
         /\ \A t \in DOMAIN states' \ DOMAIN results :
              /\ t \in DOMAIN states /\ active
              /\ f.gen = frame.gen /\ f.pts >= frame.pts
              /\ states'[t] = states[t] /\ history'[t] = history[t]
              /\ f.seq - states[t].seq <= RoiStaleAfter
<1> DEFINE seen == DOMAIN results
           known == Roi!Known(f)
           follows == active /\ f.gen = frame.gen /\ f.pts >= frame.pts
<1>1. /\ f \in Frames /\ f.seq \in Nat /\ f.pts \in Nat /\ f.seq > frame.seq
      /\ frame.seq \in Int /\ frame.pts \in Nat /\ active \in BOOLEAN
  BY RoiNextFrame DEF RoiInv, Roi!TypeOK, Frames
<1>2. \A t \in DOMAIN history : states[t].seq = history[t].seq /\ history[t].seq \in Nat
  BY DEF RoiInv, RoiTrack, Roi!TypeOK, Roi!Runs
<1>3. /\ follows => known = states /\ DOMAIN known = DOMAIN history
      /\ ~ follows => DOMAIN known = {} /\ Roi!Remembered(f) = {}
      /\ \A t : t \in Roi!Remembered(f) => follows /\ t \in DOMAIN history
      /\ follows => \A t \in DOMAIN history :
           f.seq - history[t].seq <= RoiStaleAfter => t \in Roi!Remembered(f)
  BY <1>1 DEF RoiInv, Roi!Known, Roi!Restarted, Roi!Remembered
<1>4. /\ frame' = f /\ active' = TRUE
      /\ seen \subseteq DOMAIN states' /\ \A t \in seen : states'[t] = results[t]
      /\ \A t \in DOMAIN states' \ seen : states'[t] = known[t]
      /\ \A t : t \notin seen =>
           (t \in DOMAIN states' <=>
              t \in DOMAIN known /\ f.seq - known[t].seq <= RoiStaleAfter)
  <2>1. RoiStaleAfter \in Nat
    BY RoiConstants
  <2> QED
    BY <1>1, <2>1, MergedAndPruned DEF Roi!Apply, Roi!Pruned
<1> HIDE DEF known
<1>5. \A t : t \notin seen =>
        /\ t \in DOMAIN states' <=>
             follows /\ t \in DOMAIN history /\ f.seq - states[t].seq <= RoiStaleAfter
        /\ t \in DOMAIN history' <=>
             follows /\ t \in DOMAIN history /\ f.seq - states[t].seq <= RoiStaleAfter
  BY <1>1, <1>2, <1>3, <1>4, RoiConstants
<1>6. DOMAIN states' = DOMAIN history'
  <2> HIDE DEF follows
  <2>1. \A t : t \in DOMAIN states' <=> t \in DOMAIN history'
    BY <1>4, <1>5
  <2> QED
    BY <2>1
<1> QED
  BY <1>2, <1>3, <1>4, <1>5, <1>6 DEF RoiInv

LEMMA RoiUpdateStep ==
  ASSUME RoiInv, Roi!Update
  PROVE  RoiInv' /\ Roi!ReentersAfterDeparture
<1>0. PICK f \in Roi!NextFrames, sightings \in Roi!Sightings :
      LET seen == DOMAIN sightings
          before(t) == Roi!StateOf(Roi!Known(f), t, Roi!NoOccupancy)
          stale(t) == t \notin seen /\ f.seq - history[t].seq > RoiStaleAfter
          latest == [t \in {u \in Roi!Remembered(f) \cup seen : ~ stale(u)} |->
                       IF t \in seen THEN Roi!RunOf(f, t, sightings[t]) ELSE history[t]]
          departed == {t \in seen : Roi!Lasts(latest[t], "out", rule.exitConfirmation)}
      IN  /\ Roi!Apply(f, Roi!Known(f),
                       [t \in seen |-> Roi!Observed(before(t), f, sightings[t])])
          /\ events' = {t \in seen : Roi!Intrudes(before(t), f, sightings[t])}
          /\ history' = latest
          /\ barred' = ((barred \cap Roi!Remembered(f) \cap DOMAIN latest) \ departed)
                         \cup events'
          /\ UNCHANGED rule
  BY DEF Roi!Update
<1> DEFINE seen == DOMAIN sightings
           before(t) == Roi!StateOf(Roi!Known(f), t, Roi!NoOccupancy)
           after(t) == Roi!Observed(before(t), f, sightings[t])
           results == [t \in seen |-> after(t)]
           latest(t) == Roi!RunOf(f, t, sightings[t])
<1>1. /\ Roi!Apply(f, Roi!Known(f), results)
      /\ events' = {t \in seen : Roi!Intrudes(before(t), f, sightings[t])}
      /\ DOMAIN history' = {u \in Roi!Remembered(f) \cup seen :
                              ~ (u \notin seen /\ f.seq - history[u].seq > RoiStaleAfter)}
      /\ \A t \in DOMAIN history' \ seen : history'[t] = history[t]
      /\ \A t \in seen : history'[t] = latest(t)
      /\ \A t \in barred' :
           \/ t \in events'
           \/ /\ t \in barred /\ t \in Roi!Remembered(f) /\ t \in DOMAIN history'
              /\ ~ (t \in seen /\ Roi!Lasts(history'[t], "out", rule.exitConfirmation))
      /\ rule' = rule
  BY <1>0
<1>2. seen \subseteq Tracks /\ \A t \in seen : sightings[t] \in {"in", "near", "out"}
  BY DEF Roi!Sightings
<1>3. \A t \in seen :
        /\ after(t) \in Roi!Occupancies /\ after(t).seq = f.seq /\ after(t).pts = f.pts
        /\ latest(t) \in Roi!Runs /\ latest(t).seq = f.seq /\ latest(t).pts = f.pts
        /\ latest(t).since <= f.pts
        /\ RoiCandidate(after(t), latest(t))
        /\ t \in events' => /\ Within(after(t))
                            /\ Roi!Lasts(latest(t), "in", rule.entryConfirmation)
        /\ t \in barred /\ t \in Roi!Remembered(f) =>
             Within(after(t)) \/ Roi!Lasts(latest(t), "out", rule.exitConfirmation)
        /\ t \in barred /\ t \in events' =>
             \/ f.gen # frame.gen \/ f.pts < frame.pts
             \/ Roi!Guarded /\ f.seq - history[t].seq > RoiStaleAfter
  BY <1>1, <1>2, RoiObservation
<1> HIDE DEF before, after, latest
<1>4. /\ frame' = f /\ active' = TRUE
      /\ DOMAIN states' = DOMAIN history' /\ seen \subseteq DOMAIN states'
      /\ \A t \in seen : states'[t] = after(t)
      /\ \A t \in DOMAIN states' \ seen :
           /\ t \in DOMAIN states /\ active
           /\ f.gen = frame.gen /\ f.pts >= frame.pts
           /\ states'[t] = states[t] /\ history'[t] = history[t]
           /\ f.seq - states[t].seq <= RoiStaleAfter
  <2>1. PICK r : r = results
    OBVIOUS
  <2>2. DOMAIN r = seen /\ \A t \in seen : r[t] = after(t)
    BY <2>1
  <2> HIDE DEF results, seen
  <2>3. /\ Roi!Apply(f, Roi!Known(f), r)
        /\ DOMAIN history' = {u \in Roi!Remembered(f) \cup DOMAIN r :
                  ~ (u \notin DOMAIN r /\ f.seq - history[u].seq > RoiStaleAfter)}
        /\ \A t \in DOMAIN history' \ DOMAIN r : history'[t] = history[t]
        /\ \A t \in DOMAIN r : r[t].seq = f.seq
    BY <1>1, <1>3, <2>1, <2>2
  <2>4. /\ frame' = f /\ active' = TRUE
        /\ DOMAIN states' = DOMAIN history' /\ DOMAIN r \subseteq DOMAIN states'
        /\ \A t \in DOMAIN r : states'[t] = r[t]
        /\ \A t \in DOMAIN states' \ DOMAIN r :
             /\ t \in DOMAIN states /\ active
             /\ f.gen = frame.gen /\ f.pts >= frame.pts
             /\ states'[t] = states[t] /\ history'[t] = history[t]
             /\ f.seq - states[t].seq <= RoiStaleAfter
    BY <2>3, RoiUpdated DEF Roi!Apply
  <2> QED
    BY <2>2, <2>4
<1> HIDE DEF seen, results
<1>5. f \in Frames /\ f.seq \in Nat /\ f.pts \in Nat /\ f.gen \in Nat
      /\ f.seq > frame.seq /\ f.seq <= RoiBounds.seq /\ f.gen <= RoiBounds.gen
      /\ frame.seq \in Int /\ frame.pts \in Nat
  BY RoiNextFrame DEF RoiInv, Roi!TypeOK, Frames
<1>6. \A t \in DOMAIN states' :
        \/ /\ t \in seen /\ states'[t] = after(t) /\ history'[t] = latest(t)
        \/ /\ t \in DOMAIN states /\ t \notin seen
           /\ states'[t] = states[t] /\ history'[t] = history[t]
           /\ active /\ f.gen = frame.gen /\ f.pts >= frame.pts
           /\ f.seq - states[t].seq <= RoiStaleAfter
  BY <1>1, <1>4
<1>7. Roi!TypeOK'
  <2>1. barred' \subseteq DOMAIN history' /\ events' \subseteq Tracks
    BY <1>1, <1>2, <1>4
  <2>2. DOMAIN states' \subseteq Tracks
    BY <1>2, <1>6 DEF RoiInv, Roi!TypeOK
  <2>3. \A t \in DOMAIN states' : states'[t] \in Roi!Occupancies
    BY <1>3, <1>6 DEF RoiInv, Roi!TypeOK
  <2>4. \A t \in DOMAIN history' : history'[t] \in Roi!Runs
    BY <1>3, <1>4, <1>6 DEF RoiInv, Roi!TypeOK
  <2>5. frame'.seq \in -1 .. RoiBounds.seq /\ frame'.pts \in Nat
        /\ frame'.gen \in 0 .. RoiBounds.gen
    BY <1>4, <1>5, RoiConstants
  <2>6. rule' \in Roi!Rules
    BY <1>1 DEF RoiInv, Roi!TypeOK
  <2> QED
    BY <1>4, <2>1, <2>2, <2>3, <2>4, <2>5, <2>6 DEF Roi!TypeOK
<1>8. Roi!MemoryBounded'
  <2>1. \A t \in DOMAIN states' :
          states'[t].seq <= f.seq /\ f.seq - states'[t].seq <= RoiStaleAfter
    <3> SUFFICES ASSUME NEW t \in DOMAIN states'
                 PROVE  states'[t].seq <= f.seq /\ f.seq - states'[t].seq <= RoiStaleAfter
      OBVIOUS
    <3>1. CASE t \in seen
      BY <1>3, <1>4, <1>5, <3>1, RoiConstants
    <3>2. CASE t \notin seen
      <4>1. states[t].seq \in Nat /\ states[t].seq <= frame.seq
        BY <1>6, <3>2 DEF RoiInv, Roi!MemoryBounded, Roi!TypeOK, Roi!Occupancies
      <4> QED
        BY <1>5, <1>6, <3>2, <4>1
    <3> QED
      BY <3>1, <3>2
  <2> QED
    BY <1>4, <2>1 DEF Roi!MemoryBounded
<1>9. \A t \in DOMAIN states' :
        RoiTrack(states'[t], history'[t]) /\ history'[t].pts <= frame'.pts
  <2> SUFFICES ASSUME NEW t \in DOMAIN states'
               PROVE  RoiTrack(states'[t], history'[t]) /\ history'[t].pts <= frame'.pts
    OBVIOUS
  <2>1. CASE t \in seen
    BY <1>3, <1>4, <1>5, <1>6, <2>1 DEF RoiTrack, RoiCandidate
  <2>2. CASE t \notin seen
    BY <1>4, <1>5, <1>6, <2>2 DEF RoiInv, RoiTrack, RoiCandidate, Roi!TypeOK, Roi!Runs
  <2> QED
    BY <2>1, <2>2
<1>10. \A t \in barred' : Within(states'[t])
  <2> SUFFICES ASSUME NEW t \in barred'
               PROVE  Within(states'[t])
    OBVIOUS
  <2>1. CASE t \in events'
    BY <1>1, <1>3, <1>4, <2>1
  <2>2. CASE t \notin events' /\ t \in seen
    BY <1>1, <1>3, <1>4, <2>2
  <2>3. CASE t \notin events' /\ t \notin seen
    BY <1>1, <1>4, <1>6, <2>3 DEF RoiInv
  <2> QED
    BY <2>1, <2>2, <2>3
<1>11. Roi!EventsAreObserved'
  <2>1. \A t \in events' : Roi!Lasts(history'[t], "in", rule.entryConfirmation)
    BY <1>1, <1>3
  <2> QED
    BY <1>1, <2>1 DEF Roi!EventsAreObserved, Roi!Lasts
<1>12. Roi!ReentersAfterDeparture
  BY <1>1, <1>3, <1>4 DEF Roi!ReentersAfterDeparture
<1> QED
  BY <1>4, <1>7, <1>8, <1>9, <1>10, <1>11, <1>12 DEF RoiInv

LEMMA RoiInitial ==
  ASSUME Roi!Init
  PROVE  RoiInv
<1>1. /\ frame = [seq |-> -1, pts |-> 0, gen |-> 0] /\ active = FALSE
      /\ states = << >> /\ history = << >> /\ events = {} /\ barred = {}
      /\ rule \in Roi!Rules
  BY DEF Roi!Init, Roi!TimelineInit
<1>2. DOMAIN states = {} /\ DOMAIN history = {}
  BY <1>1
<1>3. Roi!TypeOK
  <2>1. frame.seq \in -1 .. RoiBounds.seq /\ frame.pts \in Nat
        /\ frame.gen \in 0 .. RoiBounds.gen
    BY <1>1, RoiConstants
  <2> QED
    BY <1>1, <1>2, <2>1 DEF Roi!TypeOK
<1> QED
  BY <1>1, <1>2, <1>3 DEF RoiInv, Roi!MemoryBounded, Roi!EventsAreObserved

LEMMA RoiResetStep ==
  ASSUME RoiInv, Roi!Reset
  PROVE  RoiInv' /\ Roi!ReentersAfterDeparture
<1>1. /\ frame' = frame /\ rule' = rule /\ active' = FALSE
      /\ states' = << >> /\ history' = << >> /\ events' = {} /\ barred' = {}
  BY DEF Roi!Reset, Roi!Forget
<1>2. DOMAIN states' = {} /\ DOMAIN history' = {}
  BY <1>1
<1> QED
  BY <1>1, <1>2 DEF RoiInv, Roi!TypeOK, Roi!MemoryBounded, Roi!EventsAreObserved,
    Roi!ReentersAfterDeparture

LEMMA RoiUnchanged ==
  ASSUME RoiInv, UNCHANGED <<rule, frame, active, states, events, history, barred>>
  PROVE  RoiInv'
BY DEF RoiInv, Roi!TypeOK, Roi!MemoryBounded, Roi!EventsAreObserved, Roi!Lasts,
  Roi!Rules

-----------------------------------------------------------------------------
(* Dwell rules.                                                            *)

LEMMA DwellOccupancy ==
  /\ Dwell!Occupancies = Occ!Occupancies
  /\ \A o, inside, f, exit, entry :
       Dwell!Occupied(o, inside, f, exit, entry) = Occ!Occupied(o, inside, f, exit, entry)
BY DEF Dwell!Occupancies, Occ!Occupancies, Dwell!Occupied, Occ!Occupied,
   Dwell!Observe, Occ!Observe, Dwell!Confirmed, Occ!Confirmed

LEMMA DwellConstants ==
  /\ ConfirmationFrames \in Nat \ {0} /\ DwellStaleAfter \in Nat \ {0}
  /\ DwellTime \in Nat \ {0} /\ MaxGap \in Nat /\ MaxGap < DwellStaleAfter
  /\ DwellBounds.seq \in Nat /\ DwellBounds.jump \in Nat
  /\ DwellBounds.pts \in Nat /\ DwellBounds.gen \in Nat
  /\ Rearms \subseteq BOOLEAN
BY RulesAssumption DEF Dwell!DwellAssumption, Dwell!TimelineAssumption,
   Dwell!ConfirmationAssumption

LEMMA DwellNextFrame ==
  ASSUME Dwell!TypeOK, NEW f \in Dwell!NextFrames
  PROVE  /\ f \in Frames /\ f.seq \in Nat /\ f.pts \in Nat /\ f.seq > frame.seq
         /\ f.seq <= DwellBounds.seq /\ f.gen <= DwellBounds.gen
BY DwellConstants DEF Dwell!TypeOK, Dwell!NextFrames, Frames

\* One observation of one track, of a dwell rule: entries and departures stay
\* backed by the visit, an event is raised in one, and a track that raised one
\* raises no other until it has departed.
LEMMA DwellObservation ==
  ASSUME DwellInv, NEW f \in Dwell!NextFrames, NEW t \in Tracks,
         NEW place \in {"in", "out"}
  PROVE  LET before == Dwell!StateOf(Dwell!Known(f), t, Dwell!NoDwell)
             after == Dwell!Settled(before, f, place)
             latest == Dwell!WatchOf(f, t, place)
         IN  /\ after \in Dwell!DwellStates /\ after.seq = f.seq
             /\ latest \in Dwell!Watches /\ latest.seq = f.seq /\ latest.pts = f.pts
             /\ DwellTrack(after, latest, rule)
             /\ Dwell!Dwells(before, f, place) =>
                  /\ Within(after.occupancy) /\ after.emitted /\ t \notin barred
                  /\ rule => latest.visiting /\ f.pts - latest.since >= DwellTime
             /\ t \in barred /\ t \in Dwell!Remembered(f) =>
                  \/ Within(after.occupancy) /\ after.emitted
                  \/ latest.outs = ConfirmationFrames
                  \/ ~ rule /\ Dwell!Absent(f, t)
<1> DEFINE before == Dwell!StateOf(Dwell!Known(f), t, Dwell!NoDwell)
           kept == Dwell!Kept(before, f)
           cut == Dwell!Interrupted(before, f)
           o == Occ!Occupied(cut.occupancy, place = "in", f, 0, 0)
           enters == Dwell!Entered(cut.occupancy, o)
           exits == Dwell!Exited(cut.occupancy, o)
           seen == Dwell!Observed(before, f, place)
           after == Dwell!Settled(before, f, place)
           latest == Dwell!WatchOf(f, t, place)
           w == history[t]
           \* The rule goes on from what was watched before.
           near == /\ t \in Dwell!Remembered(f) /\ ~ Dwell!Absent(f, t)
                   /\ w \in Dwell!Watches /\ w.pts <= f.pts
<1>1. /\ f \in Frames /\ f.seq \in Nat /\ f.pts \in Nat /\ f.seq > frame.seq
      /\ frame.seq \in Int /\ frame.pts \in Nat /\ active \in BOOLEAN
      /\ rule \in BOOLEAN
  BY DwellNextFrame, DwellConstants DEF DwellInv, Dwell!TypeOK
<1>2. Dwell!NoDwell \in Dwell!DwellStates /\ Dwell!NoDwell.occupancy.candidate = "none"
      /\ ~ Dwell!NoDwell.occupancy.initialized
  BY DwellConstants
  DEF Dwell!NoDwell, Dwell!NoOccupancy, Dwell!DwellStates, Dwell!Occupancies
<1>3. \/ before = Dwell!NoDwell
      \/ /\ t \in DOMAIN states /\ before = states[t] /\ active
         /\ f.gen = frame.gen /\ f.pts >= frame.pts
  BY <1>1 DEF Dwell!StateOf, Dwell!Known, Dwell!Restarted, DwellInv
<1> HIDE DEF before
<1>4. /\ before \in Dwell!DwellStates
      /\ before # Dwell!NoDwell =>
           /\ t \in DOMAIN history /\ w \in Dwell!Watches /\ active
           /\ f.gen = frame.gen /\ f.pts >= frame.pts /\ w.pts <= f.pts
           /\ w.seq < f.seq /\ DwellTrack(before, w, rule)
  <2>1. CASE before = Dwell!NoDwell
    BY <1>2, <2>1
  <2>2. CASE t \in DOMAIN states /\ before = states[t] /\ active
             /\ f.gen = frame.gen /\ f.pts >= frame.pts
    <3>1. /\ before \in Dwell!DwellStates /\ t \in DOMAIN history
          /\ w \in Dwell!Watches /\ DwellTrack(before, w, rule)
          /\ w.pts <= frame.pts /\ before.seq <= frame.seq
      BY <2>2 DEF DwellInv, Dwell!TypeOK, Dwell!MemoryBounded
    <3>2. w.seq = before.seq /\ w.seq \in Nat /\ w.pts \in Nat
      BY <3>1 DEF Dwell!Watches, DwellTrack
    <3> QED
      BY <1>1, <2>2, <3>1, <3>2
  <2> QED
    BY <1>3, <2>1, <2>2
<1>5. /\ kept = Dwell!NoDwell \/ kept = before
      /\ kept # Dwell!NoDwell =>
           /\ before # Dwell!NoDwell /\ ~ Dwell!GapTooLong(before, f)
           /\ ~ Dwell!Expired(before, f)
  BY DEF Dwell!Kept
<1>6. kept # Dwell!NoDwell /\ before.occupancy.initialized =>
        near \/ (rule /\ before.emitted)
  BY <1>1, <1>4, <1>5, DwellConstants
  DEF Dwell!GapTooLong, Dwell!Remembered, Dwell!Absent, Dwell!Watches, DwellTrack
<1>7. /\ cut \in Dwell!DwellStates
      /\ cut.emitted = kept.emitted /\ cut.enteredAt = kept.enteredAt
      /\ Within(cut.occupancy) <=> Within(kept.occupancy)
      /\ cut.occupancy.candidate # "none" => cut = kept
      /\ cut.occupancy.candidate # "none" /\ rule => near /\ f.seq = w.seq + 1 /\ f.pts > w.pts
      /\ cut.occupancy.candidate = "none" /\ kept # Dwell!NoDwell =>
           rule /\ ~ (f.seq = w.seq + 1 /\ f.pts > w.pts)
  <2>1. CASE kept = Dwell!NoDwell
    <3>1. cut = kept \/ cut = [kept EXCEPT !.occupancy.candidate = "none"]
      BY DEF Dwell!Interrupted
    <3> HIDE DEF kept, cut
    <3> QED
      BY <1>2, <2>1, <3>1 DEF Dwell!DwellStates, Dwell!Occupancies, Within
  <2>2. CASE kept # Dwell!NoDwell
    <3>1. /\ kept \in Dwell!DwellStates /\ kept.seq = w.seq
          /\ kept.occupancy.pts = w.pts /\ kept.occupancy.candidate # "none"
          /\ w \in Dwell!Watches /\ w.pts <= f.pts
      BY <1>4, <1>5, <2>2 DEF DwellTrack
    <3>2. f.seq = w.seq + 1 => near
      BY <1>1, <1>4, <1>5, <2>2, DwellConstants
      DEF Dwell!Remembered, Dwell!Absent, Dwell!Watches
    <3>3. CASE rule /\ (f.seq # w.seq + 1 \/ f.pts <= w.pts)
      <4>1. cut = [kept EXCEPT !.occupancy.candidate = "none"]
        BY <3>1, <3>3 DEF Dwell!Interrupted
      <4>2. ~ (f.seq = w.seq + 1 /\ f.pts > w.pts)
        BY <1>1, <3>1, <3>3 DEF Dwell!Watches
      <4> HIDE DEF kept, cut, near
      <4> QED
        BY <2>2, <3>1, <3>3, <4>1, <4>2 DEF Dwell!DwellStates, Dwell!Occupancies, Within
    <3>4. CASE ~ (rule /\ (f.seq # w.seq + 1 \/ f.pts <= w.pts))
      <4>1. cut = kept
        BY <3>1, <3>4 DEF Dwell!Interrupted
      <4>2. rule => f.seq = w.seq + 1 /\ f.pts > w.pts
        BY <1>1, <3>1, <3>4 DEF Dwell!Watches
      <4> HIDE DEF kept, cut, near
      <4> QED
        BY <2>2, <3>1, <3>2, <4>1, <4>2
    <3> QED
      BY <3>3, <3>4
  <2> QED
    BY <2>1, <2>2
<1> HIDE DEF kept, cut
<1>8. Succeeds(o, cut.occupancy, place = "in", f, 0, 0) /\ o \in Dwell!Occupancies
      /\ o = Dwell!Occupied(cut.occupancy, place = "in", f, 0, 0)
  <2>1. cut.occupancy \in Occ!Occupancies /\ ConfirmationFrames \in Nat \ {0}
    BY <1>7, DwellOccupancy, DwellConstants DEF Dwell!DwellStates
  <2>2. (place = "in") \in BOOLEAN
    OBVIOUS
  <2>3. Succeeds(o, cut.occupancy, place = "in", f, 0, 0)
    BY <1>1, <2>1, <2>2, OccupiedSucceeds
  <2> QED
    BY <2>3, DwellOccupancy DEF Succeeds
<1> HIDE DEF o
<1>9. /\ enters <=> Within(o) /\ ~ Within(cut.occupancy)
      /\ exits <=> Within(cut.occupancy) /\ ~ Within(o)
  BY <1>8 DEF Succeeds, Within, Dwell!Entered, Dwell!Exited
<1>10. seen = [occupancy |-> o, emitted |-> kept.emitted /\ ~ enters /\ ~ exits,
               enteredAt |-> IF enters THEN o.since
                             ELSE IF exits THEN 0 ELSE kept.enteredAt,
               seq |-> f.seq]
  BY <1>7, <1>8 DEF Dwell!Observed, cut
<1> HIDE DEF enters, exits
<1>11. /\ latest \in Dwell!Watches /\ latest.seq = f.seq /\ latest.pts = f.pts
       /\ latest.since <= f.pts
       /\ place = "in" => latest.visiting /\ latest.outs = 0
       /\ place = "out" =>
            latest.outs = IF near /\ (rule => f.seq = w.seq + 1 /\ f.pts > w.pts)
                          THEN IF w.outs = ConfirmationFrames THEN ConfirmationFrames
                               ELSE w.outs + 1
                          ELSE 1
       /\ near /\ w.visiting /\ latest.outs < ConfirmationFrames =>
            latest.visiting /\ latest.since = w.since
  <2> DEFINE earlier == IF t \in Dwell!Remembered(f) THEN w ELSE Dwell!Unwatched
             outs == IF place = "in" THEN 0
                     ELSE IF ~ Dwell!Joined(f, t) THEN 1
                     ELSE IF earlier.outs = ConfirmationFrames THEN ConfirmationFrames
                     ELSE earlier.outs + 1
             goesOn == earlier.visiting /\ ~ Dwell!Absent(f, t)
                         /\ outs < ConfirmationFrames
  <2>1. latest = [visiting |-> goesOn \/ place = "in",
                  since |-> IF goesOn THEN earlier.since ELSE f.pts,
                  outs |-> outs, seq |-> f.seq, pts |-> f.pts]
    BY DEF Dwell!WatchOf
  <2>2. t \in Dwell!Remembered(f) => w \in Dwell!Watches /\ w.since <= w.pts /\ w.pts <= f.pts
    BY <1>1 DEF Dwell!Remembered, DwellInv, Dwell!TypeOK, DwellTrack, Dwell!Watches
  <2>3. /\ earlier \in Dwell!Watches /\ earlier.since <= f.pts
        /\ t \in Dwell!Remembered(f) => earlier = w
    BY <1>1, <2>2, DwellConstants DEF Dwell!Watches, Dwell!Unwatched
  <2>4. near <=> t \in Dwell!Remembered(f) /\ ~ Dwell!Absent(f, t)
    BY <2>2
  <2>5. Dwell!Joined(f, t) <=> near /\ (rule => f.seq = w.seq + 1 /\ f.pts > w.pts)
    BY <2>4 DEF Dwell!Joined, Dwell!Absent
  <2>6. ~ Dwell!Absent(f, t) => t \in Dwell!Remembered(f)
    BY DEF Dwell!Absent
  <2> HIDE DEF earlier, near
  <2>7. outs \in 0 .. ConfirmationFrames
    BY <2>3, DwellConstants DEF Dwell!Watches
  <2> HIDE DEF outs
  <2>8. goesOn \in BOOLEAN
    BY <2>3 DEF Dwell!Watches
  <2>9. /\ latest.visiting = (goesOn \/ place = "in") /\ latest.outs = outs
        /\ latest.since = IF goesOn THEN earlier.since ELSE f.pts
        /\ latest.seq = f.seq /\ latest.pts = f.pts
    BY <2>1
  <2>10. latest \in Dwell!Watches /\ latest.since <= f.pts
    <3> HIDE DEF latest, goesOn
    <3> QED
      BY <1>1, <2>1, <2>3, <2>7, <2>8 DEF Dwell!Watches
  <2>11. place = "in" => latest.visiting /\ latest.outs = 0
    BY <2>9 DEF outs
  <2>12. place = "out" =>
           latest.outs = IF near /\ (rule => f.seq = w.seq + 1 /\ f.pts > w.pts)
                         THEN IF w.outs = ConfirmationFrames THEN ConfirmationFrames
                              ELSE w.outs + 1
                         ELSE 1
    BY <2>3, <2>4, <2>5, <2>9 DEF outs
  <2>13. near /\ w.visiting /\ latest.outs < ConfirmationFrames =>
           latest.visiting /\ latest.since = w.since
    BY <2>3, <2>4, <2>9
  <2> QED
    BY <2>9, <2>10, <2>11, <2>12, <2>13
<1> HIDE DEF latest, seen
<1>12. kept # Dwell!NoDwell =>
         /\ kept = before /\ before # Dwell!NoDwell /\ DwellTrack(kept, w, rule)
         /\ w \in Dwell!Watches /\ w.pts <= f.pts
         /\ kept.occupancy.initialized => near \/ (rule /\ kept.emitted)
  BY <1>4, <1>5, <1>6
<1>13. /\ kept = Dwell!NoDwell => cut.occupancy.candidate = "none" /\ ~ Within(cut.occupancy)
       /\ cut.occupancy.candidate # "none" => kept # Dwell!NoDwell /\ cut = kept
       /\ Within(cut.occupancy) => kept # Dwell!NoDwell /\ kept.occupancy.initialized
  BY <1>2, <1>7 DEF Within
<1> HIDE DEF near
<1>14. /\ o.since \in Nat /\ o.count \in 0 .. ConfirmationFrames /\ o.since <= f.pts
       /\ cut.occupancy.count \in Nat /\ cut.occupancy.since \in Nat
       /\ latest.since \in Nat /\ latest.outs \in 0 .. ConfirmationFrames
       /\ w \in Dwell!Watches => w.outs \in 0 .. ConfirmationFrames /\ w.since \in Nat
                                  /\ w.pts \in Nat
  <2>1. o.since \in Nat /\ o.count \in 0 .. ConfirmationFrames
    BY <1>8 DEF Dwell!Occupancies
  <2>2. cut.occupancy.count \in Nat /\ cut.occupancy.since \in Nat
    BY <1>7, DwellConstants DEF Dwell!Occupancies, Dwell!DwellStates
  <2>3. /\ latest.since \in Nat /\ latest.outs \in 0 .. ConfirmationFrames
        /\ w \in Dwell!Watches => w.outs \in 0 .. ConfirmationFrames /\ w.since \in Nat
                                   /\ w.pts \in Nat
    BY <1>11 DEF Dwell!Watches
  <2>4. cut.occupancy.candidate = o.candidate => cut.occupancy.since <= f.pts
    BY <1>1, <1>8, <1>12, <1>13, <2>2, <2>3 DEF Succeeds, DwellTrack
  <2>5. o.since <= f.pts
    BY <1>1, <1>8, <2>4 DEF Succeeds
  <2> QED
    BY <2>1, <2>2, <2>3, <2>5
<1>15. ~ Within(cut.occupancy) /\ place = "in" /\ rule =>
         latest.visiting /\ latest.since <= o.since
  <2>1. CASE cut.occupancy.candidate = "inside"
    BY <1>7, <1>8, <1>11, <1>12, <1>13, <1>14, <2>1, DwellConstants
    DEF Succeeds, DwellTrack, DwellCandidate
  <2>2. CASE cut.occupancy.candidate # "inside"
    BY <1>8, <1>11, <1>14, <2>2 DEF Succeeds
  <2> QED
    BY <2>1, <2>2
<1>16. Within(cut.occupancy) /\ place = "out" => latest.outs = o.count
  <2> HAVE Within(cut.occupancy) /\ place = "out"
  <2>1. /\ kept # Dwell!NoDwell /\ w \in Dwell!Watches
        /\ Within(kept.occupancy)
        /\ w.outs = IF kept.occupancy.candidate = "outside" THEN kept.occupancy.count ELSE 0
    BY <1>7, <1>12, <1>13 DEF DwellTrack, DwellCandidate
  <2>2. CASE cut.occupancy.candidate = "outside"
    <3>1. /\ cut = kept
          /\ near /\ (rule => f.seq = w.seq + 1 /\ f.pts > w.pts)
      BY <1>7, <1>12, <1>13, <2>1, <2>2
    <3>2. o.count = IF w.outs < ConfirmationFrames THEN w.outs + 1 ELSE w.outs
      BY <1>8, <2>1, <2>2, <3>1 DEF Succeeds
    <3> QED
      BY <1>11, <1>14, <2>1, <3>1, <3>2, DwellConstants
  <2>3. CASE cut.occupancy.candidate = "none"
    BY <1>7, <1>8, <1>11, <2>1, <2>3 DEF Succeeds
  <2>4. CASE cut.occupancy.candidate = "inside"
    BY <1>8, <1>11, <1>13, <2>1, <2>4, DwellConstants DEF Succeeds
  <2>5. cut.occupancy.candidate \in {"none", "inside", "outside"}
    BY <1>7 DEF Dwell!DwellStates, Dwell!Occupancies
  <2> QED
    BY <2>2, <2>3, <2>4, <2>5
<1>17. DwellCandidate(o, latest, rule)
  BY <1>8, <1>11, <1>15, <1>16 DEF Succeeds, DwellCandidate
<1>18. /\ seen.occupancy = o /\ seen.seq = f.seq
       /\ seen.emitted = (kept.emitted /\ ~ enters /\ ~ exits)
       /\ seen.enteredAt = IF enters THEN o.since
                            ELSE IF exits THEN 0 ELSE kept.enteredAt
       /\ seen \in Dwell!DwellStates
  <2>1. kept.emitted \in BOOLEAN /\ kept.enteredAt \in Nat
    BY <1>7 DEF Dwell!DwellStates
  <2> QED
    BY <1>1, <1>8, <1>10, <1>14, <2>1 DEF Dwell!DwellStates
<1>19. DwellStay(seen, latest, rule)
  <2> SUFFICES ASSUME rule, Within(o), ~ seen.emitted
               PROVE  latest.visiting /\ latest.since <= seen.enteredAt
    BY <1>18 DEF DwellStay
  <2>1. CASE enters
    BY <1>8, <1>9, <1>15, <1>18, <2>1 DEF Succeeds
  <2>2. CASE ~ enters
    <3>1. /\ Within(cut.occupancy) /\ ~ exits /\ ~ kept.emitted
          /\ seen.enteredAt = kept.enteredAt
      BY <1>9, <1>18, <2>2
    <3>2. /\ near /\ w.visiting /\ w.since <= kept.enteredAt
      BY <1>7, <1>12, <1>13, <3>1 DEF DwellTrack, DwellStay
    <3>3. latest.outs < ConfirmationFrames
      BY <1>1, <1>8, <1>11, <1>14, <1>16, <3>1, DwellConstants DEF Succeeds
    <3> QED
      BY <1>11, <3>1, <3>2, <3>3
  <2> QED
    BY <2>1, <2>2
<1>20. /\ Dwell!Dwells(before, f, place) <=>
            Within(o) /\ ~ seen.emitted /\ f.pts - seen.enteredAt >= DwellTime
       /\ after = [seen EXCEPT !.emitted = seen.emitted \/ Dwell!Dwells(before, f, place)]
  BY <1>18 DEF Dwell!Dwells, Dwell!Settled, Within, seen
<1> HIDE DEF after
<1>21. /\ after \in Dwell!DwellStates /\ after.occupancy = o /\ after.seq = f.seq
       /\ after.enteredAt = seen.enteredAt
       /\ after.emitted <=> seen.emitted \/ Dwell!Dwells(before, f, place)
  BY <1>18, <1>20 DEF Dwell!DwellStates
<1>22. DwellTrack(after, latest, rule)
  <2>1. DwellStay(after, latest, rule)
    BY <1>18, <1>19, <1>21 DEF DwellStay
  <2>2. o.candidate # "none"
    BY <1>8 DEF Succeeds
  <2> QED
    BY <1>8, <1>11, <1>14, <1>17, <1>21, <2>1, <2>2 DEF Succeeds, DwellTrack
<1>23. t \in barred =>
         /\ t \in DOMAIN states /\ active
         /\ Within(states[t].occupancy) /\ states[t].emitted
  BY <1>1 DEF DwellInv, Dwell!TypeOK
<1>24. Dwell!Dwells(before, f, place) => t \notin barred
  <2> SUFFICES ASSUME t \in barred, Within(o), ~ seen.emitted
               PROVE  ~ (f.pts - seen.enteredAt >= DwellTime)
    BY <1>20
  <2>1. CASE kept = Dwell!NoDwell
    <3>1. o.since = f.pts /\ enters
      BY <1>8, <1>9, <1>13, <2>1 DEF Succeeds
    <3> QED
      BY <1>1, <1>18, <3>1, DwellConstants
  <2>2. CASE kept # Dwell!NoDwell
    <3>1. kept = states[t]
      BY <1>3, <1>12, <2>2
    <3> QED
      BY <1>7, <1>9, <1>18, <1>23, <3>1
  <2> QED
    BY <2>1, <2>2
<1>25. t \in barred /\ t \in Dwell!Remembered(f) =>
         \/ Within(after.occupancy) /\ after.emitted
         \/ latest.outs = ConfirmationFrames
         \/ ~ rule /\ Dwell!Absent(f, t)
  <2> SUFFICES ASSUME t \in barred, t \in Dwell!Remembered(f),
                      rule \/ ~ Dwell!Absent(f, t)
               PROVE  \/ Within(after.occupancy) /\ after.emitted
                      \/ latest.outs = ConfirmationFrames
    OBVIOUS
  <2>1. /\ active /\ f.gen = frame.gen /\ f.pts >= frame.pts
        /\ f.seq - w.seq <= DwellStaleAfter
    BY DEF Dwell!Remembered
  <2>2. before = states[t] /\ before # Dwell!NoDwell
    BY <1>1, <1>2, <1>23, <2>1
    DEF before, Dwell!StateOf, Dwell!Known, Dwell!Restarted, Within
  <2>3. /\ w.seq \in Nat /\ w.pts \in Nat /\ w.pts <= f.pts
        /\ before.seq = w.seq /\ before.occupancy.pts = w.pts
    BY <1>4, <2>2 DEF DwellTrack, Dwell!Watches
  <2>4. ~ Dwell!Expired(before, f)
    BY <1>1, <2>1, <2>3, DwellConstants DEF Dwell!Expired
  <2>5. ~ Dwell!GapTooLong(before, f)
    BY <1>1, <1>23, <2>1, <2>2, <2>3, DwellConstants DEF Dwell!GapTooLong, Dwell!Absent
  <2>6. ~ Dwell!Regressed(before, f)
    BY <1>1, <2>3 DEF Dwell!Regressed
  <2>7. kept = before /\ Within(cut.occupancy) /\ kept.emitted
    BY <1>7, <1>23, <2>2, <2>4, <2>5, <2>6 DEF Dwell!Kept, kept
  <2>8. CASE Within(o)
    BY <1>9, <1>18, <1>21, <2>7, <2>8
  <2>9. CASE ~ Within(o)
    BY <1>8, <1>14, <1>16, <2>7, <2>9, DwellConstants DEF Succeeds
  <2> QED
    BY <2>8, <2>9
<1>26. Dwell!Dwells(before, f, place) =>
         /\ Within(after.occupancy) /\ after.emitted /\ t \notin barred
         /\ rule => latest.visiting /\ f.pts - latest.since >= DwellTime
  <2>1. seen.enteredAt \in Nat
    BY <1>18 DEF Dwell!DwellStates
  <2> QED
    BY <1>1, <1>14, <1>18, <1>19, <1>20, <1>21, <1>24, <2>1, DwellConstants DEF DwellStay
<1> QED
  BY <1>11, <1>21, <1>22, <1>25, <1>26 DEF before, after, latest

LEMMA DwellUpdated ==
  ASSUME DwellInv, NEW f \in Dwell!NextFrames, NEW results,
         \A t \in DOMAIN results : results[t].seq = f.seq,
         Dwell!Apply(f, Dwell!Known(f), results),
         DOMAIN history' = Dwell!Remembered(f) \cup DOMAIN results,
         \A t \in DOMAIN history' \ DOMAIN results : history'[t] = history[t]
  PROVE  /\ frame' = f /\ active' = TRUE
         /\ DOMAIN states' = DOMAIN history' /\ DOMAIN results \subseteq DOMAIN states'
         /\ \A t \in DOMAIN results : states'[t] = results[t]
         /\ \A t \in DOMAIN states' \ DOMAIN results :
              /\ t \in DOMAIN states /\ active
              /\ f.gen = frame.gen /\ f.pts >= frame.pts
              /\ states'[t] = states[t] /\ history'[t] = history[t]
              /\ f.seq - states[t].seq <= DwellStaleAfter
<1> DEFINE seen == DOMAIN results
           known == Dwell!Known(f)
           follows == active /\ f.gen = frame.gen /\ f.pts >= frame.pts
<1>1. /\ f \in Frames /\ f.seq \in Nat /\ f.pts \in Nat /\ f.seq > frame.seq
      /\ frame.seq \in Int /\ frame.pts \in Nat /\ active \in BOOLEAN
  BY DwellNextFrame DEF DwellInv, Dwell!TypeOK
<1>2. \A t \in DOMAIN history : states[t].seq = history[t].seq /\ history[t].seq \in Nat
  BY DEF DwellInv, DwellTrack, Dwell!TypeOK, Dwell!Watches
<1>3. /\ follows => known = states /\ DOMAIN known = DOMAIN history
      /\ ~ follows => DOMAIN known = {} /\ Dwell!Remembered(f) = {}
      /\ \A t : t \in Dwell!Remembered(f) <=>
           follows /\ t \in DOMAIN history /\ f.seq - history[t].seq <= DwellStaleAfter
  BY <1>1 DEF DwellInv, Dwell!Known, Dwell!Restarted, Dwell!Remembered
<1>4. /\ frame' = f /\ active' = TRUE
      /\ seen \subseteq DOMAIN states' /\ \A t \in seen : states'[t] = results[t]
      /\ \A t \in DOMAIN states' \ seen : states'[t] = known[t]
      /\ \A t : t \notin seen =>
           (t \in DOMAIN states' <=>
              t \in DOMAIN known /\ f.seq - known[t].seq <= DwellStaleAfter)
  <2>1. DwellStaleAfter \in Nat
    BY DwellConstants
  <2> QED
    BY <1>1, <2>1, MergedAndPruned DEF Dwell!Apply, Dwell!Pruned
<1> HIDE DEF known
<1>5. \A t : t \notin seen =>
        /\ t \in DOMAIN states' <=>
             follows /\ t \in DOMAIN history /\ f.seq - states[t].seq <= DwellStaleAfter
        /\ t \in DOMAIN history' <=>
             follows /\ t \in DOMAIN history /\ f.seq - states[t].seq <= DwellStaleAfter
  BY <1>1, <1>2, <1>3, <1>4, DwellConstants
<1>6. DOMAIN states' = DOMAIN history'
  <2> HIDE DEF follows
  <2>1. \A t : t \in DOMAIN states' <=> t \in DOMAIN history'
    BY <1>4, <1>5
  <2> QED
    BY <2>1
<1> QED
  BY <1>2, <1>3, <1>4, <1>5, <1>6 DEF DwellInv

LEMMA DwellUpdateStep ==
  ASSUME DwellInv, Dwell!Update
  PROVE  DwellInv' /\ Dwell!DwellsOnce
<1>0. PICK f \in Dwell!NextFrames, sightings \in Dwell!Sightings :
      LET seen == DOMAIN sightings
          before(t) == Dwell!StateOf(Dwell!Known(f), t, Dwell!NoDwell)
          latest == [t \in Dwell!Remembered(f) \cup seen |->
                       IF t \in seen THEN Dwell!WatchOf(f, t, sightings[t])
                       ELSE history[t]]
          departed == {t \in seen : \/ latest[t].outs = ConfirmationFrames
                                    \/ ~ rule /\ Dwell!Absent(f, t)}
      IN  /\ Dwell!Apply(f, Dwell!Known(f),
                         [t \in seen |-> Dwell!Settled(before(t), f, sightings[t])])
          /\ events' = {t \in seen : Dwell!Dwells(before(t), f, sightings[t])}
          /\ history' = latest
          /\ barred' = ((barred \cap Dwell!Remembered(f)) \ departed) \cup events'
          /\ UNCHANGED rule
  BY DEF Dwell!Update
<1> DEFINE seen == DOMAIN sightings
           before(t) == Dwell!StateOf(Dwell!Known(f), t, Dwell!NoDwell)
           after(t) == Dwell!Settled(before(t), f, sightings[t])
           results == [t \in seen |-> after(t)]
           latest(t) == Dwell!WatchOf(f, t, sightings[t])
<1>1. /\ Dwell!Apply(f, Dwell!Known(f), results)
      /\ events' = {t \in seen : Dwell!Dwells(before(t), f, sightings[t])}
      /\ DOMAIN history' = Dwell!Remembered(f) \cup seen
      /\ \A t \in DOMAIN history' \ seen : history'[t] = history[t]
      /\ \A t \in seen : history'[t] = latest(t)
      /\ \A t \in barred' :
           \/ t \in events'
           \/ /\ t \in barred /\ t \in Dwell!Remembered(f) /\ t \in DOMAIN history'
              /\ t \in seen => /\ history'[t].outs # ConfirmationFrames
                               /\ ~ (~ rule /\ Dwell!Absent(f, t))
      /\ rule' = rule
  BY <1>0
<1>2. seen \subseteq Tracks /\ \A t \in seen : sightings[t] \in {"in", "out"}
  BY DEF Dwell!Sightings
<1>3. \A t \in seen :
        /\ after(t) \in Dwell!DwellStates /\ after(t).seq = f.seq
        /\ latest(t) \in Dwell!Watches /\ latest(t).seq = f.seq /\ latest(t).pts = f.pts
        /\ DwellTrack(after(t), latest(t), rule)
        /\ t \in events' =>
             /\ Within(after(t).occupancy) /\ after(t).emitted /\ t \notin barred
             /\ rule => latest(t).visiting /\ f.pts - latest(t).since >= DwellTime
        /\ t \in barred /\ t \in Dwell!Remembered(f) =>
             \/ Within(after(t).occupancy) /\ after(t).emitted
             \/ latest(t).outs = ConfirmationFrames
             \/ ~ rule /\ Dwell!Absent(f, t)
  BY <1>1, <1>2, DwellObservation
<1> HIDE DEF before, after, latest
<1>4. /\ frame' = f /\ active' = TRUE
      /\ DOMAIN states' = DOMAIN history' /\ seen \subseteq DOMAIN states'
      /\ \A t \in seen : states'[t] = after(t)
      /\ \A t \in DOMAIN states' \ seen :
           /\ t \in DOMAIN states /\ active
           /\ f.gen = frame.gen /\ f.pts >= frame.pts
           /\ states'[t] = states[t] /\ history'[t] = history[t]
           /\ f.seq - states[t].seq <= DwellStaleAfter
  <2>1. PICK r : r = results
    OBVIOUS
  <2>2. DOMAIN r = seen /\ \A t \in seen : r[t] = after(t)
    BY <2>1
  <2> HIDE DEF results, seen
  <2>3. /\ Dwell!Apply(f, Dwell!Known(f), r)
        /\ DOMAIN history' = Dwell!Remembered(f) \cup DOMAIN r
        /\ \A t \in DOMAIN history' \ DOMAIN r : history'[t] = history[t]
        /\ \A t \in DOMAIN r : r[t].seq = f.seq
    BY <1>1, <1>3, <2>1, <2>2
  <2>4. /\ frame' = f /\ active' = TRUE
        /\ DOMAIN states' = DOMAIN history' /\ DOMAIN r \subseteq DOMAIN states'
        /\ \A t \in DOMAIN r : states'[t] = r[t]
        /\ \A t \in DOMAIN states' \ DOMAIN r :
             /\ t \in DOMAIN states /\ active
             /\ f.gen = frame.gen /\ f.pts >= frame.pts
             /\ states'[t] = states[t] /\ history'[t] = history[t]
             /\ f.seq - states[t].seq <= DwellStaleAfter
    BY <2>3, DwellUpdated DEF Dwell!Apply
  <2> QED
    BY <2>2, <2>4
<1> HIDE DEF seen, results
<1>5. f \in Frames /\ f.seq \in Nat /\ f.pts \in Nat /\ f.gen \in Nat
      /\ f.seq > frame.seq /\ f.seq <= DwellBounds.seq /\ f.gen <= DwellBounds.gen
      /\ frame.seq \in Int /\ frame.pts \in Nat
  BY DwellNextFrame DEF DwellInv, Dwell!TypeOK, Frames
<1>6. \A t \in DOMAIN states' :
        \/ /\ t \in seen /\ states'[t] = after(t) /\ history'[t] = latest(t)
        \/ /\ t \in DOMAIN states /\ t \notin seen
           /\ states'[t] = states[t] /\ history'[t] = history[t]
           /\ active /\ f.gen = frame.gen /\ f.pts >= frame.pts
           /\ f.seq - states[t].seq <= DwellStaleAfter
  BY <1>1, <1>4
<1>7. Dwell!TypeOK'
  <2>1. barred' \subseteq DOMAIN history' /\ events' \subseteq Tracks
    BY <1>1, <1>2, <1>4
  <2>2. DOMAIN states' \subseteq Tracks
    BY <1>2, <1>6 DEF DwellInv, Dwell!TypeOK
  <2>3. \A t \in DOMAIN states' : states'[t] \in Dwell!DwellStates
    BY <1>3, <1>6 DEF DwellInv, Dwell!TypeOK
  <2>4. \A t \in DOMAIN history' : history'[t] \in Dwell!Watches
    BY <1>3, <1>4, <1>6 DEF DwellInv, Dwell!TypeOK
  <2>5. frame'.seq \in -1 .. DwellBounds.seq /\ frame'.pts \in Nat
        /\ frame'.gen \in 0 .. DwellBounds.gen
    BY <1>4, <1>5, DwellConstants
  <2>6. rule' \in Rearms
    BY <1>1 DEF DwellInv, Dwell!TypeOK
  <2> QED
    BY <1>4, <2>1, <2>2, <2>3, <2>4, <2>5, <2>6 DEF Dwell!TypeOK
<1>8. Dwell!MemoryBounded'
  <2>1. \A t \in DOMAIN states' :
          states'[t].seq <= f.seq /\ f.seq - states'[t].seq <= DwellStaleAfter
    <3> SUFFICES ASSUME NEW t \in DOMAIN states'
                 PROVE  states'[t].seq <= f.seq /\ f.seq - states'[t].seq <= DwellStaleAfter
      OBVIOUS
    <3>1. CASE t \in seen
      BY <1>3, <1>4, <1>5, <3>1, DwellConstants
    <3>2. CASE t \notin seen
      <4>1. states[t].seq \in Nat /\ states[t].seq <= frame.seq
        BY <1>6, <3>2 DEF DwellInv, Dwell!MemoryBounded, Dwell!TypeOK, Dwell!DwellStates
      <4> QED
        BY <1>5, <1>6, <3>2, <4>1
    <3> QED
      BY <3>1, <3>2
  <2> QED
    BY <1>4, <2>1 DEF Dwell!MemoryBounded
<1>9. \A t \in DOMAIN states' :
        DwellTrack(states'[t], history'[t], rule') /\ history'[t].pts <= frame'.pts
  <2> SUFFICES ASSUME NEW t \in DOMAIN states'
               PROVE  DwellTrack(states'[t], history'[t], rule) /\ history'[t].pts <= f.pts
    BY <1>1, <1>4
  <2>1. CASE t \in seen
    BY <1>3, <1>5, <1>6, <2>1
  <2>2. CASE t \notin seen
    <3>1. /\ DwellTrack(states[t], history[t], rule)
          /\ history[t].pts <= frame.pts /\ history[t].pts \in Nat
      BY <1>6, <2>2 DEF DwellInv, Dwell!TypeOK, Dwell!Watches
    <3> QED
      BY <1>5, <1>6, <2>2, <3>1
  <2> QED
    BY <2>1, <2>2
<1>10. \A t \in barred' : Within(states'[t].occupancy) /\ states'[t].emitted
  <2> SUFFICES ASSUME NEW t \in barred'
               PROVE  Within(states'[t].occupancy) /\ states'[t].emitted
    OBVIOUS
  <2>1. CASE t \in events'
    BY <1>1, <1>3, <1>4, <2>1
  <2>2. CASE t \notin events' /\ t \in seen
    BY <1>1, <1>3, <1>4, <2>2
  <2>3. CASE t \notin events' /\ t \notin seen
    BY <1>1, <1>4, <1>6, <2>3 DEF DwellInv
  <2> QED
    BY <2>1, <2>2, <2>3
<1>11. rule' => Dwell!DwellIsWatched'
  <2>1. rule => \A t \in events' :
                  history'[t].visiting /\ frame'.pts - history'[t].since >= DwellTime
    BY <1>1, <1>3, <1>4
  <2> QED
    BY <1>1, <2>1 DEF Dwell!DwellIsWatched
<1>12. Dwell!DwellsOnce
  BY <1>1, <1>3 DEF Dwell!DwellsOnce
<1> QED
  BY <1>4, <1>7, <1>8, <1>9, <1>10, <1>11, <1>12 DEF DwellInv

LEMMA DwellInitial ==
  ASSUME Dwell!Init
  PROVE  DwellInv
<1>1. /\ frame = [seq |-> -1, pts |-> 0, gen |-> 0] /\ active = FALSE
      /\ states = << >> /\ history = << >> /\ events = {} /\ barred = {}
      /\ rule \in Rearms
  BY DEF Dwell!Init, Dwell!TimelineInit
<1>2. DOMAIN states = {} /\ DOMAIN history = {}
  BY <1>1
<1>3. Dwell!TypeOK
  <2>1. frame.seq \in -1 .. DwellBounds.seq /\ frame.pts \in Nat
        /\ frame.gen \in 0 .. DwellBounds.gen
    BY <1>1, DwellConstants
  <2> QED
    BY <1>1, <1>2, <2>1 DEF Dwell!TypeOK
<1> QED
  BY <1>1, <1>2, <1>3 DEF DwellInv, Dwell!MemoryBounded, Dwell!DwellIsWatched

LEMMA DwellResetStep ==
  ASSUME DwellInv, Dwell!Reset
  PROVE  DwellInv' /\ Dwell!DwellsOnce
<1>1. /\ frame' = frame /\ rule' = rule /\ active' = FALSE
      /\ states' = << >> /\ history' = << >> /\ events' = {} /\ barred' = {}
  BY DEF Dwell!Reset, Dwell!Forget
<1>2. DOMAIN states' = {} /\ DOMAIN history' = {}
  BY <1>1
<1> QED
  BY <1>1, <1>2 DEF DwellInv, Dwell!TypeOK, Dwell!MemoryBounded, Dwell!DwellIsWatched,
    Dwell!DwellsOnce

LEMMA DwellUnchanged ==
  ASSUME DwellInv, UNCHANGED <<rule, frame, active, states, events, history, barred>>
  PROVE  DwellInv'
BY DEF DwellInv, Dwell!TypeOK, Dwell!MemoryBounded, Dwell!DwellIsWatched

-----------------------------------------------------------------------------
(* Line rules: types.                                                      *)

LEMMA LineConstants ==
  /\ ConfirmationFrames \in Nat \ {0} /\ LineStaleAfter \in Nat \ {0}
  /\ SideEpsilon \in Nat
  /\ LineBounds.seq \in Nat /\ LineBounds.jump \in Nat
  /\ LineBounds.pts \in Nat /\ LineBounds.gen \in Nat
BY RulesAssumption DEF Line!LineAssumption, Line!TimelineAssumption

LEMMA LineNextFrame ==
  ASSUME Line!TypeOK, NEW f \in Line!NextFrames
  PROVE  /\ f \in Frames /\ f.seq \in Nat /\ f.pts \in Nat /\ f.gen \in Nat
         /\ f.seq > frame.seq /\ f.seq <= LineBounds.seq /\ f.gen <= LineBounds.gen
BY LineConstants DEF Line!TypeOK, Line!NextFrames, Frames

\* One observation of one track, of a line rule: what the timed and the untimed rule
\* make of a state is a state.
LEMMA LineRuleTyped ==
  ASSUME NEW l \in Line!LineStates, NEW f \in Frames, NEW point \in LinePlaces
  PROVE  /\ Line!TimedRule(l, f, point).state \in Line!LineStates
         /\ Line!UntimedRule(l, point).state \in Line!LineStates
<1> DEFINE side == Line!SideOf(point)
           kept == Line!Kept(l, f)
           advanced == Line!Advanced(kept, f, point)
           withdrawn == Line!Withdrawn(kept, point)
           counted == Line!Counted(l, side)
<1>1. /\ side \in Line!Sides /\ 0 \in Line!Sides
      /\ f.seq \in Nat /\ f.pts \in Nat
      /\ 0 \in 0 .. ConfirmationFrames /\ 1 \in 0 .. ConfirmationFrames
  BY LineConstants DEF Line!SideOf, Line!Sides, Frames
<1>2. Line!NoLine \in Line!LineStates
  BY LineConstants DEF Line!NoLine, Line!LineStates, Line!Sides
<1>3. kept \in Line!LineStates
  BY <1>2 DEF Line!Kept
<1>4. \A x \in Line!LineStates : Line!Continued(x) \in 0 .. ConfirmationFrames
  BY LineConstants DEF Line!Continued, Line!LineStates
<1> HIDE DEF side, kept
<1>5. withdrawn \in Line!LineStates
  <2> DEFINE idle == [kept EXCEPT !.candidate = 0, !.count = 0]
             p == IF Line!SideOf(point) = 0 THEN kept.point ELSE point
  <2>1. idle \in Line!LineStates /\ idle.point = kept.point
    BY <1>1, <1>3 DEF Line!LineStates
  <2>2. withdrawn = [idle EXCEPT !.point = p]
    BY <2>1 DEF Line!Withdrawn
  <2>3. p \in LinePlaces \cup {LineStart}
    BY <1>3 DEF Line!LineStates
  <2> HIDE DEF idle, p
  <2> QED
    BY <2>1, <2>2, <2>3 DEF Line!LineStates
<1>6. advanced \in Line!LineStates
  <2> DEFINE crosses == kept.stable # 0
                          /\ Line!SegmentsIntersect(kept.point, point, LineStart, LineEnd)
  <2>1. CASE kept.candidate # side
    <3> DEFINE begun == [kept EXCEPT !.candidate = side, !.count = 1]
    <3>2. begun \in Line!LineStates
      BY <1>1, <1>3 DEF Line!LineStates
    <3>3. advanced = [begun EXCEPT !.since = f.pts, !.crosses = crosses]
      BY <2>1 DEF Line!Advanced, side
    <3>4. crosses \in BOOLEAN
      OBVIOUS
    <3> HIDE DEF begun, crosses
    <3> QED
      BY <1>1, <3>2, <3>3, <3>4 DEF Line!LineStates
  <2>2. CASE kept.candidate = side
    <3>1. advanced = [kept EXCEPT !.count = Line!Continued(kept)]
      BY <2>2 DEF Line!Advanced, side
    <3> QED
      BY <1>3, <1>4, <3>1 DEF Line!LineStates
  <2> QED
    BY <2>1, <2>2
<1>7. counted \in Line!LineStates
  <2> DEFINE n == IF l.candidate # side THEN 1 ELSE Line!Continued(l)
  <2>1. counted = [l EXCEPT !.candidate = side, !.count = n]
    BY DEF Line!Counted
  <2>2. n \in 0 .. ConfirmationFrames
    BY <1>4, LineConstants
  <2> HIDE DEF n
  <2> QED
    BY <1>1, <2>1, <2>2 DEF Line!LineStates
<1>8. Line!TimedRule(l, f, point).state \in Line!LineStates
  <2> DEFINE placed == [advanced EXCEPT !.stable = side, !.point = point]
             settled == [placed EXCEPT !.candidate = 0, !.count = 0]
  <2>1. Line!TimedRule(l, f, point).state \in {withdrawn, advanced, settled}
    BY DEF Line!TimedRule, side, kept
  <2> HIDE DEF advanced
  <2>2. placed \in Line!LineStates
    BY <1>1, <1>6 DEF Line!LineStates
  <2> HIDE DEF placed
  <2>3. settled \in Line!LineStates
    BY <1>1, <2>2 DEF Line!LineStates
  <2> QED
    BY <1>5, <1>6, <2>1, <2>3
<1>9. Line!UntimedRule(l, point).state \in Line!LineStates
  <2> DEFINE settled == [counted EXCEPT !.stable = side, !.point = point]
  <2>1. Line!UntimedRule(l, point).state \in {l, counted, settled}
    BY DEF Line!UntimedRule, side
  <2> HIDE DEF counted
  <2>2. settled \in Line!LineStates
    BY <1>1, <1>7 DEF Line!LineStates
  <2> QED
    BY <1>7, <2>1, <2>2
<1> QED
  BY <1>8, <1>9

LEMMA LineObservation ==
  ASSUME NEW l \in Line!LineStates, NEW f \in Frames, NEW point \in LinePlaces
  PROVE  /\ Line!Applied(l, f, point).state \in Line!LineStates
         /\ Line!Applied(l, f, point).state.seq = f.seq
<1>1. f.seq \in Nat /\ f.pts \in Nat
  BY DEF Frames
<1>2. CASE Line!Timed
  <2>1. Line!Applied(l, f, point).state
          = [Line!TimedRule(l, f, point).state EXCEPT !.seq = f.seq, !.pts = f.pts]
    BY <1>2 DEF Line!Applied, Line!TimedRule
  <2>2. Line!TimedRule(l, f, point).state \in Line!LineStates
    BY LineRuleTyped
  <2> QED
    BY <1>1, <2>1, <2>2 DEF Line!LineStates
<1>3. CASE ~ Line!Timed
  <2>1. Line!Applied(l, f, point).state
          = [Line!UntimedRule(l, point).state EXCEPT !.seq = f.seq]
    BY <1>3 DEF Line!Applied, Line!UntimedRule
  <2>2. Line!UntimedRule(l, point).state \in Line!LineStates
    BY LineRuleTyped
  <2> QED
    BY <1>1, <2>1, <2>2 DEF Line!LineStates
<1> QED
  BY <1>2, <1>3

-----------------------------------------------------------------------------
(* The geometry: intersections.                                            *)

\* A fraction lies between 0 and 1 exactly if its numerator is between 0 and the
\* denominator, whatever their signs.
LEMMA FractionProduct ==
  ASSUME NEW n \in Int, NEW d \in Int, d # 0
  PROVE  Fraction(n, d) <=> n * (n - d) <= 0
<1>1. CASE d > 0
  <2>1. Fraction(n, d) <=> 0 <= n /\ n <= d
    BY <1>1 DEF Fraction
  <2>2. ASSUME 0 <= n, n <= d PROVE n * (n - d) <= 0
    BY <2>2
  <2>3. ASSUME n < 0 PROVE n * (n - d) > 0
    BY <1>1, <2>3
  <2>4. ASSUME n > d PROVE n * (n - d) > 0
    BY <1>1, <2>4
  <2> QED
    BY <2>1, <2>2, <2>3, <2>4
<1>2. CASE d < 0
  <2>1. Fraction(n, d) <=> d <= n /\ n <= 0
    BY <1>2 DEF Fraction
  <2>2. ASSUME d <= n, n <= 0 PROVE n * (n - d) <= 0
    BY <2>2
  <2>3. ASSUME n < d PROVE n * (n - d) > 0
    BY <1>2, <2>3
  <2>4. ASSUME n > 0 PROVE n * (n - d) > 0
    BY <1>2, <2>4
  <2> QED
    BY <2>1, <2>2, <2>3, <2>4
<1> QED
  BY <1>1, <1>2

\* segments_intersect of any two segments of the plane.
LEMMA SegmentsSeparate ==
  ASSUME NEW p \in Plane, NEW q \in Plane, NEW a \in Plane, NEW b \in Plane
  PROVE  SegmentsIntersect(p, q, a, b)
           <=> /\ Cross(p, q, [x |-> p.x + b.x - a.x, y |-> p.y + b.y - a.y]) # 0
               /\ Cross(p, q, a) * Cross(p, q, b) <= 0
               /\ Cross(a, b, p) * Cross(a, b, q) <= 0
<1> DEFINE r == [x |-> q.x - p.x, y |-> q.y - p.y]
           s == [x |-> b.x - a.x, y |-> b.y - a.y]
           w == [x |-> a.x - p.x, y |-> a.y - p.y]
           d == r.x * s.y - r.y * s.x
           u == w.x * s.y - w.y * s.x
           v == w.x * r.y - w.y * r.x
<1>1. /\ p.x \in Int /\ p.y \in Int /\ q.x \in Int /\ q.y \in Int
      /\ a.x \in Int /\ a.y \in Int /\ b.x \in Int /\ b.y \in Int
  BY DEF Plane
<1>2. d \in Int /\ u \in Int /\ v \in Int
  BY <1>1
<1>3. Cross(p, q, [x |-> p.x + b.x - a.x, y |-> p.y + b.y - a.y]) = d
  BY <1>1 DEF Cross
<1>4. Cross(p, q, a) = - v /\ Cross(p, q, b) = d - v
  BY <1>1 DEF Cross
<1>5. Cross(a, b, p) = u /\ Cross(a, b, q) = u - d
  BY <1>1 DEF Cross
<1>6. SegmentsIntersect(p, q, a, b) <=> d # 0 /\ Fraction(u, d) /\ Fraction(v, d)
  BY DEF SegmentsIntersect
<1> HIDE DEF d, u, v
<1>7. (- v) * (d - v) = v * (v - d)
  BY <1>2
<1> QED
  BY <1>2, <1>3, <1>4, <1>5, <1>6, <1>7, FractionProduct

-----------------------------------------------------------------------------
(* The geometry: what is inside.  The parity of the edges to the right is   *)
(* taken apart along the diagonal: it is that of one triangle plus that of  *)
(* the other, and of a triangle it is decided by the sides' signs, because   *)
(* the sides weigh the corners' heights to zero (Weights).                  *)

\* An edge between heights f and s passes to the right, if c is where the point is of it.
Passes(f, s, c) ==
  \/ f <= 0 /\ s > 0 /\ c > 0
  \/ f > 0 /\ s <= 0 /\ c < 0

LEMMA PassesFacts ==
  ASSUME NEW a \in Plane, NEW b \in Plane, NEW p \in Plane
  PROVE  /\ PassesRightOf([first |-> a, second |-> b], p)
              <=> Passes(a.y - p.y, b.y - p.y, Cross(a, b, p))
         /\ OnSegment(p, a, b)
              <=> /\ Cross(a, b, p) = 0
                  /\ Between(a.x - p.x, 0, b.x - p.x) /\ Between(a.y - p.y, 0, b.y - p.y)
         /\ Cross(a, b, p) \in Int
         /\ Cross(a, b, p) = (a.x - p.x) * (b.y - p.y) - (b.x - p.x) * (a.y - p.y)
         /\ Cross(b, a, p) = - Cross(a, b, p)
<1> DEFINE c == Cross(a, b, p)
<1>1. a.x \in Int /\ a.y \in Int /\ b.x \in Int /\ b.y \in Int /\ p.x \in Int /\ p.y \in Int
  BY DEF Plane
<1>2. c = (b.x - a.x) * (p.y - a.y) - (b.y - a.y) * (p.x - a.x)
  BY DEF Cross
<1>3. c \in Int
  BY <1>1, <1>2
<1>4. c = (a.x - p.x) * (b.y - p.y) - (b.x - p.x) * (a.y - p.y)
  BY <1>1, <1>2
<1>5. Cross(b, a, p) = - c
  BY <1>1, <1>2 DEF Cross
<1>6. (b.x - a.x) * (p.y - a.y) - (p.x - a.x) * (b.y - a.y) = c
  BY <1>1, <1>2
<1> HIDE DEF c
<1>7. PassesRightOf([first |-> a, second |-> b], p)
        <=> /\ (a.y > p.y) # (b.y > p.y)
            /\ IF b.y - a.y > 0 THEN c > 0 ELSE c < 0
  BY <1>6 DEF PassesRightOf
<1>8. PassesRightOf([first |-> a, second |-> b], p) <=> Passes(a.y - p.y, b.y - p.y, c)
  BY <1>1, <1>3, <1>7 DEF Passes
<1>9. OnSegment(p, a, b)
        <=> /\ c = 0
            /\ Between(a.x - p.x, 0, b.x - p.x) /\ Between(a.y - p.y, 0, b.y - p.y)
  BY <1>1 DEF OnSegment, Between, c
<1> QED
  BY <1>3, <1>4, <1>5, <1>8, <1>9 DEF c

\* What the sides of a triangle say of each other.
Corner(xa, ya, xb, yb, xc, yc, ab, bc, ca) ==
  /\ xa \in Int /\ ya \in Int /\ xb \in Int /\ yb \in Int /\ xc \in Int /\ yc \in Int
  /\ ab = xa * yb - xb * ya /\ bc = xb * yc - xc * yb /\ ca = xc * ya - xa * yc
  /\ ab + bc + ca > 0

LEMMA Weights ==
  ASSUME NEW xa, NEW ya, NEW xb, NEW yb, NEW xc, NEW yc, NEW ab, NEW bc, NEW ca,
         Corner(xa, ya, xb, yb, xc, yc, ab, bc, ca)
  PROVE  /\ ab \in Int /\ bc \in Int /\ ca \in Int
         /\ bc * ya + ca * yb + ab * yc = 0
         /\ bc * xa + ca * xb + ab * xc = 0
         /\ ya # 0 \/ yb # 0 \/ yc # 0
BY DEF Corner

LEMMA ProductSigns ==
  ASSUME NEW a \in Int, NEW b \in Int
  PROVE  /\ a > 0 /\ b > 0 => a * b > 0
         /\ a > 0 /\ b < 0 => a * b < 0
         /\ a < 0 /\ b > 0 => a * b < 0
         /\ a < 0 /\ b < 0 => a * b > 0
         /\ a = 0 \/ b = 0 => a * b = 0
         /\ a * b \in Int
OBVIOUS

LEMMA TriangleParity ==
  ASSUME NEW ya \in Int, NEW yb \in Int, NEW yc \in Int,
         NEW ab \in Int, NEW bc \in Int, NEW ca \in Int,
         bc * ya + ca * yb + ab * yc = 0, ab + bc + ca > 0,
         ya # 0 \/ yb # 0 \/ yc # 0
  PROVE  LET odd == Passes(ya, yb, ab) <=> (Passes(yb, yc, bc) <=> Passes(yc, ya, ca))
         IN  /\ odd => ab >= 0 /\ bc >= 0 /\ ca >= 0
             /\ ab > 0 /\ bc > 0 /\ ca > 0 => odd
<1> DEFINE u == bc * ya
           v == ca * yb
           w == ab * yc
<1>1. u \in Int /\ v \in Int /\ w \in Int /\ u + v + w = 0
  OBVIOUS
<1>2. /\ (bc > 0 /\ ya > 0 => u > 0) /\ (bc > 0 /\ ya < 0 => u < 0)
      /\ (bc < 0 /\ ya > 0 => u < 0) /\ (bc < 0 /\ ya < 0 => u > 0)
      /\ (bc = 0 \/ ya = 0 => u = 0)
  BY ProductSigns
<1>3. /\ (ca > 0 /\ yb > 0 => v > 0) /\ (ca > 0 /\ yb < 0 => v < 0)
      /\ (ca < 0 /\ yb > 0 => v < 0) /\ (ca < 0 /\ yb < 0 => v > 0)
      /\ (ca = 0 \/ yb = 0 => v = 0)
  BY ProductSigns
<1>4. /\ (ab > 0 /\ yc > 0 => w > 0) /\ (ab > 0 /\ yc < 0 => w < 0)
      /\ (ab < 0 /\ yc > 0 => w < 0) /\ (ab < 0 /\ yc < 0 => w > 0)
      /\ (ab = 0 \/ yc = 0 => w = 0)
  BY ProductSigns
<1> HIDE DEF u, v, w
<1> QED
  BY <1>1, <1>2, <1>3, <1>4 DEF Passes

\* A point on an edge is in the triangle, and one in it on an edge's line on the edge.
LEMMA EdgeOfTriangle ==
  ASSUME NEW xa, NEW ya, NEW xb, NEW yb, NEW xc, NEW yc, NEW ab, NEW bc, NEW ca,
         Corner(xa, ya, xb, yb, xc, yc, ab, bc, ca), ab = 0
  PROVE  Between(xa, 0, xb) /\ Between(ya, 0, yb) <=> bc >= 0 /\ ca >= 0
<1>1. /\ ab \in Int /\ bc \in Int /\ ca \in Int /\ bc + ca > 0
      /\ xa \in Int /\ ya \in Int /\ xb \in Int /\ yb \in Int
      /\ bc * ya + ca * yb = 0 /\ bc * xa + ca * xb = 0
  <2>1. xc \in Int /\ yc \in Int /\ ab * yc = 0 /\ ab * xc = 0
    BY DEF Corner
  <2> QED
    BY <2>1, Weights DEF Corner
<1>2. ASSUME NEW p \in Int, NEW q \in Int, bc * p + ca * q = 0, bc >= 0, ca >= 0
      PROVE  Between(p, 0, q)
  BY <1>1, <1>2, ProductSigns DEF Between
<1>3. ASSUME NEW p \in Int, NEW q \in Int, bc * p + ca * q = 0, Between(p, 0, q),
             bc < 0 \/ ca < 0
      PROVE  p = 0 /\ q = 0
  BY <1>1, <1>3, ProductSigns DEF Between
<1>4. ASSUME Between(xa, 0, xb), Between(ya, 0, yb), bc < 0 \/ ca < 0 PROVE FALSE
  <2>1. xa = 0 /\ xb = 0 /\ ya = 0 /\ yb = 0
    BY <1>1, <1>3, <1>4
  <2>2. xc \in Int /\ yc \in Int /\ bc = xb * yc - xc * yb /\ ca = xc * ya - xa * yc
    BY DEF Corner
  <2> QED
    BY <1>1, <2>1, <2>2
<1> QED
  BY <1>1, <1>2, <1>4

Edge(a, b) == [first |-> a, second |-> b]

LEMMA CornerOf ==
  ASSUME NEW a \in Plane, NEW b \in Plane, NEW c \in Plane, NEW p \in Plane,
         Cross(a, b, c) > 0
  PROVE  Corner(a.x - p.x, a.y - p.y, b.x - p.x, b.y - p.y, c.x - p.x, c.y - p.y,
                Cross(a, b, p), Cross(b, c, p), Cross(c, a, p))
<1>1. /\ a.x \in Int /\ a.y \in Int /\ b.x \in Int /\ b.y \in Int
      /\ c.x \in Int /\ c.y \in Int /\ p.x \in Int /\ p.y \in Int
  BY DEF Plane
<1>2. Cross(a, b, p) + Cross(b, c, p) + Cross(c, a, p) = Cross(a, b, c)
  BY <1>1 DEF Cross
<1>3. /\ Cross(a, b, p) = (a.x - p.x) * (b.y - p.y) - (b.x - p.x) * (a.y - p.y)
      /\ Cross(b, c, p) = (b.x - p.x) * (c.y - p.y) - (c.x - p.x) * (b.y - p.y)
      /\ Cross(c, a, p) = (c.x - p.x) * (a.y - p.y) - (a.x - p.x) * (c.y - p.y)
  BY PassesFacts
<1>4. /\ a.x - p.x \in Int /\ a.y - p.y \in Int /\ b.x - p.x \in Int /\ b.y - p.y \in Int
      /\ c.x - p.x \in Int /\ c.y - p.y \in Int
  BY <1>1
<1>5. Cross(a, b, p) + Cross(b, c, p) + Cross(c, a, p) > 0
  BY <1>2
<1> QED
  BY <1>3, <1>4, <1>5 DEF Corner

\* A triangle that turns left.
LEMMA OnSide ==
  ASSUME NEW a \in Plane, NEW b \in Plane, NEW c \in Plane, NEW p \in Plane,
         Cross(a, b, c) > 0
  PROVE  OnSegment(p, a, b)
           <=> Cross(a, b, p) = 0 /\ Cross(b, c, p) >= 0 /\ Cross(c, a, p) >= 0
<1>1. OnSegment(p, a, b)
        <=> /\ Cross(a, b, p) = 0
            /\ Between(a.x - p.x, 0, b.x - p.x) /\ Between(a.y - p.y, 0, b.y - p.y)
  BY PassesFacts
<1>2. Cross(a, b, p) = 0 =>
        (Between(a.x - p.x, 0, b.x - p.x) /\ Between(a.y - p.y, 0, b.y - p.y)
           <=> Cross(b, c, p) >= 0 /\ Cross(c, a, p) >= 0)
  BY CornerOf, EdgeOfTriangle
<1> QED
  BY <1>1, <1>2

LEMMA TriangleFacts ==
  ASSUME NEW a \in Plane, NEW b \in Plane, NEW c \in Plane, NEW p \in Plane,
         Cross(a, b, c) > 0
  PROVE  LET ab == Cross(a, b, p)   bc == Cross(b, c, p)   ca == Cross(c, a, p)
             odd == PassesRightOf(Edge(a, b), p)
                      <=> (PassesRightOf(Edge(b, c), p) <=> PassesRightOf(Edge(c, a), p))
         IN  /\ ab \in Int /\ bc \in Int /\ ca \in Int
             /\ odd => InTriangle(p, a, b, c)
             /\ ab > 0 /\ bc > 0 /\ ca > 0 => odd
             /\ InTriangle(p, a, b, c) <=> ab >= 0 /\ bc >= 0 /\ ca >= 0
             /\ OnSegment(p, a, b) <=> ab = 0 /\ bc >= 0 /\ ca >= 0
             /\ OnSegment(p, b, c) <=> bc = 0 /\ ab >= 0 /\ ca >= 0
             /\ OnSegment(p, c, a) <=> ca = 0 /\ ab >= 0 /\ bc >= 0
<1> DEFINE ab == Cross(a, b, p)
           bc == Cross(b, c, p)
           ca == Cross(c, a, p)
           ya == a.y - p.y
           yb == b.y - p.y
           yc == c.y - p.y
           odd == Passes(ya, yb, ab) <=> (Passes(yb, yc, bc) <=> Passes(yc, ya, ca))
<1>1. Corner(a.x - p.x, ya, b.x - p.x, yb, c.x - p.x, yc, ab, bc, ca)
  BY CornerOf
<1>2. /\ ab \in Int /\ bc \in Int /\ ca \in Int
      /\ bc * ya + ca * yb + ab * yc = 0
      /\ ya # 0 \/ yb # 0 \/ yc # 0
  BY <1>1, Weights
<1>3. ab + bc + ca > 0 /\ ya \in Int /\ yb \in Int /\ yc \in Int
  BY <1>1 DEF Corner
<1>4. InTriangle(p, a, b, c) <=> ab >= 0 /\ bc >= 0 /\ ca >= 0
  <2>1. InTriangle(p, a, b, c)
          <=> (ab >= 0 /\ bc >= 0 /\ ca >= 0) \/ (ab <= 0 /\ bc <= 0 /\ ca <= 0)
    BY DEF InTriangle
  <2> HIDE DEF ab, bc, ca
  <2> QED
    BY <1>2, <1>3, <2>1
<1>5. /\ PassesRightOf(Edge(a, b), p) <=> Passes(ya, yb, ab)
      /\ PassesRightOf(Edge(b, c), p) <=> Passes(yb, yc, bc)
      /\ PassesRightOf(Edge(c, a), p) <=> Passes(yc, ya, ca)
  BY PassesFacts DEF Edge
<1>6. Cross(b, c, a) > 0 /\ Cross(c, a, b) > 0
  <2>1. /\ a.x \in Int /\ a.y \in Int /\ b.x \in Int /\ b.y \in Int
        /\ c.x \in Int /\ c.y \in Int
    BY DEF Plane
  <2>2. Cross(b, c, a) = Cross(a, b, c) /\ Cross(c, a, b) = Cross(a, b, c)
    BY <2>1 DEF Cross
  <2> QED
    BY <2>2
<1>7. /\ OnSegment(p, a, b) <=> ab = 0 /\ bc >= 0 /\ ca >= 0
      /\ OnSegment(p, b, c) <=> bc = 0 /\ ca >= 0 /\ ab >= 0
      /\ OnSegment(p, c, a) <=> ca = 0 /\ ab >= 0 /\ bc >= 0
  BY <1>6, OnSide
<1> HIDE DEF ab, bc, ca, ya, yb, yc
<1>8. /\ odd => ab >= 0 /\ bc >= 0 /\ ca >= 0
      /\ ab > 0 /\ bc > 0 /\ ca > 0 => odd
  BY <1>2, <1>3, TriangleParity
<1>9. /\ odd => InTriangle(p, a, b, c)
      /\ InTriangle(p, a, b, c) <=> ab >= 0 /\ bc >= 0 /\ ca >= 0
  BY <1>4, <1>8
<1> QED
  BY <1>2, <1>5, <1>7, <1>8, <1>9 DEF ab, bc, ca

\* An edge passes to the right of a point whichever way it is taken.
LEMMA EdgeReversed ==
  ASSUME NEW a \in Plane, NEW b \in Plane, NEW p \in Plane
  PROVE  /\ PassesRightOf(Edge(a, b), p) <=> PassesRightOf(Edge(b, a), p)
         /\ OnSegment(p, a, b) <=> OnSegment(p, b, a)
         /\ Cross(a, b, p) = 0 => ~ PassesRightOf(Edge(a, b), p)
<1> DEFINE c == Cross(a, b, p)
<1>1. a.y - p.y \in Int /\ b.y - p.y \in Int /\ a.x - p.x \in Int /\ b.x - p.x \in Int
  BY DEF Plane
<1>2. /\ c \in Int /\ Cross(b, a, p) = - c
      /\ PassesRightOf(Edge(a, b), p) <=> Passes(a.y - p.y, b.y - p.y, c)
      /\ PassesRightOf(Edge(b, a), p) <=> Passes(b.y - p.y, a.y - p.y, - c)
  BY PassesFacts DEF Edge
<1>3. /\ OnSegment(p, a, b)
           <=> /\ c = 0
               /\ Between(a.x - p.x, 0, b.x - p.x) /\ Between(a.y - p.y, 0, b.y - p.y)
      /\ OnSegment(p, b, a)
           <=> /\ Cross(b, a, p) = 0
               /\ Between(b.x - p.x, 0, a.x - p.x) /\ Between(b.y - p.y, 0, a.y - p.y)
  BY PassesFacts
<1> HIDE DEF c
<1>4. OnSegment(p, a, b) <=> OnSegment(p, b, a)
  BY <1>1, <1>2, <1>3 DEF Between
<1>5. PassesRightOf(Edge(a, b), p) <=> PassesRightOf(Edge(b, a), p)
  BY <1>1, <1>2 DEF Passes
<1>6. c = 0 => ~ PassesRightOf(Edge(a, b), p)
  BY <1>1, <1>2 DEF Passes
<1> QED
  BY <1>4, <1>5, <1>6 DEF c

LEMMA CrossBack ==
  ASSUME NEW a \in Plane, NEW b \in Plane, NEW p \in Plane, Cross(a, b, p) = 0
  PROVE  Cross(b, a, p) = 0
<1>1. /\ a.x \in Int /\ a.y \in Int /\ b.x \in Int /\ b.y \in Int
      /\ p.x \in Int /\ p.y \in Int
  BY DEF Plane
<1>2. (b.x - a.x) * (p.y - a.y) - (b.y - a.y) * (p.x - a.x) = 0
  BY DEF Cross
<1>3. (a.x - b.x) * (p.y - b.y) - (a.y - b.y) * (p.x - b.x) = 0
  BY <1>1, <1>2
<1> QED
  BY <1>3 DEF Cross

\* A point strictly inside both triangles at a diagonal is on it, and one on the
\* diagonal has one pair of edges to its right and not the other.
LEMMA DiagonalParity ==
  ASSUME NEW a \in Plane, NEW b \in Plane, NEW c \in Plane, NEW d \in Plane, NEW p \in Plane,
         Cross(a, b, c) > 0, Cross(a, c, d) > 0, Cross(a, c, p) = 0,
         Cross(a, b, p) > 0, Cross(b, c, p) > 0, Cross(c, d, p) > 0, Cross(d, a, p) > 0
  PROVE  (PassesRightOf(Edge(a, b), p) <=> PassesRightOf(Edge(b, c), p))
           <=> ~ (PassesRightOf(Edge(c, d), p) <=> PassesRightOf(Edge(d, a), p))
<1> DEFINE ab == Cross(a, b, p)
           bc == Cross(b, c, p)
           cd == Cross(c, d, p)
           da == Cross(d, a, p)
           xa == a.x - p.x
           ya == a.y - p.y
           xb == b.x - p.x
           yb == b.y - p.y
           xc == c.x - p.x
           yc == c.y - p.y
           xd == d.x - p.x
           yd == d.y - p.y
<1>1. /\ xa \in Int /\ ya \in Int /\ xb \in Int /\ yb \in Int
      /\ xc \in Int /\ yc \in Int /\ xd \in Int /\ yd \in Int
  BY DEF Plane
<1>2. /\ ab \in Int /\ bc \in Int /\ cd \in Int /\ da \in Int
      /\ ab > 0 /\ bc > 0 /\ cd > 0 /\ da > 0
      /\ ab = xa * yb - xb * ya /\ da = xd * ya - xa * yd
      /\ Cross(c, a, p) = 0
  <2>1. ab = xa * yb - xb * ya
    BY PassesFacts
  <2>2. da = xd * ya - xa * yd
    BY PassesFacts
  <2>3. ab \in Int
    BY PassesFacts
  <2>4. bc \in Int
    BY PassesFacts
  <2>5. cd \in Int
    BY PassesFacts
  <2>6. da \in Int
    BY PassesFacts
  <2>7. Cross(c, a, p) = 0
    BY CrossBack
  <2> QED
    BY <2>1, <2>2, <2>3, <2>4, <2>5, <2>6, <2>7
<1>3. bc * ya + 0 * yb + ab * yc = 0
  BY <1>2, CornerOf, Weights
<1>4. cd * ya + da * yc + 0 * yd = 0
  BY <1>2, CornerOf, Weights
<1>5. /\ PassesRightOf(Edge(a, b), p) <=> Passes(ya, yb, ab)
      /\ PassesRightOf(Edge(b, c), p) <=> Passes(yb, yc, bc)
      /\ PassesRightOf(Edge(c, d), p) <=> Passes(yc, yd, cd)
      /\ PassesRightOf(Edge(d, a), p) <=> Passes(yd, ya, da)
  BY PassesFacts DEF Edge
<1> HIDE DEF ab, bc, cd, da, xa, ya, xb, yb, xc, yc, xd, yd
<1>6. \/ ya > 0 /\ yc < 0
      \/ ya < 0 /\ yc > 0
      \/ ya = 0 /\ yc = 0
  <2>1. bc * ya + ab * yc = 0
    BY <1>1, <1>2, <1>3
  <2> QED
    BY <1>1, <1>2, <2>1, ProductSigns
<1>7. ASSUME ya = 0 PROVE (yb > 0 /\ yd < 0) \/ (yb < 0 /\ yd > 0)
  <2>1. xa * yb > 0 /\ xa * yd < 0
    BY <1>1, <1>2, <1>7
  <2> QED
    BY <1>1, <2>1, ProductSigns
<1>8. CASE ya = 0 /\ yc = 0
  BY <1>1, <1>2, <1>5, <1>7, <1>8 DEF Passes
<1>9. CASE ya > 0 /\ yc < 0
  BY <1>1, <1>2, <1>5, <1>9 DEF Passes
<1>10. CASE ya < 0 /\ yc > 0
  BY <1>1, <1>2, <1>5, <1>10 DEF Passes
<1> QED
  BY <1>6, <1>8, <1>9, <1>10

\* Of four edges an odd number passes to the right.
OddOf(e, f, g, h, p) ==
  ~ (PassesRightOf(e, p)
       <=> (PassesRightOf(f, p) <=> (PassesRightOf(g, p) <=> PassesRightOf(h, p))))

LEMMA LeftQuadrilateral ==
  ASSUME NEW a \in Plane, NEW b \in Plane, NEW c \in Plane, NEW d \in Plane, NEW p \in Plane,
         Cross(a, b, c) > 0, Cross(a, c, d) > 0
  PROVE  \/ OnSegment(p, a, b) \/ OnSegment(p, b, c)
         \/ OnSegment(p, c, d) \/ OnSegment(p, d, a)
         \/ OddOf(Edge(a, b), Edge(b, c), Edge(c, d), Edge(d, a), p)
         <=> InTriangle(p, a, b, c) \/ InTriangle(p, a, c, d)
<1> DEFINE ab == Cross(a, b, p)
           bc == Cross(b, c, p)
           ca == Cross(c, a, p)
           ac == Cross(a, c, p)
           cd == Cross(c, d, p)
           da == Cross(d, a, p)
           border == \/ OnSegment(p, a, b) \/ OnSegment(p, b, c)
                     \/ OnSegment(p, c, d) \/ OnSegment(p, d, a)
           first == PassesRightOf(Edge(a, b), p)
                      <=> (PassesRightOf(Edge(b, c), p) <=> PassesRightOf(Edge(c, a), p))
           second == PassesRightOf(Edge(a, c), p)
                       <=> (PassesRightOf(Edge(c, d), p) <=> PassesRightOf(Edge(d, a), p))
           odd == OddOf(Edge(a, b), Edge(b, c), Edge(c, d), Edge(d, a), p)
<1>1. /\ ab \in Int /\ bc \in Int /\ ca \in Int
      /\ first => InTriangle(p, a, b, c)
      /\ ab > 0 /\ bc > 0 /\ ca > 0 => first
      /\ InTriangle(p, a, b, c) <=> ab >= 0 /\ bc >= 0 /\ ca >= 0
      /\ OnSegment(p, a, b) <=> ab = 0 /\ bc >= 0 /\ ca >= 0
      /\ OnSegment(p, b, c) <=> bc = 0 /\ ab >= 0 /\ ca >= 0
      /\ OnSegment(p, c, a) <=> ca = 0 /\ ab >= 0 /\ bc >= 0
  BY TriangleFacts
<1>2. /\ ac \in Int /\ cd \in Int /\ da \in Int
      /\ second => InTriangle(p, a, c, d)
      /\ ac > 0 /\ cd > 0 /\ da > 0 => second
      /\ InTriangle(p, a, c, d) <=> ac >= 0 /\ cd >= 0 /\ da >= 0
      /\ OnSegment(p, a, c) <=> ac = 0 /\ cd >= 0 /\ da >= 0
      /\ OnSegment(p, c, d) <=> cd = 0 /\ ac >= 0 /\ da >= 0
      /\ OnSegment(p, d, a) <=> da = 0 /\ ac >= 0 /\ cd >= 0
  BY TriangleFacts
<1>3. ac = - ca /\ (OnSegment(p, c, a) <=> OnSegment(p, a, c))
  <2>1. ac = - ca
    BY PassesFacts
  <2>2. OnSegment(p, c, a) <=> OnSegment(p, a, c)
    BY EdgeReversed
  <2> QED
    BY <2>1, <2>2
<1>4. odd <=> ~ (first <=> second)
  <2>1. PassesRightOf(Edge(c, a), p) <=> PassesRightOf(Edge(a, c), p)
    BY EdgeReversed
  <2> QED
    BY <2>1 DEF OddOf
<1>5. CASE border
  BY <1>1, <1>2, <1>5
<1>6. CASE ~ border /\ OnSegment(p, a, c)
  <2>1. ab > 0 /\ bc > 0 /\ cd > 0 /\ da > 0 /\ ca = 0 /\ ac = 0
    BY <1>1, <1>2, <1>3, <1>6
  <2>2. (PassesRightOf(Edge(a, b), p) <=> PassesRightOf(Edge(b, c), p))
          <=> ~ (PassesRightOf(Edge(c, d), p) <=> PassesRightOf(Edge(d, a), p))
    BY <2>1, DiagonalParity
  <2>3. odd
    BY <2>2 DEF OddOf
  <2>4. InTriangle(p, a, b, c)
    BY <1>1, <2>1
  <2> QED
    BY <2>3, <2>4
<1>7. CASE ~ border /\ ~ OnSegment(p, a, c)
  <2>1. InTriangle(p, a, b, c) => ab > 0 /\ bc > 0 /\ ca > 0
    BY <1>1, <1>3, <1>7
  <2>2. InTriangle(p, a, c, d) => ac > 0 /\ cd > 0 /\ da > 0
    BY <1>2, <1>7
  <2>3. (first <=> InTriangle(p, a, b, c)) /\ (second <=> InTriangle(p, a, c, d))
    BY <1>1, <1>2, <2>1, <2>2
  <2>4. ~ (InTriangle(p, a, b, c) /\ InTriangle(p, a, c, d))
    BY <1>1, <1>3, <2>1, <2>2
  <2> QED
    BY <1>4, <1>7, <2>3, <2>4
<1> QED
  BY <1>5, <1>6, <1>7

\* The number of passing edges, one edge after the other.
One(x, T) == IF x \in T THEN 1 ELSE 0
Among(S, T) == Cardinality(S \cap T)

LEMMA OneEdgeMore ==
  ASSUME NEW S, IsFiniteSet(S), NEW e, e \notin S, NEW T
  PROVE  /\ IsFiniteSet(S \cup {e})
         /\ Among(S \cup {e}, T) = Among(S, T) + One(e, T)
<1>1. IsFiniteSet(S \cap T)
  BY FS_Subset
<1>2. Cardinality(S \cap T) \in Nat
  BY <1>1, FS_CardinalityType
<1>3. IsFiniteSet(S \cup {e})
  BY FS_AddElement
<1>4. CASE e \in T
  <2>1. (S \cup {e}) \cap T = (S \cap T) \cup {e} /\ e \notin S \cap T
    BY <1>4
  <2>2. Cardinality((S \cap T) \cup {e}) = Cardinality(S \cap T) + 1
    BY <1>1, <2>1, FS_AddElement
  <2>3. One(e, T) = 1
    BY <1>4 DEF One
  <2> QED
    BY <1>2, <1>3, <2>1, <2>2, <2>3 DEF Among
<1>5. CASE e \notin T
  <2>1. (S \cup {e}) \cap T = S \cap T
    BY <1>5
  <2>2. One(e, T) = 0
    BY <1>5 DEF One
  <2>3. Among(S \cup {e}, T) = Among(S, T) /\ Among(S, T) \in Nat
    BY <1>2, <2>1 DEF Among
  <2> QED
    BY <1>3, <2>2, <2>3
<1> QED
  BY <1>4, <1>5

LEMMA FourEdges ==
  ASSUME NEW e, NEW f, NEW g, NEW h, e # f, e # g, e # h, f # g, f # h, g # h, NEW T
  PROVE  Cardinality({e, f, g, h} \cap T) % 2 = 1
           <=> ~ (e \in T <=> (f \in T <=> (g \in T <=> h \in T)))
<1>1. {} \cap T = {} /\ IsFiniteSet({}) /\ Among({}, T) = 0
  BY FS_EmptySet DEF Among
<1>2. IsFiniteSet({e}) /\ Among({e}, T) = One(e, T)
  <2>1. {} \cup {e} = {e} /\ e \notin {}
    OBVIOUS
  <2>2. IsFiniteSet({} \cup {e}) /\ Among({} \cup {e}, T) = Among({}, T) + One(e, T)
    BY <1>1, <2>1, OneEdgeMore
  <2> QED
    BY <1>1, <2>1, <2>2 DEF One
<1>3. IsFiniteSet({e, f}) /\ Among({e, f}, T) = Among({e}, T) + One(f, T)
  <2>1. {e} \cup {f} = {e, f} /\ f \notin {e}
    OBVIOUS
  <2>2. IsFiniteSet({e} \cup {f}) /\ Among({e} \cup {f}, T) = Among({e}, T) + One(f, T)
    BY <1>2, <2>1, OneEdgeMore
  <2> QED
    BY <2>1, <2>2
<1>4. IsFiniteSet({e, f, g}) /\ Among({e, f, g}, T) = Among({e, f}, T) + One(g, T)
  <2>1. {e, f} \cup {g} = {e, f, g} /\ g \notin {e, f}
    OBVIOUS
  <2>2. /\ IsFiniteSet({e, f} \cup {g})
        /\ Among({e, f} \cup {g}, T) = Among({e, f}, T) + One(g, T)
    BY <1>3, <2>1, OneEdgeMore
  <2> QED
    BY <2>1, <2>2
<1>5. Among({e, f, g, h}, T) = Among({e, f, g}, T) + One(h, T)
  <2> DEFINE three == {e, f, g}
  <2>1. three \cup {h} = {e, f, g, h} /\ h \notin three
    OBVIOUS
  <2>2. IsFiniteSet(three)
    BY <1>4
  <2> HIDE DEF three
  <2>3. Among(three \cup {h}, T) = Among(three, T) + One(h, T)
    BY <2>1, <2>2, OneEdgeMore
  <2> QED
    BY <2>1, <2>3 DEF three
<1>6. Among({e, f, g, h}, T) = One(e, T) + One(f, T) + One(g, T) + One(h, T)
  BY <1>2, <1>3, <1>4, <1>5
<1>7. Among({e, f, g, h}, T) % 2 = 1 <=> ~ (e \in T <=> (f \in T <=> (g \in T <=> h \in T)))
  BY <1>6 DEF One
<1> QED
  BY <1>7 DEF Among

LEMMA InQuadrilateral ==
  ASSUME NEW region \in [1 .. 4 -> Plane], NEW p \in Plane,
         \A i, j \in 1 .. 4 : i # j => region[i] # region[j]
  PROVE  LET a == region[1]   b == region[2]   c == region[3]   d == region[4]
         IN  InPolygon(p, region)
               <=> \/ OnSegment(p, a, b) \/ OnSegment(p, b, c)
                   \/ OnSegment(p, c, d) \/ OnSegment(p, d, a)
                   \/ OddOf(Edge(a, b), Edge(b, c), Edge(c, d), Edge(d, a), p)
<1> DEFINE a == region[1]
           b == region[2]
           c == region[3]
           d == region[4]
           e == Edge(a, b)
           f == Edge(b, c)
           g == Edge(c, d)
           h == Edge(d, a)
           T == {x \in Edges(region) : PassesRightOf(x, p)}
<1>1. region \in Seq(Plane) /\ Len(region) = 4
  <2>1. region \in Seq(Plane)
    <3>1. region \in UNION {[1 .. n -> Plane] : n \in Nat}
      OBVIOUS
    <3> QED
      BY <3>1, SeqDef
  <2>2. DOMAIN region = 1 .. 4 /\ DOMAIN region = 1 .. Len(region) /\ Len(region) \in Nat
    BY <2>1, LenProperties
  <2> QED
    BY <2>1, <2>2
<1>2. Edges(region) = {e, f, g, h}
  <2>1. Edges(region) = {Edge(region[IF i = 1 THEN 4 ELSE i - 1], region[i]) : i \in 1 .. 4}
    BY <1>1 DEF Edges, Edge
  <2>2. 1 .. 4 = {1, 2, 3, 4}
    OBVIOUS
  <2> QED
    BY <2>1, <2>2
<1>3. a # b /\ a # c /\ a # d /\ b # c /\ b # d /\ c # d
  OBVIOUS
<1>4. e # f /\ e # g /\ e # h /\ f # g /\ f # h /\ g # h
  BY <1>3 DEF Edge
<1>5. {e, f, g, h} \cap T = T
  BY <1>2
<1>6. Cardinality(T) % 2 = 1
        <=> ~ (e \in T <=> (f \in T <=> (g \in T <=> h \in T)))
  <2> HIDE DEF e, f, g, h, T
  <2> QED
    BY <1>4, <1>5, FourEdges
<1>7. /\ e \in T <=> PassesRightOf(e, p)
      /\ f \in T <=> PassesRightOf(f, p)
      /\ g \in T <=> PassesRightOf(g, p)
      /\ h \in T <=> PassesRightOf(h, p)
  BY <1>2
<1>8. (\E x \in Edges(region) : OnSegment(p, x.first, x.second))
        <=> \/ OnSegment(p, a, b) \/ OnSegment(p, b, c)
            \/ OnSegment(p, c, d) \/ OnSegment(p, d, a)
  <2>1. /\ e.first = a /\ e.second = b /\ f.first = b /\ f.second = c
        /\ g.first = c /\ g.second = d /\ h.first = d /\ h.second = a
    BY DEF Edge
  <2> HIDE DEF e, f, g, h
  <2> QED
    BY <1>2, <2>1
<1>9. InPolygon(p, region)
        <=> \/ \E x \in Edges(region) : OnSegment(p, x.first, x.second)
            \/ Cardinality(T) % 2 = 1
  BY DEF InPolygon
<1>10. OddOf(e, f, g, h, p)
         <=> ~ (e \in T <=> (f \in T <=> (g \in T <=> h \in T)))
  BY <1>7 DEF OddOf
<1> QED
  BY <1>6, <1>8, <1>9, <1>10

\* point_in_polygon of any point and any quadrilateral that a diagonal cuts in two.
LEMMA InsideIsInTriangles ==
  ASSUME NEW region \in [1 .. 4 -> Plane], NEW p \in Plane,
         \A i, j \in 1 .. 4 : i # j => region[i] # region[j],
         Cross(region[1], region[3], region[2]) * Cross(region[1], region[3], region[4]) < 0
  PROVE  InPolygon(p, region)
           <=> \/ InTriangle(p, region[1], region[2], region[3])
               \/ InTriangle(p, region[1], region[3], region[4])
<1> DEFINE a == region[1]
           b == region[2]
           c == region[3]
           d == region[4]
           u == Cross(a, c, b)
           v == Cross(a, c, d)
<1>1. a \in Plane /\ b \in Plane /\ c \in Plane /\ d \in Plane
  OBVIOUS
<1>2. InPolygon(p, region)
        <=> \/ OnSegment(p, a, b) \/ OnSegment(p, b, c)
            \/ OnSegment(p, c, d) \/ OnSegment(p, d, a)
            \/ OddOf(Edge(a, b), Edge(b, c), Edge(c, d), Edge(d, a), p)
  BY InQuadrilateral
<1>3. u \in Int /\ v \in Int /\ u * v < 0
  <2>1. u \in Int /\ v \in Int
    BY <1>1 DEF Cross, Plane
  <2> QED
    BY <2>1
<1> HIDE DEF a, b, c, d
<1>4. Cross(a, b, c) = - u /\ Cross(a, d, c) = - v
  BY <1>1 DEF Cross, Plane
<1>5. (u < 0 /\ v > 0) \/ (u > 0 /\ v < 0)
  <2> HIDE DEF u, v
  <2> QED
    BY <1>3, ProductSigns
<1>6. CASE u < 0 /\ v > 0
  <2>1. Cross(a, b, c) > 0 /\ Cross(a, c, d) > 0
    BY <1>3, <1>4, <1>6
  <2>2. InPolygon(p, region) <=> InTriangle(p, a, b, c) \/ InTriangle(p, a, c, d)
    BY <1>1, <1>2, <2>1, LeftQuadrilateral
  <2> QED
    BY <2>2 DEF a, b, c, d
<1>7. CASE u > 0 /\ v < 0
  <2>1. Cross(a, d, c) > 0 /\ Cross(a, c, b) > 0
    BY <1>3, <1>4, <1>7
  <2>2. \/ OnSegment(p, a, d) \/ OnSegment(p, d, c) \/ OnSegment(p, c, b) \/ OnSegment(p, b, a)
        \/ OddOf(Edge(a, d), Edge(d, c), Edge(c, b), Edge(b, a), p)
        <=> InTriangle(p, a, d, c) \/ InTriangle(p, a, c, b)
    BY <1>1, <2>1, LeftQuadrilateral
  <2>3. /\ OnSegment(p, a, d) <=> OnSegment(p, d, a)
        /\ OnSegment(p, d, c) <=> OnSegment(p, c, d)
        /\ OnSegment(p, c, b) <=> OnSegment(p, b, c)
        /\ OnSegment(p, b, a) <=> OnSegment(p, a, b)
    BY <1>1, EdgeReversed
  <2>4. OddOf(Edge(a, d), Edge(d, c), Edge(c, b), Edge(b, a), p)
          <=> OddOf(Edge(a, b), Edge(b, c), Edge(c, d), Edge(d, a), p)
    <3>1. /\ PassesRightOf(Edge(a, d), p) <=> PassesRightOf(Edge(d, a), p)
          /\ PassesRightOf(Edge(d, c), p) <=> PassesRightOf(Edge(c, d), p)
          /\ PassesRightOf(Edge(c, b), p) <=> PassesRightOf(Edge(b, c), p)
          /\ PassesRightOf(Edge(b, a), p) <=> PassesRightOf(Edge(a, b), p)
      BY <1>1, EdgeReversed
    <3> QED
      BY <3>1 DEF OddOf
  <2>5. ASSUME NEW x \in Plane, NEW y \in Plane, NEW z \in Plane
        PROVE  InTriangle(p, x, y, z) <=> InTriangle(p, x, z, y)
    <3>1. /\ Cross(x, y, p) \in Int /\ Cross(y, x, p) = - Cross(x, y, p)
          /\ Cross(y, z, p) \in Int /\ Cross(z, y, p) = - Cross(y, z, p)
          /\ Cross(z, x, p) \in Int /\ Cross(x, z, p) = - Cross(z, x, p)
      BY PassesFacts
    <3> QED
      BY <3>1 DEF InTriangle
  <2>6. InPolygon(p, region) <=> InTriangle(p, a, b, c) \/ InTriangle(p, a, c, d)
    BY <1>1, <1>2, <2>2, <2>3, <2>4, <2>5
  <2> QED
    BY <2>6 DEF a, b, c, d
<1> QED
  BY <1>5, <1>6, <1>7

-----------------------------------------------------------------------------
(* Line rules: what a path says of its sides and its stays.                *)

\* Between two sides, segments_intersect asks only where the line's ends are.
LEMMA WayMeetsLine ==
  ASSUME NEW p \in LinePlaces, NEW q \in LinePlaces,
         Line!SideOf(p) # 0, Line!SideOf(q) = - Line!SideOf(p)
  PROVE  Line!SegmentsIntersect(p, q, LineStart, LineEnd) <=> Line!MeetsLine(p, q)
<1> DEFINE a == LineStart
           b == LineEnd
           u == Cross(a, b, p)
           v == Cross(a, b, q)
           d == Cross(p, q, [x |-> p.x + b.x - a.x, y |-> p.y + b.y - a.y])
<1>1. /\ p \in [x : Int, y : Int] /\ q \in [x : Int, y : Int]
      /\ a \in [x : Int, y : Int] /\ b \in [x : Int, y : Int]
  BY RulesAssumption DEF Line!LineAssumption
<1> HIDE DEF a, b
<1>2. u \in Int /\ v \in Int /\ d = u - v
  BY <1>1 DEF Cross
<1>3. Line!SideOf(p) = IF u > SideEpsilon THEN 1 ELSE IF u < - SideEpsilon THEN -1 ELSE 0
  BY DEF Line!SideOf, Line!Cross, Cross, a, b
<1>4. Line!SideOf(q) = IF v > SideEpsilon THEN 1 ELSE IF v < - SideEpsilon THEN -1 ELSE 0
  BY DEF Line!SideOf, Line!Cross, Cross, a, b
<1>5. (u > 0 /\ v < 0) \/ (u < 0 /\ v > 0)
  BY <1>2, <1>3, <1>4, LineConstants
<1>6. d # 0 /\ u * v <= 0
  <2>1. CASE u > 0 /\ v < 0
    BY <1>2, <2>1
  <2>2. CASE u < 0 /\ v > 0
    BY <1>2, <2>2
  <2> QED
    BY <1>5, <2>1, <2>2
<1>7. SegmentsIntersect(p, q, a, b) <=> Cross(p, q, a) * Cross(p, q, b) <= 0
  <2> HIDE DEF u, v, d
  <2>1. /\ d = Cross(p, q, [x |-> p.x + b.x - a.x, y |-> p.y + b.y - a.y])
        /\ u = Cross(a, b, p) /\ v = Cross(a, b, q)
    BY DEF u, v, d
  <2> QED
    BY <1>1, <1>6, <2>1, SegmentsSeparate DEF Plane
<1>8. Line!SegmentsIntersect(p, q, a, b) <=> SegmentsIntersect(p, q, a, b)
  BY DEF Line!SegmentsIntersect, SegmentsIntersect, Line!Fraction, Fraction
<1>9. Line!MeetsLine(p, q) <=> Cross(p, q, a) * Cross(p, q, b) <= 0
  BY DEF Line!MeetsLine, Line!Cross, Cross, a, b
<1> QED
  BY <1>7, <1>8, <1>9 DEF a, b

LEMMA SideFacts ==
  ASSUME NEW p
  PROVE  Line!SideOf(p) \in {-1, 0, 1}
BY DEF Line!SideOf

\* A path and one observation more.
LEMMA PathGrows ==
  ASSUME NEW s \in Seq(Observations), NEW o \in Observations
  PROVE  /\ Append(s, o) \in Seq(Observations) /\ Len(s) \in Nat
         /\ Len(Append(s, o)) = Len(s) + 1
         /\ \A k \in 1 .. Len(s) : Append(s, o)[k] = s[k] /\ s[k] \in Observations
         /\ Append(s, o)[Len(s) + 1] = o
OBVIOUS

\* What a path says of its observations is what any longer one says of them.
LEMMA PrefixSays ==
  ASSUME NEW s, NEW z, NEW n \in Nat, \A k \in 1 .. n : z[k] = s[k]
  PROVE  /\ \A side : \A i \in Nat \ {0}, j \in 0 .. n :
              Line!Stay(z, i, j, side) <=> Line!Stay(s, i, j, side)
         /\ \A side : \A j \in 1 .. n : Line!StayedAt(z, j, side) <=> Line!StayedAt(s, j, side)
         /\ \A side : Line!CameFrom(z, n + 1, side) <=> Line!CameFrom(s, n + 1, side)
         /\ \A side : \A k \in 1 .. n : Departs(z, k, side) <=> Departs(s, k, side)
<1>1. ASSUME NEW i \in Nat \ {0}, NEW j \in 0 .. n, NEW side
      PROVE  Line!Stay(z, i, j, side) <=> Line!Stay(s, i, j, side)
  <2>1. \A k \in i .. j : z[k] = s[k]
    OBVIOUS
  <2> QED
    BY <2>1 DEF Line!Stay
<1>2. ASSUME NEW j \in 1 .. n, NEW side
      PROVE  Line!StayedAt(z, j, side) <=> Line!StayedAt(s, j, side)
  <2>1. \A i \in 1 .. j : Line!Stay(z, i, j, side) <=> Line!Stay(s, i, j, side)
    BY <1>1
  <2>2. \A i \in 1 .. j : z[j].pts - z[i].pts = s[j].pts - s[i].pts
    OBVIOUS
  <2> QED
    BY <2>1, <2>2 DEF Line!StayedAt
<1>3. ASSUME NEW side
      PROVE  Line!CameFrom(z, n + 1, side) <=> Line!CameFrom(s, n + 1, side)
  <2>1. n + 1 - 1 = n /\ - side = - side
    OBVIOUS
  <2>2. \A j \in 1 .. n : Line!StayedAt(z, j, side) <=> Line!StayedAt(s, j, side)
    BY <1>2
  <2>3. \A k \in 1 .. n : Line!StayedAt(z, k, - side) <=> Line!StayedAt(s, k, - side)
    BY <1>2
  <2> QED
    BY <2>1, <2>2, <2>3 DEF Line!CameFrom
<1>4. ASSUME NEW k \in 1 .. n, NEW side
      PROVE  Departs(z, k, side) <=> Departs(s, k, side)
  BY <1>2 DEF Departs
<1> QED
  BY <1>1, <1>2, <1>3, <1>4

\* A track that has stayed on a side is on it.
LEMMA StayedThere ==
  ASSUME NEW s, NEW j \in Nat \ {0}, NEW side, Line!StayedAt(s, j, side)
  PROVE  Line!SideOf(s[j].place) = side
BY DEF Line!StayedAt, Line!Stay

\* Where a track came from, one observation later.
LEMMA CameFromNext ==
  ASSUME NEW s, NEW n \in Nat \ {0}, NEW side \in {-1, 1}
  PROVE  Line!CameFrom(s, n + 1, side)
           <=> \/ Line!StayedAt(s, n, side)
               \/ Line!CameFrom(s, n, side) /\ ~ Line!StayedAt(s, n, - side)
<1>1. n + 1 - 1 = n
  OBVIOUS
<1>2. ASSUME Line!CameFrom(s, n + 1, side), ~ Line!StayedAt(s, n, side)
      PROVE  Line!CameFrom(s, n, side) /\ ~ Line!StayedAt(s, n, - side)
  <2>1. PICK j \in 1 .. n :
          Line!StayedAt(s, j, side) /\ \A k \in j + 1 .. n : ~ Line!StayedAt(s, k, - side)
    BY <1>1, <1>2 DEF Line!CameFrom
  <2>2. j # n
    BY <1>2, <2>1
  <2>3. j \in 1 .. n - 1 /\ n \in j + 1 .. n /\ \A k \in j + 1 .. n - 1 : k \in j + 1 .. n
    BY <2>2
  <2> QED
    BY <2>1, <2>3 DEF Line!CameFrom
<1>3. ASSUME Line!StayedAt(s, n, side)
      PROVE  Line!CameFrom(s, n + 1, side)
  <2>1. n \in 1 .. n /\ n + 1 .. n = {}
    OBVIOUS
  <2> QED
    BY <1>1, <1>3, <2>1 DEF Line!CameFrom
<1>4. ASSUME Line!CameFrom(s, n, side), ~ Line!StayedAt(s, n, - side)
      PROVE  Line!CameFrom(s, n + 1, side)
  <2>1. PICK j \in 1 .. n - 1 :
          /\ Line!StayedAt(s, j, side)
          /\ \A k \in j + 1 .. n - 1 : ~ Line!StayedAt(s, k, - side)
    BY <1>4 DEF Line!CameFrom
  <2>2. j \in 1 .. n /\ \A k \in j + 1 .. n : k = n \/ k \in j + 1 .. n - 1
    OBVIOUS
  <2> QED
    BY <1>1, <1>4, <2>1, <2>2 DEF Line!CameFrom
<1> QED
  BY <1>2, <1>3, <1>4

\* The run that leads up to an observation is the longest stay there is: the track has
\* stayed long enough if that run is.
LEMMA RunStays ==
  ASSUME NEW s \in Seq(Observations), Len(s) > 0, PathTimes(s), rule \in LineRules,
         NEW side, NEW b, RunBegins(s, b, Len(s), side)
  PROVE  Line!StayedAt(s, Len(s), side)
           <=> /\ Len(s) - b + 1 >= ConfirmationFrames
               /\ s[Len(s)].pts - s[b].pts >= rule.confirmation
<1> DEFINE n == Len(s)
<1>1. /\ n \in Nat /\ b \in 1 .. n /\ Line!Stay(s, b, n, side)
      /\ b > 1 => Line!SideOf(s[b - 1].place) # side
      /\ \A k \in 1 .. n : s[k].pts \in Nat
  <2>1. \A k \in 1 .. n : s[k] \in Observations
    OBVIOUS
  <2>2. n \in Nat /\ \A k \in 1 .. n : s[k].pts \in Nat
    BY <2>1 DEF Observations
  <2> QED
    BY <2>2 DEF RunBegins
<1>2. rule.confirmation \in Nat /\ ConfirmationFrames \in Nat
  BY RulesAssumption DEF Line!LineAssumption
<1>3. ASSUME NEW i \in 1 .. n, Line!Stay(s, i, n, side)
      PROVE  b <= i
  <2>1. CASE i < b
    <3>1. b > 1 /\ b - 1 \in i .. n
      BY <1>1, <2>1
    <3> QED
      BY <1>1, <1>3, <3>1 DEF Line!Stay
  <2> QED
    BY <1>1, <2>1
<1>4. ASSUME NEW i \in 1 .. n, b <= i
      PROVE  s[b].pts <= s[i].pts
  BY <1>1, <1>4 DEF PathTimes
<1>5. ASSUME Line!StayedAt(s, n, side)
      PROVE  n - b + 1 >= ConfirmationFrames /\ s[n].pts - s[b].pts >= rule.confirmation
  <2>1. PICK i \in 1 .. n :
          /\ Line!Stay(s, i, n, side)
          /\ n - i + 1 >= ConfirmationFrames /\ s[n].pts - s[i].pts >= rule.confirmation
    BY <1>5 DEF Line!StayedAt
  <2>2. b <= i /\ s[b].pts <= s[i].pts
    BY <1>3, <1>4, <2>1
  <2> HIDE DEF n
  <2>3. s[b].pts \in Nat /\ s[i].pts \in Nat /\ s[n].pts \in Nat
    BY <1>1
  <2> QED
    BY <1>1, <1>2, <2>1, <2>2, <2>3
<1> QED
  BY <1>1, <1>5 DEF Line!StayedAt

\* Where the run that leads up to a new observation begins.
LEMMA RunGrows ==
  ASSUME NEW s \in Seq(Observations), NEW o \in Observations, NEW side,
         Line!SideOf(o.place) = side
  PROVE  /\ \A b : RunBegins(s, b, Len(s), side)
                     => RunBegins(Append(s, o), b, Len(s) + 1, side)
         /\ (Len(s) > 0 => Line!SideOf(s[Len(s)].place) # side)
              => RunBegins(Append(s, o), Len(s) + 1, Len(s) + 1, side)
<1> DEFINE n == Len(s)
           z == Append(s, o)
<1>1. n \in Nat /\ (\A k \in 1 .. n : z[k] = s[k]) /\ z[n + 1] = o
  BY PathGrows
<1> HIDE DEF n, z
<1>2. ASSUME NEW b, RunBegins(s, b, n, side)
      PROVE  RunBegins(z, b, n + 1, side)
  <2>1. /\ b \in 1 .. n /\ Line!Stay(s, b, n, side)
        /\ b > 1 => Line!SideOf(s[b - 1].place) # side
    BY <1>2 DEF RunBegins
  <2>2. b \in 1 .. n + 1 /\ (b > 1 => b - 1 \in 1 .. n)
    BY <1>1, <2>1
  <2>3. ASSUME NEW k \in b .. n + 1
        PROVE  Line!SideOf(z[k].place) = side
    <3>1. k = n + 1 \/ (k \in b .. n /\ k \in 1 .. n)
      BY <1>1, <2>1
    <3> QED
      BY <1>1, <2>1, <3>1 DEF Line!Stay
  <2> QED
    BY <1>1, <2>1, <2>2, <2>3 DEF RunBegins, Line!Stay
<1>3. ASSUME n > 0 => Line!SideOf(s[n].place) # side
      PROVE  RunBegins(z, n + 1, n + 1, side)
  <2>1. n + 1 \in 1 .. n + 1 /\ (\A k \in n + 1 .. n + 1 : k = n + 1) /\ n + 1 - 1 = n
        /\ (n + 1 > 1 => n > 0 /\ n \in 1 .. n)
    BY <1>1
  <2> QED
    BY <1>1, <1>3, <2>1 DEF RunBegins, Line!Stay
<1> QED
  BY <1>2, <1>3 DEF n, z

\* The two ends of the way across.
LEMMA WayEnds ==
  ASSUME NEW s, NEW n \in Nat, NEW d \in 1 .. n, NEW side,
         Departs(s, d, side), \A k \in d + 1 .. n : ~ Departs(s, k, side)
  PROVE  Line!Departure(s, n + 1, side) = d
<1> DEFINE I == {k \in 1 .. n : IF Line!Timed THEN Line!SideOf(s[k].place) = side
                               ELSE Line!StayedAt(s, k, side)}
<1>1. Line!Departure(s, n + 1, side) = Line!LastIn(I)
  <2>1. n + 1 - 1 = n
    OBVIOUS
  <2> QED
    BY <2>1 DEF Line!Departure
<1>2. d \in I /\ I \subseteq 1 .. n
  BY DEF Departs
<1>3. \A k \in I : k <= d
  BY DEF Departs
<1> HIDE DEF I
<1>4. \A i \in I : (\A j \in I : j <= i) => i = d
  BY <1>2, <1>3
<1> QED
  BY <1>1, <1>2, <1>3, <1>4 DEF Line!LastIn

LEMMA RunArrives ==
  ASSUME NEW s, NEW n \in Nat, NEW b, NEW side, RunBegins(s, b, n, side), Line!Timed
  PROVE  Line!Arrival(s, n, side) = b
<1> DEFINE I == {i \in 1 .. n : Line!Stay(s, i, n, side)}
<1>1. Line!Arrival(s, n, side) = Line!FirstIn(I)
  BY DEF Line!Arrival
<1>2. b \in I /\ b \in 1 .. n /\ I \subseteq 1 .. n
  BY DEF RunBegins
<1>3. ASSUME NEW i \in I PROVE b <= i
  <2>1. CASE i < b
    <3>1. b > 1 /\ b - 1 \in i .. n
      BY <1>2, <2>1
    <3> QED
      BY <3>1 DEF RunBegins, Line!Stay
  <2> QED
    BY <1>2, <2>1
<1> HIDE DEF I
<1>4. \A i \in I : (\A j \in I : i <= j) => i = b
  BY <1>2, <1>3
<1> QED
  BY <1>1, <1>2, <1>3, <1>4 DEF Line!FirstIn

-----------------------------------------------------------------------------
(* Line rules: one observation.                                            *)

\* The stable side, one observation later: the side the track has now stayed on, or
\* the one it was.
LEMMA StableNext ==
  ASSUME NEW l, NEW m, NEW s \in Seq(Observations), NEW o \in Observations,
         LineStable(l, s),
         LET z == Append(s, o)
             side == Line!SideOf(o.place)
         IN  m.stable = IF side # 0 /\ Line!StayedAt(z, Len(z), side) THEN side
                        ELSE l.stable
  PROVE  /\ LineStable(m, Append(s, o))
         /\ \A c \in {-1, 1} :
              Line!CameFrom(Append(s, o), Len(Append(s, o)), c) <=> l.stable = c
<1> DEFINE n == Len(s)
           z == Append(s, o)
           side == Line!SideOf(o.place)
<1>0. m.stable = IF side # 0 /\ Line!StayedAt(z, Len(z), side) THEN side ELSE l.stable
  OBVIOUS
<1>1. n \in Nat /\ Len(z) = n + 1 /\ (\A k \in 1 .. n : z[k] = s[k]) /\ z[n + 1] = o
  BY PathGrows
<1>2. side \in {-1, 0, 1}
  BY SideFacts
<1>10. side = Line!SideOf(o.place)
  OBVIOUS
<1> HIDE DEF n, z, side
<1>3. \A c \in {-1, 1} : Line!CameFrom(z, n + 1, c) <=> l.stable = c
  <2>1. \A c : Line!CameFrom(z, n + 1, c) <=> Line!CameFrom(s, n + 1, c)
    BY <1>1, PrefixSays
  <2> QED
    BY <2>1 DEF LineStable, n
<1>4. ASSUME NEW c, Line!StayedAt(z, n + 1, c)
      PROVE  side = c
  <2>1. n + 1 \in Nat \ {0}
    BY <1>1
  <2>2. Line!SideOf(z[n + 1].place) = c
    BY <1>4, <2>1, StayedThere
  <2> QED
    BY <1>1, <1>10, <2>2
<1>5. ASSUME NEW c \in {-1, 1}
      PROVE  Line!CameFrom(z, n + 1 + 1, c) <=> m.stable = c
  <2>1. Line!CameFrom(z, n + 1 + 1, c)
          <=> \/ Line!StayedAt(z, n + 1, c)
              \/ Line!CameFrom(z, n + 1, c) /\ ~ Line!StayedAt(z, n + 1, - c)
    BY <1>1, CameFromNext
  <2>2. CASE side # 0 /\ Line!StayedAt(z, n + 1, side)
    <3>1. m.stable = side
      BY <1>0, <1>1, <2>2
    <3>2. CASE side = c
      BY <2>1, <2>2, <3>1, <3>2
    <3>3. CASE side # c
      <4>1. side = - c
        BY <1>2, <2>2, <3>3
      <4>2. ~ Line!StayedAt(z, n + 1, c) /\ Line!StayedAt(z, n + 1, - c)
        BY <1>4, <2>2, <3>3, <4>1
      <4> QED
        BY <2>1, <3>1, <3>3, <4>2
    <3> QED
      BY <3>2, <3>3
  <2>3. CASE ~ (side # 0 /\ Line!StayedAt(z, n + 1, side))
    <3>1. m.stable = l.stable
      BY <1>0, <1>1, <2>3
    <3>2. ~ Line!StayedAt(z, n + 1, c) /\ ~ Line!StayedAt(z, n + 1, - c)
      BY <1>4, <2>3
    <3> QED
      BY <1>3, <2>1, <3>1, <3>2
  <2> QED
    BY <2>2, <2>3
<1> QED
  BY <1>1, <1>3, <1>5 DEF LineStable, z

LEMMA TimesNext ==
  ASSUME NEW s \in Seq(Observations), NEW o \in Observations, PathTimes(s),
         Len(s) > 0 => s[Len(s)].pts <= o.pts,
         ~ Line!Timed => o.pts = 0
  PROVE  PathTimes(Append(s, o))
<1> DEFINE n == Len(s)
           z == Append(s, o)
<1>1. /\ n \in Nat /\ Len(z) = n + 1 /\ z[n + 1] = o
      /\ \A k \in 1 .. n : z[k] = s[k] /\ s[k] \in Observations
  BY PathGrows
<1>2. o.pts \in Nat /\ \A k \in 1 .. n : s[k].pts \in Nat
  BY <1>1 DEF Observations
<1> HIDE DEF n, z
<1>3. n > 0 => s[n].pts <= o.pts
  BY DEF n
<1>4. \A i, j \in 1 .. n : i <= j => s[i].pts <= s[j].pts
  BY DEF PathTimes, n
<1>5. \A i \in 1 .. n : s[i].pts <= o.pts
  <2> SUFFICES ASSUME NEW i \in 1 .. n PROVE s[i].pts <= o.pts
    OBVIOUS
  <2>1. n \in 1 .. n /\ i <= n /\ n > 0
    BY <1>1
  <2> QED
    BY <1>2, <1>3, <1>4, <2>1
<1>6. ASSUME NEW i \in 1 .. Len(z), NEW j \in 1 .. Len(z), i <= j
      PROVE  z[i].pts <= z[j].pts
  <2>1. CASE j \in 1 .. n
    <3>1. i \in 1 .. n
      BY <1>1, <1>6, <2>1
    <3> QED
      BY <1>1, <1>4, <1>6, <2>1, <3>1
  <2>2. CASE j = n + 1 /\ i \in 1 .. n
    BY <1>1, <1>5, <2>2
  <2>3. CASE j = n + 1 /\ i = n + 1
    BY <1>2, <2>3, <1>1
  <2> QED
    BY <1>1, <1>6, <2>1, <2>2, <2>3
<1>7. ~ Line!Timed => \A i \in 1 .. Len(z) : z[i].pts = 0
  <2>1. ~ Line!Timed => \A i \in 1 .. n : s[i].pts = 0
    BY DEF PathTimes, n
  <2> QED
    BY <1>1, <2>1
<1> QED
  BY <1>6, <1>7 DEF PathTimes, z

\* One observation under a timed rule (update_confirmed_line).
LEMMA TimedObservation ==
  ASSUME rule \in LineRules, Line!Timed,
         NEW was \in Line!LineStates, NEW f \in Frames, NEW point \in LinePlaces,
         NEW l \in Line!LineStates, l = Line!Kept(was, f),
         NEW s \in Seq(Observations), LineMemory(l, s),
         Len(s) > 0 => s[Len(s)].pts <= f.pts,
         NEW o, o = Line!Observation(f, point), NEW z, z = Append(s, o),
         NEW r, r = Line!TimedRule(was, f, point)
  PROVE  /\ LineMemory(r.state, z)
         /\ (r.crossed /\ Line!Allowed(r.state.stable))
              <=> Line!Crossed([last |-> o, path |-> z])
<1> DEFINE n == Len(s)
           side == Line!SideOf(point)
           seen == Line!Advanced(l, f, point)
           h == [last |-> o, path |-> z]
           left == Line!Withdrawn(l, point)
           settled == [seen EXCEPT !.stable = side, !.point = point,
                                   !.candidate = 0, !.count = 0]
<1>1. o \in Observations /\ o.place = point /\ o.pts = f.pts /\ o.seq = f.seq
  BY DEF Line!Observation, Observations, Frames
<1>2. /\ z \in Seq(Observations) /\ n \in Nat /\ Len(z) = n + 1 /\ z[n + 1] = o
      /\ \A k \in 1 .. n : z[k] = s[k]
  BY <1>1, PathGrows
<1>3. side \in {-1, 0, 1} /\ l.stable \in {-1, 0, 1} /\ l.candidate \in {-1, 0, 1}
      /\ ConfirmationFrames \in Nat \ {0}
  BY SideFacts, LineConstants DEF Line!LineStates, Line!Sides
<1>4. PathTimes(z)
  BY <1>1, TimesNext DEF LineMemory
<1>5. r = IF side = 0 \/ l.stable = side
          THEN [state |-> left, crossed |-> FALSE]
          ELSE IF ~ Line!Settles(seen, f)
          THEN [state |-> seen, crossed |-> FALSE]
          ELSE [state |-> settled, crossed |-> seen.stable # 0 /\ seen.crosses]
  BY DEF Line!TimedRule
<1>6. Line!Crossed(h)
        <=> /\ side # 0
            /\ Line!StayedAt(z, n + 1, side) /\ Line!CameFrom(z, n + 1, - side)
            /\ Line!MeetsLine(z[Line!Departure(z, n + 1, - side)].place,
                              z[Line!Arrival(z, n + 1, side)].place)
            /\ Line!Allowed(side)
  BY <1>1, <1>2 DEF Line!Crossed
<1>10. /\ LineStable(l, s) /\ side = Line!SideOf(o.place)
       /\ s \in Seq(Observations) /\ o \in Observations /\ z = Append(s, o)
  BY <1>1 DEF LineMemory
<1> HIDE DEF n, side
<1>7. \A k \in 1 .. n, c \in {-1, 0, 1} : Departs(z, k, c) <=> Departs(s, k, c)
  BY <1>2, PrefixSays
<1>8. CASE side = 0 \/ l.stable = side
  <2>1. /\ left.stable = l.stable /\ left.candidate = 0
        /\ left.point = IF side = 0 THEN l.point ELSE point
    BY DEF Line!Withdrawn, Line!LineStates, side
  <2> HIDE DEF left
  <2>2. LineStable(left, z) /\ \A c \in {-1, 1} : Line!CameFrom(z, n + 1, c) <=> l.stable = c
    <3>1. left.stable = IF side # 0 /\ Line!StayedAt(z, Len(z), side) THEN side ELSE l.stable
      BY <1>8, <2>1
    <3> QED
      BY <1>2, <1>10, <3>1, StableNext
  <2>3. LineCandidate(left, z)
    BY <1>1, <1>2, <1>8, <2>1 DEF LineCandidate, side
  <2>4. LinePoint(left, z)
    <3> SUFFICES ASSUME l.stable # 0
                 PROVE  \E d \in 1 .. n + 1 :
                          /\ left.point = z[d].place /\ Departs(z, d, l.stable)
                          /\ \A k \in d + 1 .. n + 1 : ~ Departs(z, k, l.stable)
      BY <1>2, <2>1 DEF LinePoint
    <3>1. CASE side = 0
      <4>1. PICK d \in 1 .. n : /\ l.point = s[d].place /\ Departs(s, d, l.stable)
                                /\ \A k \in d + 1 .. n : ~ Departs(s, k, l.stable)
        BY DEF LineMemory, LinePoint, n
      <4>2. ~ Departs(z, n + 1, l.stable)
        BY <1>1, <1>2, <3>1 DEF Departs, side
      <4>3. /\ d \in 1 .. n + 1
            /\ \A k \in d + 1 .. n + 1 : k = n + 1 \/ (k \in d + 1 .. n /\ k \in 1 .. n)
        BY <1>2
      <4>4. \A k \in d + 1 .. n + 1 : ~ Departs(z, k, l.stable)
        BY <1>3, <1>7, <4>1, <4>2, <4>3
      <4> QED
        BY <1>2, <1>3, <1>7, <2>1, <3>1, <4>1, <4>3, <4>4
    <3>2. CASE side # 0
      <4>1. Departs(z, n + 1, l.stable) /\ left.point = z[n + 1].place
        BY <1>1, <1>2, <1>8, <2>1, <3>2 DEF Departs, side
      <4>2. n + 1 \in 1 .. n + 1 /\ n + 1 + 1 .. n + 1 = {}
        BY <1>2
      <4> QED
        BY <4>1, <4>2
    <3> QED
      BY <3>1, <3>2
  <2>5. ~ Line!Crossed(h)
    <3>1. CASE side = 0
      BY <1>6, <3>1
    <3>2. CASE side # 0
      <4>1. - side \in {-1, 1} /\ l.stable # - side
        BY <1>3, <1>8, <3>2
      <4> QED
        BY <1>6, <2>2, <4>1
    <3> QED
      BY <3>1, <3>2
  <2>6. r.state = left /\ r.crossed = FALSE
    BY <1>5, <1>8
  <2> HIDE DEF h
  <2> QED
    BY <1>4, <2>2, <2>3, <2>4, <2>5, <2>6 DEF LineMemory, h
<1>9. CASE side # 0 /\ l.stable # side
  <2>1. /\ seen.stable = l.stable /\ seen.point = l.point /\ seen.candidate = side
        /\ DOMAIN seen = DOMAIN l
        /\ l.candidate # side => /\ seen.count = 1 /\ seen.since = f.pts
                                 /\ seen.crosses <=>
                                      /\ l.stable # 0
                                      /\ Line!SegmentsIntersect(l.point, point, LineStart,
                                                                LineEnd)
        /\ l.candidate = side => /\ seen.count = Line!Continued(l) /\ seen.since = l.since
                                 /\ seen.crosses = l.crosses
    <3>1. CASE l.candidate # side
      <4> DEFINE crosses == l.stable # 0
                              /\ Line!SegmentsIntersect(l.point, point, LineStart, LineEnd)
      <4>1. seen = [l EXCEPT !.candidate = side, !.count = 1, !.since = f.pts,
                             !.crosses = crosses]
        BY <3>1 DEF Line!Advanced, side
      <4> HIDE DEF crosses, seen
      <4>2. /\ seen.stable = l.stable /\ seen.point = l.point /\ seen.candidate = side
            /\ seen.count = 1 /\ seen.since = f.pts /\ seen.crosses = crosses
            /\ DOMAIN seen = DOMAIN l
        BY <4>1 DEF Line!LineStates
      <4> QED
        BY <3>1, <4>2 DEF crosses
    <3>2. CASE l.candidate = side
      <4>1. seen = [l EXCEPT !.count = Line!Continued(l)]
        BY <3>2 DEF Line!Advanced, side
      <4> HIDE DEF seen
      <4> QED
        BY <3>2, <4>1 DEF Line!LineStates
    <3> QED
      BY <3>1, <3>2
  <2> HIDE DEF seen
  <2>2. \E b \in 1 .. n + 1 :
          /\ RunBegins(z, b, n + 1, side)
          /\ seen.count = IF n + 1 - b + 1 < ConfirmationFrames THEN n + 1 - b + 1
                          ELSE ConfirmationFrames
          /\ seen.since = z[b].pts
          /\ l.stable # 0 =>
               (seen.crosses
                 <=> Line!SegmentsIntersect(l.point, z[b].place, LineStart, LineEnd))
    <3>1. CASE l.candidate # side
      <4>1. n > 0 => Line!SideOf(s[n].place) # side
        <5>1. CASE l.candidate = 0
          <6>1. n > 0 => Line!SideOf(s[n].place) \in {0, l.stable}
            BY <5>1 DEF LineMemory, LineCandidate, n
          <6> QED
            BY <1>9, <6>1
        <5>2. CASE l.candidate # 0
          <6>1. PICK b \in 1 .. n : RunBegins(s, b, n, l.candidate)
            BY <5>2 DEF LineMemory, LineCandidate, n
          <6>2. Line!SideOf(s[n].place) = l.candidate
            BY <1>2, <6>1 DEF RunBegins, Line!Stay
          <6> QED
            BY <3>1, <6>2
        <5> QED
          BY <5>1, <5>2
      <4>2. RunBegins(z, n + 1, n + 1, side)
        BY <1>1, <4>1, RunGrows DEF n, side
      <4>3. n + 1 \in 1 .. n + 1 /\ n + 1 - (n + 1) + 1 = 1
        BY <1>2
      <4>4. 1 = IF 1 < ConfirmationFrames THEN 1 ELSE ConfirmationFrames
        BY <1>3
      <4>5. z[n + 1].pts = f.pts /\ z[n + 1].place = point
        BY <1>1, <1>2
      <4> QED
        BY <2>1, <3>1, <4>2, <4>3, <4>4, <4>5
    <3>2. CASE l.candidate = side
      <4>1. PICK b \in 1 .. n :
              /\ RunBegins(s, b, n, side)
              /\ l.count = IF n - b + 1 < ConfirmationFrames THEN n - b + 1
                           ELSE ConfirmationFrames
              /\ l.since = s[b].pts
              /\ l.stable # 0 =>
                   (l.crosses
                     <=> Line!SegmentsIntersect(l.point, s[b].place, LineStart, LineEnd))
        BY <1>9, <3>2 DEF LineMemory, LineCandidate, n
      <4>2. RunBegins(z, b, n + 1, side)
        BY <1>1, <4>1, RunGrows DEF n, side
      <4>3. Line!Continued(l) = IF n + 1 - b + 1 < ConfirmationFrames THEN n + 1 - b + 1
                                ELSE ConfirmationFrames
        BY <1>2, <1>3, <4>1 DEF Line!Continued
      <4>4. b \in 1 .. n + 1 /\ z[b] = s[b]
        BY <1>2
      <4> QED
        BY <2>1, <3>2, <4>1, <4>2, <4>3, <4>4
    <3> QED
      BY <3>1, <3>2
  <2>3. PICK b \in 1 .. n + 1 :
          /\ RunBegins(z, b, n + 1, side)
          /\ seen.count = IF n + 1 - b + 1 < ConfirmationFrames THEN n + 1 - b + 1
                          ELSE ConfirmationFrames
          /\ seen.since = z[b].pts
          /\ l.stable # 0 =>
               (seen.crosses
                 <=> Line!SegmentsIntersect(l.point, z[b].place, LineStart, LineEnd))
    BY <2>2
  <2>4. Line!Settles(seen, f) <=> Line!StayedAt(z, n + 1, side)
    <3>1. Line!StayedAt(z, n + 1, side)
            <=> /\ n + 1 - b + 1 >= ConfirmationFrames
                /\ z[n + 1].pts - z[b].pts >= rule.confirmation
      <4>1. z \in Seq(Observations) /\ Len(z) > 0 /\ RunBegins(z, b, Len(z), side)
        BY <1>2, <2>3
      <4>2. Line!StayedAt(z, Len(z), side)
              <=> /\ Len(z) - b + 1 >= ConfirmationFrames
                  /\ z[Len(z)].pts - z[b].pts >= rule.confirmation
        BY <1>4, <4>1, RunStays
      <4> QED
        BY <1>2, <4>2
    <3>2. seen.count >= ConfirmationFrames <=> n + 1 - b + 1 >= ConfirmationFrames
      BY <1>2, <1>3, <2>3
    <3> QED
      BY <1>1, <1>2, <2>3, <3>1, <3>2 DEF Line!Settles
  <2>5. CASE ~ Line!StayedAt(z, n + 1, side)
    <3>1. r.state = seen /\ r.crossed = FALSE
      BY <1>5, <1>9, <2>4, <2>5
    <3>2. LineStable(seen, z)
      <4>1. seen.stable = IF side # 0 /\ Line!StayedAt(z, Len(z), side) THEN side ELSE l.stable
        BY <1>2, <2>1, <2>5
      <4> QED
        BY <1>2, <1>10, <4>1, StableNext
    <3>3. LineCandidate(seen, z)
      <4>1. seen.candidate # 0 /\ seen.candidate # seen.stable
        BY <1>9, <2>1
      <4>2. b \in 1 .. Len(z) /\ RunBegins(z, b, Len(z), seen.candidate)
        BY <1>2, <2>1, <2>3
      <4>3. seen.count = IF Len(z) - b + 1 < ConfirmationFrames THEN Len(z) - b + 1
                         ELSE ConfirmationFrames
        BY <1>2, <2>3
      <4>4. /\ seen.since = z[b].pts
            /\ seen.stable # 0 =>
                 (seen.crosses
                   <=> Line!SegmentsIntersect(seen.point, z[b].place, LineStart, LineEnd))
        BY <2>1, <2>3
      <4> QED
        BY <4>1, <4>2, <4>3, <4>4 DEF LineCandidate
    <3>4. LinePoint(seen, z)
      <4> SUFFICES ASSUME l.stable # 0
                   PROVE  \E d \in 1 .. n + 1 :
                            /\ l.point = z[d].place /\ Departs(z, d, l.stable)
                            /\ \A k \in d + 1 .. n + 1 : ~ Departs(z, k, l.stable)
        BY <1>2, <2>1 DEF LinePoint
      <4>1. PICK d \in 1 .. n : /\ l.point = s[d].place /\ Departs(s, d, l.stable)
                                /\ \A k \in d + 1 .. n : ~ Departs(s, k, l.stable)
        BY DEF LineMemory, LinePoint, n
      <4>2. ~ Departs(z, n + 1, l.stable)
        BY <1>1, <1>2, <1>9 DEF Departs, side
      <4>3. /\ d \in 1 .. n + 1
            /\ \A k \in d + 1 .. n + 1 : k = n + 1 \/ (k \in d + 1 .. n /\ k \in 1 .. n)
        BY <1>2
      <4>4. \A k \in d + 1 .. n + 1 : ~ Departs(z, k, l.stable)
        BY <1>3, <1>7, <4>1, <4>2, <4>3
      <4> QED
        BY <1>2, <1>3, <1>7, <4>1, <4>3, <4>4
    <3>5. ~ Line!Crossed(h)
      BY <1>6, <2>5
    <3> HIDE DEF h
    <3> QED
      BY <1>4, <3>1, <3>2, <3>3, <3>4, <3>5 DEF LineMemory, h
  <2>6. CASE Line!StayedAt(z, n + 1, side)
    <3>1. settled.stable = side /\ settled.candidate = 0 /\ settled.point = point
      <4>1. DOMAIN l = {"stable", "candidate", "count", "since", "crosses", "point",
                    "seq", "pts"}
        BY DEF Line!LineStates
      <4> QED
        BY <2>1, <4>1
    <3> HIDE DEF settled
    <3>2. r.state = settled /\ (r.crossed <=> l.stable # 0 /\ seen.crosses)
      <4>1. r = [state |-> settled, crossed |-> seen.stable # 0 /\ seen.crosses]
        BY <1>5, <1>9, <2>4, <2>6
      <4>2. r.state = settled /\ r.crossed = (seen.stable # 0 /\ seen.crosses)
        BY <4>1
      <4> QED
        BY <2>1, <4>2
    <3>3. /\ LineStable(settled, z)
          /\ \A c \in {-1, 1} : Line!CameFrom(z, n + 1, c) <=> l.stable = c
      <4>1. settled.stable
              = IF side # 0 /\ Line!StayedAt(z, Len(z), side) THEN side ELSE l.stable
        BY <1>2, <1>9, <2>6, <3>1
      <4> QED
        BY <1>2, <1>10, <4>1, StableNext
    <3>4. LineCandidate(settled, z)
      BY <1>1, <1>2, <3>1 DEF LineCandidate, side
    <3>5. LinePoint(settled, z)
      <4>1. Departs(z, n + 1, side) /\ settled.point = z[n + 1].place
        BY <1>1, <1>2, <3>1 DEF Departs, side
      <4>2. n + 1 \in 1 .. n + 1 /\ n + 1 + 1 .. n + 1 = {}
        BY <1>2
      <4> QED
        BY <1>2, <3>1, <4>1, <4>2 DEF LinePoint
    <3>6. l.stable # 0 <=> l.stable = - side
      BY <1>3, <1>9
    <3>7. ASSUME l.stable = - side
          PROVE  Line!MeetsLine(z[Line!Departure(z, n + 1, - side)].place,
                                z[Line!Arrival(z, n + 1, side)].place)
                   <=> seen.crosses
      <4>1. PICK d \in 1 .. n : /\ l.point = s[d].place /\ Departs(s, d, l.stable)
                                /\ \A k \in d + 1 .. n : ~ Departs(s, k, l.stable)
        BY <3>6, <3>7 DEF LineMemory, LinePoint, n
      <4>2. /\ Departs(z, d, - side)
            /\ \A k \in d + 1 .. n : k \in 1 .. n /\ ~ Departs(z, k, - side)
        BY <1>2, <1>3, <1>7, <3>7, <4>1
      <4>3. Line!Departure(z, n + 1, - side) = d
        BY <1>2, <4>2, WayEnds
      <4>4. Line!Arrival(z, n + 1, side) = b
        BY <1>2, <2>3, RunArrives
      <4>5. z[d].place = l.point /\ Line!SideOf(z[d].place) = - side
        BY <1>2, <4>1, <4>2 DEF Departs
      <4>6. Line!SideOf(z[b].place) = side
        BY <1>2, <2>3 DEF RunBegins, Line!Stay
      <4>7. z[d].place \in LinePlaces /\ z[b].place \in LinePlaces
        <5>1. z[d] \in Observations /\ z[b] \in Observations
          BY <1>2
        <5> QED
          BY <5>1 DEF Observations
      <4>8. Line!SegmentsIntersect(z[d].place, z[b].place, LineStart, LineEnd)
              <=> Line!MeetsLine(z[d].place, z[b].place)
        <5>1. Line!SideOf(z[d].place) # 0
              /\ Line!SideOf(z[b].place) = - Line!SideOf(z[d].place)
          BY <1>3, <1>9, <4>5, <4>6
        <5> QED
          BY <4>7, <5>1, WayMeetsLine
      <4> QED
        BY <2>3, <3>6, <3>7, <4>3, <4>4, <4>5, <4>8
    <3>8. Line!CameFrom(z, n + 1, - side) <=> l.stable = - side
      <4>1. - side \in {-1, 1}
        BY <1>3, <1>9
      <4> QED
        BY <3>3, <4>1
    <3>9. (r.crossed /\ Line!Allowed(r.state.stable)) <=> Line!Crossed(h)
      BY <1>6, <1>9, <2>6, <3>1, <3>2, <3>6, <3>7, <3>8
    <3> HIDE DEF h
    <3> QED
      BY <1>4, <3>2, <3>3, <3>4, <3>5, <3>9 DEF LineMemory, h
  <2> QED
    BY <2>5, <2>6
<1> QED
  BY <1>8, <1>9

\* One observation under an untimed rule (update_lines).
LEMMA UntimedObservation ==
  ASSUME rule \in LineRules, ~ Line!Timed,
         NEW l \in Line!LineStates, NEW point \in LinePlaces,
         NEW s \in Seq(Observations), LineMemory(l, s),
         NEW o \in Observations, o.place = point, o.pts = 0,
         NEW z, z = IF Line!SideOf(point) = 0 THEN s ELSE Append(s, o),
         NEW r, r = Line!UntimedRule(l, point)
  PROVE  /\ LineMemory(r.state, z)
         /\ (r.crossed /\ Line!Allowed(r.state.stable))
              <=> Line!Crossed([last |-> o, path |-> z])
<1> DEFINE n == Len(s)
           side == Line!SideOf(point)
           seen == Line!Counted(l, side)
           h == [last |-> o, path |-> z]
           settled == [seen EXCEPT !.stable = side, !.point = point]
<1>1. r = IF side = 0
          THEN [state |-> l, crossed |-> FALSE]
          ELSE IF seen.count < ConfirmationFrames
          THEN [state |-> seen, crossed |-> FALSE]
          ELSE [state |-> settled,
                crossed |-> /\ seen.stable = - side
                            /\ Line!SegmentsIntersect(seen.point, point, LineStart, LineEnd)]
  BY DEF Line!UntimedRule
<1>2. CASE side = 0
  <2>1. r.state = l /\ r.crossed = FALSE /\ z = s
    BY <1>1, <1>2
  <2>2. ~ Line!Crossed(h)
    BY <1>2 DEF Line!Crossed
  <2> QED
    BY <2>1, <2>2
<1>3. CASE side # 0
  <2>1. /\ z \in Seq(Observations) /\ n \in Nat /\ Len(z) = n + 1 /\ z[n + 1] = o
        /\ \A k \in 1 .. n : z[k] = s[k]
        /\ z = Append(s, o)
    BY <1>3, PathGrows
  <2>2. side \in {-1, 1} /\ l.stable \in {-1, 0, 1} /\ ConfirmationFrames \in Nat \ {0}
    BY <1>3, SideFacts, LineConstants DEF Line!LineStates, Line!Sides
  <2>3. PathTimes(z)
    <3>1. \A k \in 1 .. n : s[k].pts = 0
      BY DEF LineMemory, PathTimes
    <3>2. n > 0 => s[n].pts = 0
      BY <2>1, <3>1
    <3> QED
      BY <2>1, <3>2, TimesNext DEF LineMemory
  <2>4. LineStable(l, s) /\ side = Line!SideOf(o.place)
    BY DEF LineMemory
  <2>5. Line!Crossed(h)
          <=> /\ Line!StayedAt(z, n + 1, side) /\ Line!CameFrom(z, n + 1, - side)
              /\ Line!MeetsLine(z[Line!Departure(z, n + 1, - side)].place,
                                z[Line!Arrival(z, n + 1, side)].place)
              /\ Line!Allowed(side)
    BY <1>3, <2>1 DEF Line!Crossed
  <2>6. /\ seen.stable = l.stable /\ seen.point = l.point /\ seen.candidate = side
        /\ seen.count = (IF l.candidate # side THEN 1 ELSE Line!Continued(l))
        /\ settled.stable = side /\ settled.candidate = side /\ settled.point = point
        /\ settled.count = seen.count
    <3> DEFINE count == IF l.candidate # side THEN 1 ELSE Line!Continued(l)
    <3>1. seen = [l EXCEPT !.candidate = side, !.count = count]
      BY DEF Line!Counted
    <3> HIDE DEF count, seen
    <3>2. /\ DOMAIN seen = DOMAIN l /\ seen.stable = l.stable /\ seen.point = l.point
          /\ seen.candidate = side /\ seen.count = count
      BY <3>1 DEF Line!LineStates
    <3>3. DOMAIN l = {"stable", "candidate", "count", "since", "crosses", "point",
                    "seq", "pts"}
      BY DEF Line!LineStates
    <3>4. /\ settled.stable = side /\ settled.candidate = side /\ settled.point = point
          /\ settled.count = seen.count
      BY <3>2, <3>3
    <3> QED
      BY <3>2, <3>4 DEF count
  <2>7. r = IF seen.count < ConfirmationFrames
            THEN [state |-> seen, crossed |-> FALSE]
            ELSE [state |-> settled,
                  crossed |-> /\ seen.stable = - side
                              /\ Line!SegmentsIntersect(seen.point, point, LineStart, LineEnd)]
    BY <1>1, <1>3
  <2> HIDE DEF n, side, seen, settled
  <2>8. \A k \in 1 .. n, c \in {-1, 0, 1} : Departs(z, k, c) <=> Departs(s, k, c)
    BY <2>1, PrefixSays
  <2>9. \E b \in 1 .. n + 1 :
          /\ RunBegins(z, b, n + 1, side)
          /\ seen.count = IF n + 1 - b + 1 < ConfirmationFrames THEN n + 1 - b + 1
                          ELSE ConfirmationFrames
    <3>1. CASE l.candidate # side
      <4>1. n > 0 => Line!SideOf(s[n].place) # side
        <5> SUFFICES ASSUME n > 0 PROVE Line!SideOf(s[n].place) # side
          OBVIOUS
        <5>1. PICK b \in 1 .. n : RunBegins(s, b, n, l.candidate)
          BY DEF LineMemory, LineCandidate, n
        <5>2. Line!SideOf(s[n].place) = l.candidate
          BY <2>1, <5>1 DEF RunBegins, Line!Stay
        <5> QED
          BY <3>1, <5>2
      <4>2. RunBegins(z, n + 1, n + 1, side)
        BY <2>1, <2>4, <4>1, RunGrows DEF n
      <4>3. n + 1 \in 1 .. n + 1 /\ n + 1 - (n + 1) + 1 = 1
        BY <2>1
      <4>4. 1 = IF 1 < ConfirmationFrames THEN 1 ELSE ConfirmationFrames
        BY <2>2
      <4> QED
        BY <2>6, <3>1, <4>2, <4>3, <4>4
    <3>2. CASE l.candidate = side
      <4>1. PICK b \in 1 .. n :
              /\ RunBegins(s, b, n, side)
              /\ l.count = IF n - b + 1 < ConfirmationFrames THEN n - b + 1
                           ELSE ConfirmationFrames
        BY <2>2, <3>2 DEF LineMemory, LineCandidate, n
      <4>2. RunBegins(z, b, n + 1, side)
        BY <2>1, <2>4, <4>1, RunGrows DEF n
      <4>3. Line!Continued(l) = IF n + 1 - b + 1 < ConfirmationFrames THEN n + 1 - b + 1
                                ELSE ConfirmationFrames
        BY <2>1, <2>2, <4>1 DEF Line!Continued
      <4>4. b \in 1 .. n + 1
        BY <2>1
      <4> QED
        BY <2>6, <3>2, <4>2, <4>3, <4>4
    <3> QED
      BY <3>1, <3>2
  <2>10. PICK b \in 1 .. n + 1 :
           /\ RunBegins(z, b, n + 1, side)
           /\ seen.count = IF n + 1 - b + 1 < ConfirmationFrames THEN n + 1 - b + 1
                           ELSE ConfirmationFrames
    BY <2>9
  <2>11. ~ (seen.count < ConfirmationFrames) <=> Line!StayedAt(z, n + 1, side)
    <3>1. z \in Seq(Observations) /\ Len(z) > 0 /\ RunBegins(z, b, Len(z), side)
      BY <2>1, <2>10
    <3>2. Line!StayedAt(z, Len(z), side)
            <=> /\ Len(z) - b + 1 >= ConfirmationFrames
                /\ z[Len(z)].pts - z[b].pts >= rule.confirmation
      BY <2>3, <3>1, RunStays
    <3>3. z[n + 1].pts = 0 /\ z[b].pts = 0
      BY <2>1, <2>3 DEF PathTimes
    <3>4. rule.confirmation = 0
      BY RulesAssumption DEF Line!LineAssumption, Line!Timed
    <3> QED
      BY <2>1, <2>2, <2>10, <3>2, <3>3, <3>4
  <2>12. Line!SideOf(z[n + 1].place) = side
    BY <2>1, <2>4
  <2>13. ASSUME NEW m, m.candidate = side, m.count = seen.count
         PROVE  LineCandidate(m, z)
    BY <1>3, <2>1, <2>10, <2>13 DEF LineCandidate
  <2>14. CASE ~ Line!StayedAt(z, n + 1, side)
    <3>1. r.state = seen /\ r.crossed = FALSE
      BY <2>7, <2>11, <2>14
    <3>2. LineStable(seen, z)
      <4>1. seen.stable = IF side # 0 /\ Line!StayedAt(z, Len(z), side) THEN side ELSE l.stable
        BY <2>1, <2>6, <2>14
      <4> QED
        BY <2>1, <2>4, <4>1, StableNext
    <3>3. LinePoint(seen, z)
      <4> SUFFICES ASSUME l.stable # 0
                   PROVE  \E d \in 1 .. n + 1 :
                            /\ l.point = z[d].place /\ Departs(z, d, l.stable)
                            /\ \A k \in d + 1 .. n + 1 : ~ Departs(z, k, l.stable)
        BY <2>1, <2>6 DEF LinePoint
      <4>1. PICK d \in 1 .. n : /\ l.point = s[d].place /\ Departs(s, d, l.stable)
                                /\ \A k \in d + 1 .. n : ~ Departs(s, k, l.stable)
        BY DEF LineMemory, LinePoint, n
      <4>2. ~ Departs(z, n + 1, l.stable)
        <5>1. n + 1 \in Nat \ {0}
          BY <2>1
        <5>2. Line!StayedAt(z, n + 1, l.stable) => l.stable = side
          BY <2>12, <5>1, StayedThere
        <5> QED
          BY <2>14, <5>2 DEF Departs
      <4>3. /\ d \in 1 .. n + 1
            /\ \A k \in d + 1 .. n + 1 : k = n + 1 \/ (k \in d + 1 .. n /\ k \in 1 .. n)
        BY <2>1
      <4>4. \A k \in d + 1 .. n + 1 : ~ Departs(z, k, l.stable)
        BY <2>2, <2>8, <4>1, <4>2, <4>3
      <4> QED
        BY <2>1, <2>2, <2>8, <4>1, <4>3, <4>4
    <3>4. LineCandidate(seen, z)
      BY <2>6, <2>13
    <3>5. ~ Line!Crossed(h)
      BY <2>5, <2>14
    <3> HIDE DEF h
    <3> QED
      BY <2>3, <3>1, <3>2, <3>3, <3>4, <3>5 DEF LineMemory, h
  <2>15. CASE Line!StayedAt(z, n + 1, side)
    <3>1. r.state = settled
          /\ r.crossed = (/\ seen.stable = - side
                          /\ Line!SegmentsIntersect(seen.point, point, LineStart, LineEnd))
      BY <2>7, <2>11, <2>15
    <3>2. /\ LineStable(settled, z)
          /\ \A c \in {-1, 1} : Line!CameFrom(z, n + 1, c) <=> l.stable = c
      <4>1. settled.stable
              = IF side # 0 /\ Line!StayedAt(z, Len(z), side) THEN side ELSE l.stable
        BY <1>3, <2>1, <2>2, <2>6, <2>15
      <4> QED
        BY <2>1, <2>4, <4>1, StableNext
    <3>3. LinePoint(settled, z)
      <4>1. Departs(z, n + 1, side) /\ settled.point = z[n + 1].place
        BY <2>1, <2>6, <2>15 DEF Departs
      <4>2. n + 1 \in 1 .. n + 1 /\ n + 1 + 1 .. n + 1 = {}
        BY <2>1
      <4> QED
        BY <2>1, <2>6, <4>1, <4>2 DEF LinePoint
    <3>4. LineCandidate(settled, z)
      BY <2>6, <2>13
    <3>5. ASSUME l.stable = - side
          PROVE  Line!MeetsLine(z[Line!Departure(z, n + 1, - side)].place,
                                z[Line!Arrival(z, n + 1, side)].place)
                   <=> Line!SegmentsIntersect(l.point, point, LineStart, LineEnd)
      <4>1. PICK d \in 1 .. n : /\ l.point = s[d].place /\ Departs(s, d, l.stable)
                                /\ \A k \in d + 1 .. n : ~ Departs(s, k, l.stable)
        BY <2>2, <3>5 DEF LineMemory, LinePoint, n
      <4>2. /\ Departs(z, d, - side)
            /\ \A k \in d + 1 .. n : k \in 1 .. n /\ ~ Departs(z, k, - side)
        BY <2>1, <2>2, <2>8, <3>5, <4>1
      <4>3. Line!Departure(z, n + 1, - side) = d
        BY <2>1, <4>2, WayEnds
      <4>4. Line!Arrival(z, n + 1, side) = n + 1 /\ z[n + 1].place = point
        BY <2>1 DEF Line!Arrival
      <4>5. z[d].place = l.point /\ Line!SideOf(z[d].place) = - side
        <5>1. d \in Nat \ {0} /\ Line!StayedAt(z, d, - side)
          BY <4>2 DEF Departs
        <5> QED
          BY <2>1, <4>1, <5>1, StayedThere
      <4>6. z[d].place \in LinePlaces
        <5>1. z[d] \in Observations
          BY <2>1
        <5> QED
          BY <5>1 DEF Observations
      <4>7. Line!SegmentsIntersect(z[d].place, point, LineStart, LineEnd)
              <=> Line!MeetsLine(z[d].place, point)
        <5>1. Line!SideOf(z[d].place) # 0
              /\ Line!SideOf(point) = - Line!SideOf(z[d].place)
          <6>1. Line!SideOf(point) = side
            BY <2>4
          <6>2. - side # 0 /\ side = - (- side)
            BY <2>2
          <6> QED
            BY <4>5, <6>1, <6>2
        <5> QED
          BY <4>6, <5>1, WayMeetsLine
      <4> QED
        BY <4>3, <4>4, <4>5, <4>7
    <3>6. Line!CameFrom(z, n + 1, - side) <=> l.stable = - side
      <4>1. - side \in {-1, 1}
        BY <2>2
      <4> QED
        BY <3>2, <4>1
    <3>7. (r.crossed /\ Line!Allowed(r.state.stable)) <=> Line!Crossed(h)
      BY <2>5, <2>6, <2>15, <3>1, <3>5, <3>6
    <3> HIDE DEF h
    <3> QED
      BY <2>3, <3>1, <3>2, <3>3, <3>4, <3>7 DEF LineMemory, h
  <2> QED
    BY <2>14, <2>15
<1> QED
  BY <1>2, <1>3

\* What a rule goes by when it is given a frame: the state it remembers, or a new one,
\* and the path that goes with it.
LineReady(l, s, f) ==
  IF Line!Timed
  THEN LineMemory(Line!Kept(l, f), s) /\ (Len(s) > 0 => s[Len(s)].pts <= f.pts)
  ELSE LineMemory(l, s)

\* A track nobody knows has no path.
LEMMA NothingIsReady ==
  ASSUME NEW l, l.stable = 0, l.candidate = 0
  PROVE  LineMemory(l, << >>)
<1>1. Len(<< >>) = 0
  OBVIOUS
<1>2. \A side \in {-1, 1} : ~ Line!CameFrom(<< >>, Len(<< >>) + 1, side)
  <2>1. 1 .. Len(<< >>) + 1 - 1 = {}
    BY <1>1
  <2> QED
    BY <2>1 DEF Line!CameFrom
<1> QED
  BY <1>1, <1>2 DEF LineMemory, LineStable, LineCandidate, LinePoint, PathTimes

\* A gap in a timed path voids what the path told (the first lines of
\* update_confirmed_line).
LEMMA KnownIsReady ==
  ASSUME NEW l \in Line!LineStates, NEW h, LineTrack(l, h), h.path \in Seq(Observations),
         NEW f \in Frames, NEW s,
         s = IF Line!Timed /\ ~ (f.seq = h.last.seq + 1 /\ f.pts > h.last.pts) THEN << >>
             ELSE h.path
  PROVE  LineReady(l, s, f)
<1>1. CASE ~ Line!Timed
  BY <1>1 DEF LineReady, LineTrack
<1>2. CASE Line!Timed /\ f.seq = h.last.seq + 1 /\ f.pts > h.last.pts
  <2>1. /\ l.seq = h.last.seq /\ l.pts = h.last.pts /\ s = h.path
        /\ h.last = h.path[Len(h.path)] /\ LineMemory(l, h.path)
    BY <1>2 DEF LineTrack
  <2>2. l.pts \in Nat /\ f.pts \in Nat /\ f.pts > l.pts /\ f.seq = l.seq + 1
    BY <1>2, <2>1 DEF Line!LineStates, Frames
  <2>3. Line!Kept(l, f) = l
    BY <2>2 DEF Line!Kept
  <2>4. s[Len(s)].pts <= f.pts
    BY <2>1, <2>2
  <2> QED
    BY <1>2, <2>1, <2>3, <2>4 DEF LineReady
<1>3. CASE Line!Timed /\ ~ (f.seq = h.last.seq + 1 /\ f.pts > h.last.pts)
  <2>1. s = << >> /\ Len(<< >>) = 0 /\ l.seq = h.last.seq /\ l.pts = h.last.pts
    BY <1>3 DEF LineTrack
  <2>2. l.pts \in Nat /\ f.pts \in Nat
    BY DEF Line!LineStates, Frames
  <2>3. Line!Kept(l, f).stable = 0 /\ Line!Kept(l, f).candidate = 0
    <3>1. f.seq # l.seq + 1 \/ f.pts <= l.pts
      BY <1>3, <2>1, <2>2
    <3>2. Line!NoLine.stable = 0 /\ Line!NoLine.candidate = 0
      BY DEF Line!NoLine
    <3> QED
      BY <3>1, <3>2 DEF Line!Kept
  <2>4. LineMemory(Line!Kept(l, f), << >>)
    BY <2>3, NothingIsReady
  <2> QED
    BY <1>3, <2>1, <2>4 DEF LineReady
<1> QED
  BY <1>1, <1>2, <1>3

LEMMA UnknownIsReady ==
  ASSUME NEW f
  PROVE  LineReady(Line!NoLine, << >>, f)
<1>1. Line!NoLine.stable = 0 /\ Line!NoLine.candidate = 0
  BY DEF Line!NoLine
<1>2. Line!Kept(Line!NoLine, f) = Line!NoLine
  BY <1>1 DEF Line!Kept
<1>3. LineMemory(Line!NoLine, << >>)
  BY <1>1, NothingIsReady
<1>4. Len(<< >>) = 0
  OBVIOUS
<1> QED
  BY <1>2, <1>3, <1>4 DEF LineReady

\* One observation of one track: the state and the trail go on together, and the rule
\* raises a crossing exactly if the trail shows one.
LEMMA LineTrackStep ==
  ASSUME rule \in LineRules, NEW was \in Line!LineStates, NEW f \in Frames,
         NEW point \in LinePlaces, NEW s \in Seq(Observations), LineReady(was, s, f),
         NEW o, o = Line!Observation(f, point),
         NEW h, h = [last |-> o, path |-> IF ~ Line!Timed /\ Line!SideOf(point) = 0 THEN s
                                          ELSE Append(s, o)],
         NEW a, a = Line!Applied(was, f, point)
  PROVE  /\ LineTrack(a.state, h) /\ h.path \in Seq(Observations) /\ h.last \in Observations
         /\ h.last.seq = f.seq
         /\ (a.crossed /\ Line!Allowed(a.state.stable)) <=> Line!Crossed(h)
<1> DEFINE z == IF ~ Line!Timed /\ Line!SideOf(point) = 0 THEN s ELSE Append(s, o)
<1>1. o \in Observations /\ o.place = point /\ o.seq = f.seq
      /\ o.pts = (IF Line!Timed THEN f.pts ELSE 0) /\ f.pts \in Nat /\ f.seq \in Nat
  BY DEF Line!Observation, Observations, Frames
<1>2. h.last = o /\ h.path = z /\ h = [last |-> o, path |-> z]
  OBVIOUS
<1>3. z \in Seq(Observations) /\ Append(s, o) \in Seq(Observations)
      /\ Len(Append(s, o)) > 0 /\ Append(s, o)[Len(Append(s, o))] = o
  BY <1>1, PathGrows
<1>4. ASSUME NEW r, NEW m, LineMemory(r.state, z),
             m.stable = r.state.stable, m.candidate = r.state.candidate,
             m.count = r.state.count, m.since = r.state.since,
             m.crosses = r.state.crosses, m.point = r.state.point
      PROVE  LineMemory(m, z)
  BY <1>4 DEF LineMemory, LineStable, LineCandidate, LinePoint
<1>5. CASE Line!Timed
  <2> DEFINE r == Line!TimedRule(was, f, point)
             l == Line!Kept(was, f)
  <2>1. l \in Line!LineStates
    BY LineConstants DEF Line!Kept, Line!NoLine, Line!LineStates, Line!Sides
  <2>2. LineMemory(l, s) /\ (Len(s) > 0 => s[Len(s)].pts <= f.pts) /\ z = Append(s, o)
    BY <1>5 DEF LineReady
  <2>3. /\ LineMemory(r.state, z)
        /\ (r.crossed /\ Line!Allowed(r.state.stable))
             <=> Line!Crossed([last |-> o, path |-> z])
    <3> HIDE DEF r, l, z
    <3>1. r = Line!TimedRule(was, f, point) /\ l = Line!Kept(was, f)
      BY DEF r, l
    <3> QED
      BY <1>5, <2>1, <2>2, <3>1, TimedObservation
  <2>4. a = [r EXCEPT !.state.seq = f.seq, !.state.pts = f.pts]
    BY <1>5 DEF Line!Applied
  <2>5. r = [state |-> r.state, crossed |-> r.crossed] /\ r.state \in Line!LineStates
    <3>1. r = [state |-> r.state, crossed |-> r.crossed]
      BY DEF Line!TimedRule
    <3>2. r.state \in Line!LineStates
      BY LineRuleTyped
    <3> QED
      BY <3>1, <3>2
  <2> HIDE DEF r, l, z
  <2>6. a.state = [r.state EXCEPT !.seq = f.seq, !.pts = f.pts] /\ a.crossed = r.crossed
    BY <2>4, <2>5
  <2>7. /\ a.state.seq = f.seq /\ a.state.pts = f.pts
        /\ a.state.stable = r.state.stable /\ a.state.candidate = r.state.candidate
        /\ a.state.count = r.state.count /\ a.state.since = r.state.since
        /\ a.state.crosses = r.state.crosses /\ a.state.point = r.state.point
    BY <2>5, <2>6 DEF Line!LineStates
  <2>8. LineMemory(a.state, z)
    BY <1>4, <2>3, <2>7
  <2>9. LineTrack(a.state, h)
    BY <1>1, <1>2, <1>3, <1>5, <2>2, <2>7, <2>8 DEF LineTrack
  <2> QED
    BY <1>1, <1>2, <1>3, <2>3, <2>6, <2>7, <2>9
<1>6. CASE ~ Line!Timed
  <2> DEFINE r == Line!UntimedRule(was, point)
  <2>1. LineMemory(was, s) /\ o.pts = 0
        /\ z = IF Line!SideOf(point) = 0 THEN s ELSE Append(s, o)
    BY <1>1, <1>6 DEF LineReady
  <2>2. /\ LineMemory(r.state, z)
        /\ (r.crossed /\ Line!Allowed(r.state.stable))
             <=> Line!Crossed([last |-> o, path |-> z])
    <3> HIDE DEF r, z
    <3>1. r = Line!UntimedRule(was, point)
      BY DEF r
    <3> QED
      BY <1>1, <1>6, <2>1, <3>1, UntimedObservation
  <2>3. a = [r EXCEPT !.state.seq = f.seq]
    BY <1>6 DEF Line!Applied
  <2>4. r = [state |-> r.state, crossed |-> r.crossed] /\ r.state \in Line!LineStates
    <3>1. r = [state |-> r.state, crossed |-> r.crossed]
      BY DEF Line!UntimedRule
    <3>2. r.state \in Line!LineStates
      BY LineRuleTyped
    <3> QED
      BY <3>1, <3>2
  <2> HIDE DEF r, z
  <2>5. a.state = [r.state EXCEPT !.seq = f.seq] /\ a.crossed = r.crossed
    BY <2>3, <2>4
  <2>6. /\ a.state.seq = f.seq
        /\ a.state.stable = r.state.stable /\ a.state.candidate = r.state.candidate
        /\ a.state.count = r.state.count /\ a.state.since = r.state.since
        /\ a.state.crosses = r.state.crosses /\ a.state.point = r.state.point
    BY <2>4, <2>5 DEF Line!LineStates
  <2>7. LineMemory(a.state, z)
    BY <1>4, <2>2, <2>6
  <2>8. LineTrack(a.state, h)
    BY <1>1, <1>2, <1>6, <2>6, <2>7 DEF LineTrack
  <2> QED
    BY <1>1, <1>2, <1>3, <2>2, <2>5, <2>6, <2>8
<1> QED
  BY <1>5, <1>6

-----------------------------------------------------------------------------
(* Line rules: one frame.                                                  *)

\* The rule's settings do not change, so what is said of a track does not either.
LEMMA LineTrackKept ==
  ASSUME rule' = rule, NEW l, NEW h
  PROVE  /\ LineTrack(l, h)' <=> LineTrack(l, h)
         /\ Line!Crossed(h)' <=> Line!Crossed(h)
<1>1. Line!Timed' <=> Line!Timed
  BY DEF Line!Timed
<1>2. \A s, j, side : Line!StayedAt(s, j, side)' <=> Line!StayedAt(s, j, side)
  BY DEF Line!StayedAt
<1>3. \A s, k, side : Departs(s, k, side)' <=> Departs(s, k, side)
  BY <1>1, <1>2 DEF Departs
<1>4. \A s, n, side : Line!CameFrom(s, n, side)' <=> Line!CameFrom(s, n, side)
  BY <1>2 DEF Line!CameFrom
<1>5. \A s : LineStable(l, s)' <=> LineStable(l, s)
  BY <1>4 DEF LineStable
<1>6. \A s : LineCandidate(l, s)' <=> LineCandidate(l, s)
  BY <1>1 DEF LineCandidate
<1>7. \A s : LinePoint(l, s)' <=> LinePoint(l, s)
  BY <1>3 DEF LinePoint
<1>8. \A s : PathTimes(s)' <=> PathTimes(s)
  BY <1>1 DEF PathTimes
<1>9. \A s : LineMemory(l, s)' <=> LineMemory(l, s)
  BY <1>5, <1>6, <1>7, <1>8 DEF LineMemory
<1>10. \A s, n, side :
         /\ Line!Departure(s, n, side)' = Line!Departure(s, n, side)
         /\ Line!Arrival(s, n, side)' = Line!Arrival(s, n, side)
  <2> SUFFICES ASSUME NEW s, NEW n, NEW side
               PROVE  /\ Line!Departure(s, n, side)' = Line!Departure(s, n, side)
                      /\ Line!Arrival(s, n, side)' = Line!Arrival(s, n, side)
    OBVIOUS
  <2>1. Line!Arrival(s, n, side)' = Line!Arrival(s, n, side)
    BY <1>1 DEF Line!Arrival
  <2>2. Line!Departure(s, n, side)' = Line!Departure(s, n, side)
    <3> DEFINE I == {k \in 1 .. n - 1 : IF Line!Timed THEN Line!SideOf(s[k].place) = side
                                        ELSE Line!StayedAt(s, k, side)}
    <3>1. Line!Departure(s, n, side) = Line!LastIn(I)
      BY DEF Line!Departure
    <3>2. Line!Departure(s, n, side)' = Line!LastIn(I')
      BY DEF Line!Departure
    <3>3. I' = I
      BY <1>1, <1>2
    <3> QED
      BY <3>1, <3>2, <3>3
  <2> QED
    BY <2>1, <2>2
<1>11. \A side : Line!Allowed(side)' <=> Line!Allowed(side)
  BY DEF Line!Allowed
<1>12. LineTrack(l, h)' <=> LineTrack(l, h)
  BY <1>1, <1>9 DEF LineTrack
<1>13. Line!Crossed(h)' <=> Line!Crossed(h)
  BY <1>2, <1>4, <1>10, <1>11 DEF Line!Crossed
<1> QED
  BY <1>12, <1>13

LEMMA LineUpdateStep ==
  ASSUME LineInv, Line!Update
  PROVE  LineInv'
<1>0. PICK f \in Line!NextFrames, sightings \in Line!Sightings :
      LET seen == DOMAIN sightings
          result(t) == Line!Applied(Line!StateOf(Line!Known(f), t, Line!NoLine), f,
                                    sightings[t])
          fresh(t) == t \in seen \/ f.seq - history[t].last.seq <= LineStaleAfter
      IN  /\ Line!Apply(f, Line!Known(f), [t \in seen |-> result(t).state])
          /\ events' = {t \in seen : result(t).crossed
                                       /\ Line!Allowed(result(t).state.stable)}
          /\ history' = [t \in {u \in Line!Remembered(f) \cup seen : fresh(u)} |->
                           IF t \in seen THEN Line!TrailOf(f, t, sightings[t])
                           ELSE history[t]]
          /\ UNCHANGED rule
  BY DEF Line!Update
<1> DEFINE seen == DOMAIN sightings
           before(t) == Line!StateOf(Line!Known(f), t, Line!NoLine)
           result(t) == Line!Applied(before(t), f, sightings[t])
           results == [t \in seen |-> result(t).state]
           path(t) == IF Line!Joins(f, t) THEN history[t].path ELSE << >>
           trail(t) == Line!TrailOf(f, t, sightings[t])
<1>1. /\ Line!Apply(f, Line!Known(f), results)
      /\ events' = {t \in seen : result(t).crossed /\ Line!Allowed(result(t).state.stable)}
      /\ rule' = rule
      /\ DOMAIN history' = {u \in Line!Remembered(f) \cup seen :
                              u \in seen \/ f.seq - history[u].last.seq <= LineStaleAfter}
      /\ \A t \in DOMAIN history' :
           history'[t] = IF t \in seen THEN trail(t) ELSE history[t]
  BY <1>0
<1>2. seen \subseteq Tracks /\ \A t \in seen : sightings[t] \in LinePlaces
  BY DEF Line!Sightings
<1>3. /\ f \in Frames /\ f.seq \in Nat /\ f.pts \in Nat /\ f.gen \in Nat
      /\ f.seq > frame.seq /\ f.seq <= LineBounds.seq /\ f.gen <= LineBounds.gen
      /\ frame.seq \in Int /\ rule \in LineRules /\ frame.pts \in Nat
  BY LineNextFrame DEF LineInv, Line!TypeOK
<1>4. /\ Line!Remembered(f) = DOMAIN Line!Known(f)
      /\ Line!Remembered(f) \subseteq DOMAIN states
      /\ \A t \in Line!Remembered(f) : Line!Known(f)[t] = states[t]
  <2>1. DOMAIN states = DOMAIN history /\ (~ active => states = << >>)
    BY DEF LineInv
  <2>2. DOMAIN << >> = {}
    OBVIOUS
  <2>3. CASE Line!Restarted(f)
    <3>1. Line!Known(f) = << >> /\ Line!Remembered(f) = {}
      BY <1>3, <2>3 DEF Line!Known, Line!Restarted, Line!Remembered
    <3> QED
      BY <2>2, <3>1
  <2>4. CASE ~ Line!Restarted(f)
    <3>1. Line!Known(f) = states
      BY <2>4 DEF Line!Known
    <3>2. Line!Remembered(f) = DOMAIN states
      <4>1. CASE active
        BY <1>3, <2>1, <2>4, <4>1 DEF Line!Restarted, Line!Remembered
      <4>2. CASE ~ active
        BY <2>1, <2>2, <4>2 DEF Line!Remembered
      <4> QED
        BY <4>1, <4>2
    <3> QED
      BY <3>1, <3>2
  <2> QED
    BY <2>3, <2>4
<1>5. ASSUME NEW t \in seen
      PROVE  before(t) \in Line!LineStates /\ path(t) \in Seq(Observations)
             /\ LineReady(before(t), path(t), f)
  <2>1. CASE t \in Line!Remembered(f)
    <3>1. t \in DOMAIN states /\ before(t) = states[t]
      BY <1>4, <2>1 DEF Line!StateOf
    <3>2. states[t] \in Line!LineStates
      BY <3>1 DEF LineInv, Line!TypeOK
    <3>3. LineTrack(states[t], history[t]) /\ history[t].path \in Seq(Observations)
      BY <3>1 DEF LineInv
    <3>4. path(t) = IF Line!Timed /\ ~ (f.seq = history[t].last.seq + 1
                                           /\ f.pts > history[t].last.pts) THEN << >>
                    ELSE history[t].path
      BY <2>1 DEF Line!Joins
    <3> HIDE DEF before, path
    <3>5. PICK l, h : l = states[t] /\ h = history[t]
      OBVIOUS
    <3>6. LineReady(l, path(t), f)
      BY <1>3, <3>2, <3>3, <3>4, <3>5, KnownIsReady
    <3> QED
      BY <3>1, <3>2, <3>3, <3>4, <3>5, <3>6
  <2>2. CASE t \notin Line!Remembered(f)
    <3>1. before(t) = Line!NoLine /\ path(t) = << >>
      BY <1>4, <2>2 DEF Line!StateOf, Line!Joins
    <3>2. Line!NoLine \in Line!LineStates
      BY LineConstants DEF Line!NoLine, Line!LineStates, Line!Sides
    <3> HIDE DEF before, path
    <3> QED
      BY <3>1, <3>2, UnknownIsReady
  <2> QED
    BY <2>1, <2>2
<1>6. ASSUME NEW t \in seen
      PROVE  /\ result(t).state \in Line!LineStates /\ result(t).state.seq = f.seq
             /\ LineTrack(result(t).state, trail(t))
             /\ trail(t).path \in Seq(Observations) /\ trail(t).last \in Observations
             /\ trail(t).last.seq = f.seq
             /\ (result(t).crossed /\ Line!Allowed(result(t).state.stable))
                  <=> Line!Crossed(trail(t))
  <2> DEFINE o == Line!Observation(f, sightings[t])
  <2>1. trail(t) = [last |-> o, path |-> IF ~ Line!Timed /\ Line!SideOf(sightings[t]) = 0
                                         THEN path(t) ELSE Append(path(t), o)]
    BY DEF Line!TrailOf
  <2>2. result(t) = Line!Applied(before(t), f, sightings[t]) /\ sightings[t] \in LinePlaces
    BY <1>2
  <2>3. o = Line!Observation(f, sightings[t])
    OBVIOUS
  <2> HIDE DEF result, trail, path, before, o
  <2>4. result(t).state \in Line!LineStates /\ result(t).state.seq = f.seq
    BY <1>3, <1>5, <2>2, LineObservation
  <2>5. PICK was, s, point, a, h : /\ was = before(t) /\ s = path(t) /\ point = sightings[t]
                                   /\ a = result(t) /\ h = trail(t)
    OBVIOUS
  <2>6. /\ LineTrack(a.state, h) /\ h.path \in Seq(Observations) /\ h.last \in Observations
        /\ h.last.seq = f.seq
        /\ (a.crossed /\ Line!Allowed(a.state.stable)) <=> Line!Crossed(h)
    <3>1. /\ was \in Line!LineStates /\ s \in Seq(Observations) /\ LineReady(was, s, f)
          /\ point \in LinePlaces /\ o = Line!Observation(f, point)
          /\ a = Line!Applied(was, f, point)
          /\ h = [last |-> o, path |-> IF ~ Line!Timed /\ Line!SideOf(point) = 0 THEN s
                                       ELSE Append(s, o)]
      BY <1>5, <2>1, <2>2, <2>3, <2>5
    <3> QED
      BY <1>3, <3>1, LineTrackStep
  <2> QED
    BY <2>4, <2>5, <2>6
<1> HIDE DEF before, result, trail, path
<1>7. /\ frame' = f /\ active' = TRUE
      /\ \A t \in seen : t \in DOMAIN states' /\ states'[t] = result(t).state
      /\ \A t \in DOMAIN states' \ seen : states'[t] = states[t]
      /\ \A t : t \notin seen =>
           (t \in DOMAIN states' <=> /\ t \in Line!Remembered(f)
                                     /\ f.seq - states[t].seq <= LineStaleAfter)
  <2>1. PICK r : r = results
    OBVIOUS
  <2>2. DOMAIN r = seen /\ \A t \in seen : r[t] = result(t).state
    BY <2>1
  <2> HIDE DEF results, seen
  <2>3. /\ Line!Apply(f, Line!Known(f), r) /\ LineStaleAfter \in Nat
        /\ \A t \in DOMAIN r : r[t].seq = f.seq
    BY <1>1, <1>6, <2>1, <2>2, LineConstants
  <2>4. /\ DOMAIN r \subseteq DOMAIN states'
        /\ \A t \in DOMAIN r : states'[t] = r[t]
        /\ \A t \in DOMAIN states' \ DOMAIN r : states'[t] = Line!Known(f)[t]
        /\ \A t : t \notin DOMAIN r =>
             (t \in DOMAIN states' <=> /\ t \in DOMAIN Line!Known(f)
                                       /\ f.seq - Line!Known(f)[t].seq <= LineStaleAfter)
    BY <1>3, <2>3, MergedAndPruned DEF Line!Apply, Line!Pruned
  <2> QED
    BY <1>4, <2>2, <2>3, <2>4 DEF Line!Apply
<1> HIDE DEF seen, results
<1>8. \A t \in Line!Remembered(f) :
        /\ t \in DOMAIN states /\ history[t].last.seq = states[t].seq
        /\ states[t].seq <= frame.seq /\ states[t].seq \in Nat
  BY <1>4 DEF LineInv, LineTrack, Line!MemoryBounded, Line!TypeOK, Line!LineStates
<1>9. DOMAIN states' = DOMAIN history'
  <2>1. ASSUME NEW t PROVE t \in DOMAIN states' <=> t \in DOMAIN history'
    BY <1>1, <1>7, <1>8
  <2> QED
    BY <2>1
<1>10. \A t \in DOMAIN states' \ seen :
         /\ t \in Line!Remembered(f) /\ states'[t] = states[t] /\ history'[t] = history[t]
         /\ f.seq - states[t].seq <= LineStaleAfter
  BY <1>1, <1>7, <1>9
<1>11. ASSUME NEW t \in DOMAIN states'
       PROVE  /\ history'[t].path \in Seq(Observations) /\ history'[t].last \in Observations
              /\ LineTrack(states'[t], history'[t])
              /\ states'[t] \in Line!LineStates
              /\ states'[t].seq <= f.seq /\ f.seq - states'[t].seq <= LineStaleAfter
              /\ t \in seen <=> history'[t].last.seq = f.seq
  <2>1. CASE t \in seen
    <3>1. states'[t] = result(t).state /\ history'[t] = trail(t)
      BY <1>1, <1>7, <1>9, <2>1
    <3>2. f.seq <= f.seq /\ f.seq - f.seq <= LineStaleAfter
      BY <1>3, LineConstants
    <3> QED
      BY <1>6, <2>1, <3>1, <3>2
  <2>2. CASE t \notin seen
    <3>1. /\ t \in DOMAIN states /\ states'[t] = states[t] /\ history'[t] = history[t]
          /\ f.seq - states[t].seq <= LineStaleAfter
          /\ history[t].last.seq = states[t].seq
          /\ states[t].seq <= frame.seq /\ states[t].seq \in Nat
      BY <1>8, <1>10, <2>2
    <3>2. states[t].seq < f.seq
      BY <1>3, <3>1
    <3>3. /\ history[t].path \in Seq(Observations) /\ history[t].last \in Observations
          /\ LineTrack(states[t], history[t]) /\ states[t] \in Line!LineStates
      BY <3>1 DEF LineInv, Line!TypeOK
    <3> QED
      BY <1>3, <2>2, <3>1, <3>2, <3>3
  <2> QED
    BY <2>1, <2>2
<1>12. ASSUME NEW t \in DOMAIN states'
       PROVE  LineTrack(states[t], history[t])'
  <2>1. PICK l, h : l = states'[t] /\ h = history'[t]
    OBVIOUS
  <2>2. LineTrack(l, h)'
    BY <1>1, <1>11, <2>1, LineTrackKept
  <2> QED
    BY <2>1, <2>2
<1>13. Line!TypeOK'
  <2>1. DOMAIN states' \subseteq Tracks
    BY <1>2, <1>8, <1>10 DEF LineInv, Line!TypeOK
  <2>2. events' \subseteq Tracks
    BY <1>1, <1>2
  <2>3. \A t \in DOMAIN history' :
          \A i \in DOMAIN history'[t].path : history'[t].path[i].place \in LinePlaces
    <3>1. \A o \in Observations : o.place \in LinePlaces
      BY DEF Observations
    <3>2. ASSUME NEW t \in DOMAIN history', NEW i \in DOMAIN history'[t].path
          PROVE  history'[t].path[i] \in Observations
      <4>1. history'[t].path \in Seq(Observations)
        BY <1>9, <1>11
      <4> QED
        BY <4>1
    <3> QED
      BY <3>1, <3>2
  <2>4. frame'.seq \in -1 .. LineBounds.seq /\ frame'.pts \in Nat
        /\ frame'.gen \in 0 .. LineBounds.gen
    BY <1>3, <1>7, LineConstants
  <2>5. \A t \in DOMAIN states' : states'[t] \in Line!LineStates
    BY <1>11
  <2> QED
    BY <1>1, <1>3, <1>7, <1>9, <2>1, <2>2, <2>3, <2>4, <2>5 DEF Line!TypeOK
<1>14. Line!MemoryBounded'
  BY <1>7, <1>11 DEF Line!MemoryBounded
<1>15. Line!EventsAreCrossings'
  <2>1. ASSUME NEW t
        PROVE  t \in events'
                 <=> /\ t \in DOMAIN history' /\ history'[t].last.seq = frame'.seq
                     /\ Line!Crossed(history[t])'
    <3>1. CASE t \in seen
      <4>1. /\ t \in DOMAIN states' /\ history'[t] = trail(t) /\ t \in DOMAIN history'
            /\ history'[t].last.seq = f.seq
        BY <1>1, <1>7, <1>9, <1>11, <3>1
      <4>2. PICK h : h = history'[t]
        OBVIOUS
      <4>3. Line!Crossed(h)' <=> Line!Crossed(h)
        BY <1>1, LineTrackKept
      <4>4. t \in events' <=> Line!Crossed(h)
        BY <1>1, <1>6, <3>1, <4>1, <4>2
      <4> QED
        BY <1>7, <4>1, <4>2, <4>3, <4>4
    <3>2. CASE t \notin seen
      BY <1>1, <1>7, <1>9, <1>11, <3>2
    <3> QED
      BY <3>1, <3>2
  <2> QED
    BY <2>1 DEF Line!EventsAreCrossings
<1> QED
  BY <1>7, <1>9, <1>11, <1>12, <1>13, <1>14, <1>15 DEF LineInv

LEMMA LineInitial ==
  ASSUME Line!Init
  PROVE  LineInv
<1>1. /\ frame = [seq |-> -1, pts |-> 0, gen |-> 0] /\ active = FALSE
      /\ states = << >> /\ history = << >> /\ events = {} /\ rule \in LineRules
  BY DEF Line!Init, Line!TimelineInit
<1>2. DOMAIN states = {} /\ DOMAIN history = {}
  BY <1>1
<1>3. Line!TypeOK
  <2>1. frame.seq \in -1 .. LineBounds.seq /\ frame.pts \in Nat
        /\ frame.gen \in 0 .. LineBounds.gen
    BY <1>1, LineConstants
  <2> QED
    BY <1>1, <1>2, <2>1 DEF Line!TypeOK
<1> QED
  BY <1>1, <1>2, <1>3 DEF LineInv, Line!MemoryBounded, Line!EventsAreCrossings

LEMMA LineResetStep ==
  ASSUME LineInv, Line!Reset
  PROVE  LineInv'
<1>1. /\ frame' = frame /\ rule' = rule /\ active' = FALSE
      /\ states' = << >> /\ history' = << >> /\ events' = {}
  BY DEF Line!Reset, Line!Forget
<1>2. DOMAIN states' = {} /\ DOMAIN history' = {}
  BY <1>1
<1> QED
  BY <1>1, <1>2 DEF LineInv, Line!TypeOK, Line!MemoryBounded, Line!EventsAreCrossings

LEMMA LineUnchanged ==
  ASSUME LineInv, UNCHANGED <<rule, frame, active, states, events, history>>
  PROVE  LineInv'
<1>1. \A t \in DOMAIN states : LineTrack(states[t], history[t])'
  <2> SUFFICES ASSUME NEW t \in DOMAIN states
               PROVE  LineTrack(states[t], history[t])'
    OBVIOUS
  <2>1. PICK l, h : l = states[t] /\ h = history[t] /\ l = states'[t] /\ h = history'[t]
    OBVIOUS
  <2>2. LineTrack(l, h)'
    BY <2>1, LineTrackKept DEF LineInv
  <2> QED
    BY <2>1, <2>2
<1>2. Line!EventsAreCrossings'
  <2>1. \A t \in DOMAIN history : Line!Crossed(history[t])' <=> Line!Crossed(history[t])
    <3> SUFFICES ASSUME NEW t \in DOMAIN history
                 PROVE  Line!Crossed(history[t])' <=> Line!Crossed(history[t])
      OBVIOUS
    <3>1. PICK h : h = history[t] /\ h = history'[t]
      OBVIOUS
    <3>2. Line!Crossed(h)' <=> Line!Crossed(h)
      BY LineTrackKept
    <3> QED
      BY <3>1, <3>2
  <2> QED
    BY <2>1 DEF LineInv, Line!EventsAreCrossings
<1> QED
  BY <1>1, <1>2 DEF LineInv, Line!TypeOK, Line!MemoryBounded

-----------------------------------------------------------------------------
(* The engine: the invariant, kind by kind, and what it says.              *)

LEMMA RulesInitial == Init => RulesInv
<1> SUFFICES ASSUME Init
             PROVE  RulesInv
  OBVIOUS
<1>1. CASE kind = "roi_intrusion" /\ Roi!Init
  BY <1>1, RoiInitial DEF RulesInv
<1>2. CASE kind = "dwell" /\ Dwell!Init
  BY <1>2, DwellInitial DEF RulesInv
<1>3. CASE kind = "line_crossing" /\ Line!Init /\ barred = {}
  BY <1>3, LineInitial DEF RulesInv
<1>4. CASE kind = "geometry" /\ GeometryInit
  <2>1. \A p \in Vertices : p \in Plane
    BY RulesAssumption DEF Vertices, Grid, Plane
  <2>2. /\ rule \in [1 .. 4 -> Vertices] /\ frame = Point(0, 0)
        /\ \A i, j \in 1 .. 4 : i # j => rule[i] # rule[j]
    BY <1>4 DEF GeometryInit
  <2>3. GeometryInv
    BY <2>1, <2>2 DEF GeometryInv, Point, Plane
  <2> QED
    BY <1>4, <2>3 DEF RulesInv
<1> QED
  BY <1>1, <1>2, <1>3, <1>4 DEF Init

LEMMA RulesStep ==
  ASSUME RulesInv, [Next]_vars
  PROVE  /\ RulesInv'
         /\ [kind = "roi_intrusion" => Roi!ReentersAfterDeparture]_vars
         /\ [kind = "dwell" => Dwell!DwellsOnce]_vars
<1>1. CASE UNCHANGED vars
  <2>1. /\ kind' = kind
        /\ UNCHANGED <<rule, frame, active, states, events, history, barred>>
    BY <1>1 DEF vars
  <2>2. RulesInv'
    BY <2>1, RoiUnchanged, DwellUnchanged, LineUnchanged DEF RulesInv, GeometryInv
  <2> QED
    BY <1>1, <2>2
<1>2. CASE ~ UNCHANGED vars /\ Next
  <2>1. kind' = kind
    BY <1>2 DEF Next
  <2>2. CASE kind = "roi_intrusion" /\ Roi!Next
    <3>1. RoiInv
      BY <2>2 DEF RulesInv
    <3>2. ~ Roi!Over
      BY <1>2, <2>1 DEF Roi!Over, Roi!vars, vars
    <3>3. RoiInv' /\ Roi!ReentersAfterDeparture
      BY <2>2, <3>1, <3>2, RoiUpdateStep, RoiResetStep DEF Roi!Next
    <3> QED
      BY <2>1, <2>2, <3>3 DEF RulesInv
  <2>3. CASE kind = "dwell" /\ Dwell!Next
    <3>1. DwellInv
      BY <2>3 DEF RulesInv
    <3>2. ~ Dwell!Over
      BY <1>2, <2>1 DEF Dwell!Over, Dwell!vars, vars
    <3>3. DwellInv' /\ Dwell!DwellsOnce
      BY <2>3, <3>1, <3>2, DwellUpdateStep, DwellResetStep DEF Dwell!Next
    <3> QED
      BY <2>1, <2>3, <3>3 DEF RulesInv
  <2>4. CASE kind = "line_crossing" /\ Line!Next /\ UNCHANGED barred
    <3>1. LineInv
      BY <2>4 DEF RulesInv
    <3>2. ~ Line!Over
      BY <1>2, <2>1, <2>4 DEF Line!Over, Line!vars, vars
    <3>3. LineInv'
      BY <2>4, <3>1, <3>2, LineUpdateStep, LineResetStep DEF Line!Next
    <3> QED
      BY <2>1, <2>4, <3>3 DEF RulesInv
  <2>5. CASE kind = "geometry" /\ Sweep
    <3>1. GeometryInv /\ GridSize \in Nat
      BY <2>5, RulesAssumption DEF RulesInv
    <3>2. rule' = rule /\ frame' \in Plane
      BY <2>5, <3>1 DEF Sweep, GeometryInv, Point, Plane
    <3> QED
      BY <2>1, <2>5, <3>1, <3>2 DEF RulesInv, GeometryInv
  <2> QED
    BY <1>2, <2>2, <2>3, <2>4, <2>5 DEF Next
<1> QED
  BY <1>1, <1>2

LEMMA Invariance == Spec => []RulesInv
<1>1. RulesInv /\ [Next]_vars => RulesInv'
  BY RulesStep
<1> QED
  BY <1>1, RulesInitial, PTL DEF Spec

\* A rule's states have their types, and the maps of an engine hold no track for
\* longer than stale_after_frames (prune_stale), however long the media is.
THEOREM TypeCorrect == Spec => []TypeOK
<1>1. RulesInv => TypeOK
  BY DEF RulesInv, RoiInv, DwellInv, LineInv, TypeOK
<1> QED
  BY <1>1, Invariance, PTL

\* No intrusion without its observations, for every number of confirmation frames,
\* every duration and every stale limit: update_roi's candidate never outlasts the
\* run of observations it stands for.
THEOREM IntrusionsAreObserved == Spec => []IntrusionIsObserved
<1>1. RulesInv => IntrusionIsObserved
  BY DEF RulesInv, RoiInv, IntrusionIsObserved
<1> QED
  BY <1>1, Invariance, PTL

\* Between two intrusions of a track there is a departure (update_roi): a track
\* that raised one is inside as long as no departure is confirmed.
THEOREM IntrusionsAreSeparated == Spec => NoReentryWithoutDeparture
<1>1. RulesInv /\ [Next]_vars => [kind = "roi_intrusion" => Roi!ReentersAfterDeparture]_vars
  BY RulesStep
<1> QED
  BY <1>1, Invariance, PTL DEF Spec, NoReentryWithoutDeparture

\* A rearming dwell rule counts only time in which the track was seen, whatever the
\* dwell time and the gap it tolerates (update_dwell).
THEOREM DwellsAreWatched == Spec => []RearmedDwellIsWatched
<1>1. RulesInv => RearmedDwellIsWatched
  BY DEF RulesInv, DwellInv, RearmedDwellIsWatched
<1> QED
  BY <1>1, Invariance, PTL

\* One stay, one event (update_dwell): as long as no departure is confirmed and the
\* state does not expire, emitted stays set.
THEOREM DwellsAreRaisedOnce == Spec => OneDwellPerVisit
<1>1. RulesInv /\ [Next]_vars => [kind = "dwell" => Dwell!DwellsOnce]_vars
  BY RulesStep
<1> QED
  BY <1>1, Invariance, PTL DEF Spec, OneDwellPerVisit

\* A crossing is raised if and only if the path across the line says so, for any line,
\* number of confirmation frames and confirmation time, with any gaps in the frames
\* (update_lines, update_confirmed_line): the rule keeps one point and one flag of the
\* way a track has come, and never needs more.
THEOREM CrossingsAreObserved == Spec => []CrossingIsObserved
<1>1. RulesInv => CrossingIsObserved
  BY DEF RulesInv, LineInv, CrossingIsObserved
<1> QED
  BY <1>1, Invariance, PTL

\* segments_intersect is right for segments of any size (its signs of the
\* denominator, and both ends of either segment).
THEOREM IntersectionsAreExact == Spec => []IntersectionSeparates
<1>1. RulesInv => IntersectionSeparates
  <2> SUFFICES ASSUME kind = "geometry", GeometryInv
               PROVE  IntersectionSeparates
    BY DEF RulesInv, IntersectionSeparates
  <2>1. rule[1] \in Plane /\ rule[2] \in Plane /\ rule[3] \in Plane /\ frame \in Plane
    BY DEF GeometryInv
  <2>2. PICK p \in Plane, q \in Plane, a \in Plane, b \in Plane :
          p = rule[1] /\ q = frame /\ a = rule[2] /\ b = rule[3]
    BY <2>1
  <2>3. SegmentsIntersect(p, q, a, b)
          <=> /\ Cross(p, q, [x |-> p.x + b.x - a.x, y |-> p.y + b.y - a.y]) # 0
              /\ Cross(p, q, a) * Cross(p, q, b) <= 0
              /\ Cross(a, b, p) * Cross(a, b, q) <= 0
    BY SegmentsSeparate
  <2> QED
    BY <2>2, <2>3 DEF IntersectionSeparates, Point
<1> QED
  BY <1>1, Invariance, PTL

\* point_in_polygon decides what is inside a region of four corners, convex or
\* dented, wherever the point and the corners are.
THEOREM InsideIsExact == Spec => []InsideIsInATriangle
<1>1. RulesInv => InsideIsInATriangle
  <2> SUFFICES ASSUME kind = "geometry", GeometryInv, Cut
               PROVE  InPolygon(frame, rule)
                        <=> \/ InTriangle(frame, rule[1], rule[2], rule[3])
                            \/ InTriangle(frame, rule[1], rule[3], rule[4])
    BY DEF RulesInv, InsideIsInATriangle
  <2>1. PICK region \in [1 .. 4 -> Plane], p \in Plane : region = rule /\ p = frame
    BY DEF GeometryInv
  <2>2. \A i, j \in 1 .. 4 : i # j => region[i] # region[j]
    BY <2>1 DEF GeometryInv
  <2>3. Cross(region[1], region[3], region[2]) * Cross(region[1], region[3], region[4]) < 0
    BY <2>1 DEF Cut
  <2> QED
    BY <2>1, <2>2, <2>3, InsideIsInTriangles
<1> QED
  BY <1>1, Invariance, PTL
=============================================================================
