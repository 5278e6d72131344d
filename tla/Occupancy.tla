------------------------------ MODULE Occupancy -----------------------------
(***************************************************************************)
(* OccupancyState and update_occupancy of src/event_analytics.cpp: is a    *)
(* track inside a region, confirmed by repeated observations.  The ROI and *)
(* the dwell rules are built on it.                                        *)
(***************************************************************************)
EXTENDS Integers

CONSTANT
  ConfirmationFrames   \* confirmation_frames

ConfirmationAssumption == ConfirmationFrames \in Nat \ {0}

\* candidate joins has_candidate and candidate_inside.  count stops at the
\* confirmation count, the only value it is compared with; the code counts on
\* and stops at the largest 32-bit number.
Occupancies ==
  [initialized : BOOLEAN, stableInside : BOOLEAN,
   candidate : {"none", "inside", "outside"},
   count : 0 .. ConfirmationFrames, since : Nat, seq : Nat, pts : Nat]

NoOccupancy ==
  [initialized |-> FALSE, stableInside |-> FALSE, candidate |-> "none",
   count |-> 0, since |-> 0, seq |-> 0, pts |-> 0]

\* The observation begins a candidate or adds to it.
Observe(o, inside, pts) ==
  LET side == IF inside THEN "inside" ELSE "outside"
      more == IF o.count < ConfirmationFrames THEN o.count + 1 ELSE o.count
  IN  IF o.candidate # side
      THEN [o EXCEPT !.candidate = side, !.count = 1, !.since = pts]
      ELSE [o EXCEPT !.count = more]

\* The candidate has been seen often enough, and for long enough where a
\* duration is asked for: on entering, and on leaving.
Confirmed(o, inside, pts, exit, entry) ==
  /\ o.count >= ConfirmationFrames
  /\ inside /\ ~ (o.initialized /\ o.stableInside) => pts - o.since >= entry
  /\ ~ inside /\ o.initialized /\ o.stableInside => pts - o.since >= exit

\* The state after the observation, the frame it was made in noted.
Occupied(o, inside, f, exit, entry) ==
  LET seen == Observe(o, inside, f.pts)
  IN  [IF Confirmed(seen, inside, f.pts, exit, entry)
       THEN [seen EXCEPT !.initialized = TRUE, !.stableInside = inside]
       ELSE seen
       EXCEPT !.seq = f.seq, !.pts = f.pts]

\* The transition update_occupancy reports, from the states around it.
Entered(before, after) ==
  /\ after.initialized /\ after.stableInside
  /\ ~ (before.initialized /\ before.stableInside)

Exited(before, after) ==
  before.initialized /\ before.stableInside /\ ~ after.stableInside
=============================================================================
