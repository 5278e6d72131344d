-------------------------------- MODULE Dwell -------------------------------
(***************************************************************************)
(* An event engine with one dwell rule: update() and reset() of            *)
(* SafetyEventEngine, update_dwell of src/event_analytics.cpp.  The anchor *)
(* of a track is inside the region ("in") or not ("out").                  *)
(***************************************************************************)
EXTENDS EventTimeline, Occupancy

CONSTANTS
  DwellTime,    \* dwell_time_ns
  MaxGap,       \* max_gap_frames
  Rearms        \* rearm_on_observed_exit: the settings tried

DwellAssumption ==
  /\ TimelineAssumption /\ ConfirmationAssumption
  /\ DwellTime \in Nat \ {0}
  /\ MaxGap \in Nat /\ MaxGap < StaleAfter
  /\ Rearms \subseteq BOOLEAN
  /\ Places = {"in", "out"}

VARIABLE rearm    \* the rule's setting, never changed

\* History: what was seen of each track, and the tracks whose last event has
\* not been followed by a departure.
VARIABLES watch, barred

vars == <<rearm, frame, active, states, events, watch, barred>>

Init ==
  /\ rearm \in Rearms
  /\ TimelineInit
  /\ watch = << >>
  /\ barred = {}

-----------------------------------------------------------------------------
DwellStates ==
  [occupancy : Occupancies, emitted : BOOLEAN, enteredAt : Nat, seq : Nat]

NoDwell ==
  [occupancy |-> NoOccupancy, emitted |-> FALSE, enteredAt |-> 0, seq |-> 0]

\* With rearming a state ends at the stale limit, also when no frame came
\* between in which it could have been pruned.
Expired(d, f) ==
  /\ rearm
  /\ d.occupancy.initialized \/ d.occupancy.candidate # "none"
  /\ f.seq - d.seq > StaleAfter

\* Mutated: the gap is measured against the stale limit.
GapTooLong_StaleLimit(d, f) ==
  /\ d.occupancy.initialized /\ f.seq - d.seq - 1 > StaleAfter
  /\ ~ (rearm /\ d.emitted)

\* With rearming an event that was raised outlasts the gap.
GapTooLong(d, f) ==
  /\ d.occupancy.initialized /\ f.seq - d.seq - 1 > MaxGap
  /\ ~ (rearm /\ d.emitted)

Regressed(d, f) == d.occupancy.initialized /\ f.pts < d.occupancy.pts

Kept(d, f) ==
  IF Expired(d, f) \/ GapTooLong(d, f) \/ Regressed(d, f) THEN NoDwell ELSE d

\* Mutated: observations are joined whatever lies between them.
Interrupted_Never(d, f) == Kept(d, f)

\* With rearming, only observations of consecutive frames at advancing times
\* add up to a change of side.
Interrupted(d, f) ==
  LET kept == Kept(d, f)
  IN  IF rearm /\ (f.seq # kept.seq + 1 \/ f.pts <= kept.occupancy.pts)
      THEN [kept EXCEPT !.occupancy.candidate = "none"]
      ELSE kept

\* The observation, before the dwell time is looked at: a change of side begins
\* or ends a stay.
Observed(d, f, place) ==
  LET kept == Interrupted(d, f)
      o == Occupied(kept.occupancy, place = "in", f, 0, 0)
      enters == Entered(kept.occupancy, o)
      exits == Exited(kept.occupancy, o)
  IN  [occupancy |-> o,
       emitted   |-> kept.emitted /\ ~ enters /\ ~ exits,
       enteredAt |-> IF enters THEN o.since
                     ELSE IF exits THEN 0 ELSE kept.enteredAt,
       seq       |-> f.seq]

Dwells(d, f, place) ==
  LET seen == Observed(d, f, place)
  IN  /\ seen.occupancy.initialized /\ seen.occupancy.stableInside
      /\ ~ seen.emitted
      /\ f.pts - seen.enteredAt >= DwellTime

\* The state after the frame.
Settled(d, f, place) ==
  [Observed(d, f, place) EXCEPT !.emitted = @ \/ Dwells(d, f, place)]

-----------------------------------------------------------------------------
(* History.  A visit begins with an observation inside; it ends with as    *)
(* many observations outside as confirm a departure, or with an absence of *)
(* more than MaxGap frames.  Observations outside are joined across an     *)
(* absence that short, but with rearming across none.                      *)

Watches ==
  [visiting : BOOLEAN, since : Nat, outs : 0 .. ConfirmationFrames,
   seq : Nat, pts : Nat]

Unwatched == [visiting |-> FALSE, since |-> 0, outs |-> 0, seq |-> 0, pts |-> 0]

Remembered(f) ==
  IF active /\ f.gen = frame.gen /\ f.pts >= frame.pts
  THEN {t \in DOMAIN watch : f.seq - watch[t].seq <= StaleAfter}
  ELSE {}

Absent(f, t) == t \notin Remembered(f) \/ f.seq - watch[t].seq - 1 > MaxGap

Joined(f, t) ==
  /\ ~ Absent(f, t)
  /\ rearm => f.seq = watch[t].seq + 1 /\ f.pts > watch[t].pts

WatchOf(f, t, place) ==
  LET earlier == IF t \in Remembered(f) THEN watch[t] ELSE Unwatched
      outs == IF place = "in" THEN 0
              ELSE IF ~ Joined(f, t) THEN 1
              ELSE IF earlier.outs = ConfirmationFrames THEN ConfirmationFrames
              ELSE earlier.outs + 1
      goesOn == earlier.visiting /\ ~ Absent(f, t) /\ outs < ConfirmationFrames
  IN  [visiting |-> goesOn \/ place = "in",
       since    |-> IF goesOn THEN earlier.since ELSE f.pts,
       outs     |-> outs, seq |-> f.seq, pts |-> f.pts]

-----------------------------------------------------------------------------
(* update() and reset()                                                    *)

Update ==
  \E f \in NextFrames, sightings \in Sightings :
    LET seen == DOMAIN sightings
        before(t) == StateOf(Known(f), t, NoDwell)
        latest == [t \in Remembered(f) \cup seen |->
                     IF t \in seen THEN WatchOf(f, t, sightings[t]) ELSE watch[t]]
        departed == {t \in seen : \/ latest[t].outs = ConfirmationFrames
                                  \/ ~ rearm /\ Absent(f, t)}
    IN  /\ Apply(f, Known(f), [t \in seen |-> Settled(before(t), f, sightings[t])])
        /\ events' = {t \in seen : Dwells(before(t), f, sightings[t])}
        /\ watch' = latest
        /\ barred' = ((barred \cap Remembered(f)) \ departed) \cup events'
        /\ UNCHANGED rearm

Reset == Forget /\ watch' = << >> /\ barred' = {} /\ UNCHANGED rearm

Over == Exhausted /\ UNCHANGED vars

Next == Update \/ Reset \/ Over

Spec == Init /\ [][Next]_vars

-----------------------------------------------------------------------------
(* Properties                                                              *)

TypeOK ==
  /\ rearm \in Rearms
  /\ frame.seq \in -1 .. MaxSeq /\ frame.pts \in Nat
  /\ frame.gen \in 0 .. MaxGeneration
  /\ active \in BOOLEAN
  /\ DOMAIN states \subseteq Tracks
  /\ \A t \in DOMAIN states : states[t] \in DwellStates
  /\ events \subseteq Tracks
  /\ DOMAIN watch \subseteq Tracks /\ barred \subseteq DOMAIN watch
  /\ \A t \in DOMAIN watch : watch[t] \in Watches

\* A dwell is raised only for a track that has been visiting the region for the
\* dwell time, without an absence of more than max_gap_frames: time in which
\* nobody saw the track is not time it stayed.
DwellIsWatched ==
  \A t \in events : watch[t].visiting /\ frame.pts - watch[t].since >= DwellTime

\* A track that stays raises one event: a second one needs a confirmed departure
\* (with rearming, one whose observations have no hole), an expired state, or,
\* without rearming, an absence that ends the visit.
DwellsOnce == events' \cap barred = {}
=============================================================================
