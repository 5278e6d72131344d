---------------------------- MODULE RoiIntrusion ----------------------------
(***************************************************************************)
(* An event engine with one ROI intrusion rule: update() and reset() of    *)
(* SafetyEventEngine, update_roi of src/event_analytics.cpp.               *)
(*                                                                         *)
(* An anchor is "in" the region, "near" it (outside, but closer to its     *)
(* boundary than exit_margin) or "out".                                    *)
(***************************************************************************)
EXTENDS EventTimeline, Occupancy

CONSTANTS
  ExitMargins,          \* is exit_margin positive: the settings tried
  ExitConfirmations,    \* exit_confirmation_ns
  EntryConfirmations    \* entry_confirmation_ns

RoiAssumption ==
  /\ TimelineAssumption /\ ConfirmationAssumption
  /\ ExitMargins \subseteq BOOLEAN
  /\ ExitConfirmations \subseteq Nat /\ EntryConfirmations \subseteq Nat
  /\ Places = {"in", "near", "out"}

VARIABLE rule    \* the rule's guards, never changed

\* History: the unbroken run of observations each track is in, and the tracks
\* whose last event has not been followed by a departure.
VARIABLES run, barred

vars == <<rule, frame, active, states, events, run, barred>>

Rules ==
  [exitMargin : ExitMargins, exitConfirmation : ExitConfirmations,
   entryConfirmation : EntryConfirmations]

Init ==
  /\ rule \in Rules
  /\ TimelineInit
  /\ run = << >>
  /\ barred = {}

-----------------------------------------------------------------------------
Guarded ==
  rule.exitMargin \/ rule.exitConfirmation > 0 \/ rule.entryConfirmation > 0

ObservationGap(o, f) == f.seq - o.seq > 1

RepeatedPts(o, f) ==
  rule.entryConfirmation > 0 /\ o.candidate # "none" /\ f.pts <= o.pts

\* A guarded rule trusts only observations of consecutive frames: a gap ends the
\* candidate, and a gap beyond the stale limit ends the track's whole state.
Interrupted(o, f) ==
  IF Guarded /\ (ObservationGap(o, f) \/ RepeatedPts(o, f))
  THEN IF f.seq - o.seq > StaleAfter
       THEN NoOccupancy
       ELSE [o EXCEPT !.candidate = "none"]
  ELSE o

\* Mutated: the margin is not looked at.
Inside_IgnoresMargin(o, place) == place = "in"

\* Once inside, a track near the boundary still is.
Inside(o, place) ==
  \/ place = "in"
  \/ place = "near" /\ rule.exitMargin /\ o.initialized /\ o.stableInside

Observed(o, f, place) ==
  LET kept == Interrupted(o, f)
  IN  Occupied(kept, Inside(kept, place), f, rule.exitConfirmation,
              rule.entryConfirmation)

Intrudes(o, f, place) == Entered(Interrupted(o, f), Observed(o, f, place))

-----------------------------------------------------------------------------
(* History.  A run is a sequence of observations on one side of the        *)
(* region: of consecutive frames if the rule is guarded, with advancing    *)
(* time stamps if the entry is timed.  It is told apart from the code's    *)
(* candidate in that nothing the rule decides has an influence on it.      *)

Runs == [side : {"in", "near", "out"}, count : 1 .. ConfirmationFrames,
         since : Nat, seq : Nat, pts : Nat]

Side(place) == IF place = "near" /\ ~ rule.exitMargin THEN "out" ELSE place

\* The tracks of the present timeline that have not been away for too long.  An
\* unguarded rule finds that out only from the frames it is given: one that
\* follows a longer jump still joins what was seen before it.
Remembered(f) ==
  IF active /\ f.gen = frame.gen /\ f.pts >= frame.pts
  THEN {t \in DOMAIN run : Guarded => f.seq - run[t].seq <= StaleAfter}
  ELSE {}

Continues(f, t, place) ==
  /\ t \in Remembered(f)
  /\ run[t].side = Side(place)
  /\ Guarded => f.seq = run[t].seq + 1
  /\ rule.entryConfirmation > 0 => f.pts > run[t].pts

RunOf(f, t, place) ==
  LET count == IF ~ Continues(f, t, place) THEN 1
               ELSE IF run[t].count = ConfirmationFrames THEN ConfirmationFrames
               ELSE run[t].count + 1
      since == IF Continues(f, t, place) THEN run[t].since ELSE f.pts
  IN  [side |-> Side(place), count |-> count, since |-> since,
       seq |-> f.seq, pts |-> f.pts]

Lasts(r, side, duration) ==
  r.side = side /\ r.count >= ConfirmationFrames /\ r.pts - r.since >= duration

-----------------------------------------------------------------------------
(* update() and reset()                                                    *)

Update ==
  \E f \in NextFrames, sightings \in Sightings :
    LET seen == DOMAIN sightings
        before(t) == StateOf(Known(f), t, NoOccupancy)
        stale(t) == t \notin seen /\ f.seq - run[t].seq > StaleAfter
        latest == [t \in {u \in Remembered(f) \cup seen : ~ stale(u)} |->
                     IF t \in seen THEN RunOf(f, t, sightings[t]) ELSE run[t]]
        departed == {t \in seen : Lasts(latest[t], "out", rule.exitConfirmation)}
    IN  /\ Apply(f, Known(f), [t \in seen |-> Observed(before(t), f, sightings[t])])
        /\ events' = {t \in seen : Intrudes(before(t), f, sightings[t])}
        /\ run' = latest
        /\ barred' = ((barred \cap Remembered(f) \cap DOMAIN latest) \ departed)
                       \cup events'
        /\ UNCHANGED rule

Reset == Forget /\ run' = << >> /\ barred' = {} /\ UNCHANGED rule

Over == Exhausted /\ UNCHANGED vars

Next == Update \/ Reset \/ Over

Spec == Init /\ [][Next]_vars

-----------------------------------------------------------------------------
(* Properties                                                              *)

TypeOK ==
  /\ rule \in Rules
  /\ frame.seq \in -1 .. MaxSeq /\ frame.pts \in Nat
  /\ frame.gen \in 0 .. MaxGeneration
  /\ active \in BOOLEAN
  /\ DOMAIN states \subseteq Tracks
  /\ \A t \in DOMAIN states : states[t] \in Occupancies
  /\ events \subseteq Tracks
  /\ DOMAIN run \subseteq Tracks /\ barred \subseteq DOMAIN run
  /\ \A t \in DOMAIN run : run[t] \in Runs

\* An intrusion is raised only for a track that has been observed inside often
\* and long enough, without a hole in the observations of a guarded rule and
\* within the present timeline: neither a dropped frame nor a stream change nor
\* a repeated time stamp can stand in for an observation.
EventsAreObserved ==
  \A t \in events : Lasts(run[t], "in", rule.entryConfirmation)

\* Two intrusions of one track are separated by a departure, observed beyond
\* the exit margin without a hole for the exit duration, or by an absence
\* beyond the stale limit; trembling at the boundary raises no second event.
ReentersAfterDeparture ==
  \A t \in events' : t \in barred =>
    \/ frame'.gen # frame.gen \/ frame'.pts < frame.pts
    \/ Guarded /\ frame'.seq - run[t].seq > StaleAfter
=============================================================================
