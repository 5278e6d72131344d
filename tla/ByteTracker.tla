----------------------------- MODULE ByteTracker ----------------------------
(***************************************************************************)
(* ByteTracker (src/byte_tracker.cpp): one tracker of the vendored         *)
(* ByteTrack (third_party/bytetrack) per class, behind one series of track *)
(* numbers.                                                                *)
(*                                                                         *)
(* Boxes are left out.  What depends on them - which track a detection is  *)
(* matched with, which tracked and lost track are found to be the same -   *)
(* is any choice.  An update of a tracker is the set of its outcomes.      *)
(***************************************************************************)
EXTENDS Integers, FiniteSets, Functions

CONSTANTS
  Classes,       \* class ids, numbers
  Detections,    \* the detections a frame can have in one class, numbers
  Scores,        \* the scores a detection can have
  MaxTimeLost    \* max_time_lost = int(frame_rate / 30 * track_buffer)

\* A detection's score: below track_threshold, from there on, or from
\* new_track_threshold on.
ASSUME ScoreAssumption ==
  /\ Classes \subseteq Nat /\ Detections \subseteq Nat /\ IsFiniteSet(Detections)
  /\ Scores \subseteq {"low", "high", "new"} /\ MaxTimeLost \in Nat

\* One class's tracker: its updates, its tracks (tracked_stracks and
\* lost_stracks), and the tracks among them it has already removed.
NewTracker == [frame |-> 0, tracks |-> {}, removed |-> {}]

InState(tracker, state) == {t \in tracker.tracks : t.state = state}

\* The ways to match some of a with some of b, one to one.
Matchings(a, b) ==
  UNION {{m \in [s -> b] : IsInjective(m)} : s \in SUBSET a}

Ids(tracks) == {t.id : t \in tracks}

\* Mutated: tracks start anew from the first number in every tracker.
Born_Renumbered(objects, next, frame) ==
  {[id |-> 1 + Cardinality({p \in objects : p < o}),
    state |-> IF frame = 1 THEN "tracked" ELSE "unconfirmed",
    start |-> frame, end |-> frame] : o \in objects}

\* A track for each detection left over that is sure enough; in a tracker's
\* first frame it is confirmed at once.
Born(objects, next, frame) ==
  {[id |-> next + Cardinality({p \in objects : p < o}),
    state |-> IF frame = 1 THEN "tracked" ELSE "unconfirmed",
    start |-> frame, end |-> frame] : o \in objects}

\* remove_duplicate_stracks: of two that are the same the one with the longer
\* history stays.
WithoutDuplicates(tracks, same) ==
  LET older(p) == p[1].end - p[1].start > p[2].end - p[2].start
  IN  tracks \ ({p[1] : p \in {q \in same : ~ older(q)}}
                  \cup {p[2] : p \in {q \in same : older(q)}})

\* Mutated: a lost track never expires.
Expired_Never(lost, frame) == {}

Expired(lost, frame) == {t \in lost : frame - t.end > MaxTimeLost}

\* BYTETracker::update with one choice of the matches: the confirmed and the
\* lost tracks take the sure detections, the confirmed ones left the doubtful
\* ones, the unconfirmed what is left of the first.  A lost track that expires is
\* noted as removed only after those noted before have left the lost tracks:
\* it stays with them for one more update.
Outcome(tracker, score, next, first, second, third) ==
  LET frame == tracker.frame + 1
      confirmed == InState(tracker, "tracked")
      lost == InState(tracker, "lost")
      matched == DOMAIN first \cup DOMAIN second \cup DOMAIN third
      over == {o \in DOMAIN score \ (Range(first) \cup Range(third)) : score[o] = "new"}
      tracked == {[t EXCEPT !.state = "tracked", !.end = frame] : t \in matched}
                   \cup Born(over, next, frame)
      missed == {[t EXCEPT !.state = "lost"] : t \in confirmed \ matched}
      stay == {t \in (lost \ matched) \cup missed : t.id \notin tracker.removed}
      tracks == tracked \cup stay
  IN  [tracker |-> [frame |-> frame, tracks |-> tracks,
                    removed |-> (tracker.removed \cup Ids(Expired(lost \ matched, frame)))
                                  \cap Ids(tracks)],
       next |-> next + Cardinality(over)]

Outcomes(tracker, score, next) ==
  LET confirmed == InState(tracker, "tracked")
      sure == {o \in DOMAIN score : score[o] # "low"}
      doubtful == DOMAIN score \ sure
  IN  UNION {UNION {{Outcome(tracker, score, next, first, second, third) :
                       third \in Matchings(InState(tracker, "unconfirmed"),
                                           sure \ Range(first))} :
                      second \in Matchings(confirmed \ DOMAIN first, doubtful)} :
               first \in Matchings(confirmed \cup InState(tracker, "lost"), sure)}

Deduplicated(tracker) ==
  {[tracker EXCEPT !.tracks = WithoutDuplicates(@, same)] :
     same \in SUBSET ((InState(tracker, "tracked") \cup InState(tracker, "unconfirmed"))
                        \X InState(tracker, "lost"))}

-----------------------------------------------------------------------------
(* The adapter: a state is the trackers by class and the next track number. *)
(* ByteTracker::update takes the classes in ascending order: see FrameLoop. *)

NoTrackers == [c \in {} |-> NewTracker]

\* A class has a tracker from its first detection on.
TrackerOf(state, class) ==
  IF class \in DOMAIN state.trackers THEN state.trackers[class] ELSE NewTracker

\* One class's turn in ByteTracker::update, with the detections of its own only.
ClassUpdated(state, class, score) ==
  IF class \notin DOMAIN state.trackers /\ DOMAIN score = {} THEN {state}
  ELSE UNION {{[trackers |-> [c \in DOMAIN state.trackers \cup {class} |->
                                IF c = class THEN tracker ELSE state.trackers[c]],
                 next |-> o.next] : tracker \in Deduplicated(o.tracker)} :
                o \in Outcomes(TrackerOf(state, class), score, state.next)}

\* What its turn adds to what the update returns: the confirmed tracks, all found.
Found(state, class) ==
  IF class \in DOMAIN state.trackers
  THEN Ids(InState(state.trackers[class], "tracked"))
  ELSE {}
=============================================================================
