------------------------------ MODULE FrameLoop -----------------------------
(***************************************************************************)
(* The frame loop of apps/realtime_detect.cpp: what it does with the       *)
(* frames it takes from the capture queue before anything is recorded.     *)
(* It keeps the tracker, the event rules and the clip writer to one        *)
(* stream: a new stream generation resets all of them, the end of the      *)
(* warm-up the tracker and the rules, and a hole in the sequence numbers   *)
(* ages the tracks by updates without detections.                          *)
(***************************************************************************)
EXTENDS ByteTracker

CONSTANTS
  TrackBuffer,      \* options.track_buffer
  WarmupFrames,     \* options.warmup_frames
  MaxSeq,           \* bound: the last sequence number
  Jumps,            \* bound: how far a sequence number can jump, a set
  MaxGeneration     \* bound: the last stream generation

ASSUME LoopAssumption ==
  /\ TrackBuffer \in Nat \ {0} /\ WarmupFrames \in Nat
  /\ MaxSeq \in Nat /\ Jumps \subseteq Nat \ {0} /\ MaxGeneration \in Nat \ {0}

VARIABLES
  frame,              \* the last frame taken: its sequence number, its generation
  activeGeneration,   \* active_stream_generation, 0 for none
  previous,           \* previous_sequence, 0 unless has_previous
  warmed,             \* warmup_processed
  tracking,           \* the tracker: see ByteTracker
  updating,           \* while a frame is tracked: the updates left, the running one
                      \* among them, the classes it has not come to yet, and
                      \* missing_frame_updates
  counted             \* measured_frames and sequence_gaps

\* History: the frames each collaborator has been given since it was reset, as
\* their generations and whether they were measured; for each track number, the
\* last frame it was returned for; the last measured frame, and the sequence
\* numbers passed from the first to the last one of each stretch.
VARIABLES fed, seen, lastMeasured, spanned

vars == <<frame, activeGeneration, previous, warmed, tracking, updating, counted,
          fed, seen, lastMeasured, spanned>>

Collaborators == {"tracker", "rules", "clips"}
Least(a, b) == IF a < b THEN a ELSE b

\* The frames that can come next; numbers run on over a restart of the source.
NextFrames ==
  {f \in [seq : {frame.seq + jump : jump \in Jumps},
          generation : {frame.generation, frame.generation + 1}] :
     f.seq <= MaxSeq /\ f.generation <= MaxGeneration}

\* The detections of one class in a frame: some, and how sure they are.
Scenes == UNION {[found -> Scores] : found \in SUBSET Detections}
NoDetections == [o \in {} |-> "new"]

Waiting == [left |-> 0, todo |-> {}, missing |-> 0]
Idle == updating.left = 0

Init ==
  /\ frame = [seq |-> 0, generation |-> 1]
  /\ activeGeneration = 0 /\ previous = 0 /\ warmed = 0
  /\ tracking = [trackers |-> NoTrackers, next |-> 1]
  /\ updating = Waiting
  /\ counted = [frames |-> 0, gaps |-> 0]
  /\ fed = [c \in Collaborators |-> {}] /\ seen = [id \in {} |-> frame]
  /\ lastMeasured = frame /\ spanned = 0

-----------------------------------------------------------------------------
NewStream(f) == activeGeneration # 0 /\ activeGeneration # f.generation

\* Mutated: only the rules are reset for a new stream.
Entered_KeepsTracks(f) ==
  [trackers |-> tracking.trackers,
   previous |-> IF NewStream(f) THEN 0 ELSE previous,
   fed |-> IF NewStream(f) THEN [fed EXCEPT !["rules"] = {}, !["clips"] = {}] ELSE fed]

\* What is left when a frame of a new stream has reset the collaborators.
Entered(f) ==
  [trackers |-> IF NewStream(f) THEN NoTrackers ELSE tracking.trackers,
   previous |-> IF NewStream(f) THEN 0 ELSE previous,
   fed |-> IF NewStream(f) THEN [c \in Collaborators |-> {}] ELSE fed]

\* A frame without data is counted and otherwise passed over.
InvalidFrame ==
  \E f \in NextFrames :
    /\ Idle
    /\ frame' = f
    /\ UNCHANGED <<activeGeneration, previous, warmed, tracking, updating, counted,
                   fed, seen, lastMeasured, spanned>>

\* Warm-up frames go through detector and tracker only.
WarmupFrame ==
  \E f \in NextFrames :
    LET e == Entered(f) IN
    /\ Idle /\ warmed < WarmupFrames
    /\ frame' = f
    /\ activeGeneration' = f.generation
    /\ previous' = e.previous
    /\ tracking' = [tracking EXCEPT !.trackers = e.trackers]
    /\ updating' = [left |-> 1, todo |-> Classes, missing |-> 0]
    /\ fed' = [e.fed EXCEPT !["tracker"] = @ \cup {<<f.generation, FALSE>>}]
    /\ UNCHANGED <<warmed, counted, seen, lastMeasured, spanned>>

\* missing_frame_updates
Missing(e, f) == IF e.previous = 0 THEN 0 ELSE f.seq - e.previous - 1

\* A measured frame.  Frames missing since the previous one age the tracks by
\* updates of their own, but no more than track_buffer + 1 of them.
MeasuredFrame ==
  \E f \in NextFrames :
    LET e == Entered(f)
        missing == Missing(e, f)
    IN
    /\ Idle /\ warmed = WarmupFrames
    /\ frame' = f
    /\ activeGeneration' = f.generation
    /\ previous' = f.seq
    /\ counted' = [counted EXCEPT !.gaps = @ + missing]
    /\ tracking' = [tracking EXCEPT !.trackers = e.trackers]
    /\ updating' = [left |-> Least(missing, TrackBuffer + 1) + 1,
                    todo |-> Classes, missing |-> missing]
    /\ fed' = [e.fed EXCEPT !["tracker"] = @ \cup {<<f.generation, TRUE>>}]
    /\ lastMeasured' = f
    /\ spanned' = IF lastMeasured.seq # 0 /\ lastMeasured.generation = f.generation
                  THEN spanned + f.seq - lastMeasured.seq - 1
                  ELSE spanned
    /\ UNCHANGED <<warmed, seen>>

\* The tracks an update returns are seen.
Noted(found, class) ==
  [id \in DOMAIN seen \cup found |->
     IF id \in found
     THEN [seq |-> frame.seq, generation |-> frame.generation,
           measured |-> warmed = WarmupFrames, class |-> class]
     ELSE seen[id]]

\* One class's turn in ByteTracker::update: the frame's own detections are for
\* the last update, those before it have none.
UpdateClass ==
  \E class \in updating.todo :
    /\ \A other \in updating.todo : class <= other
    /\ \E score \in IF updating.left = 1 THEN Scenes ELSE {NoDetections} :
         \E state \in ClassUpdated(tracking, class, score) :
           /\ tracking' = state
           /\ seen' = Noted(Found(state, class), class)
    /\ updating' = [updating EXCEPT !.todo = @ \ {class}]
    /\ UNCHANGED <<frame, activeGeneration, previous, warmed, counted, fed,
                   lastMeasured, spanned>>

\* An update made up for a missing frame has returned; the next one begins.
NextUpdate ==
  /\ updating.left > 1 /\ updating.todo = {}
  /\ updating' = [updating EXCEPT !.left = @ - 1, !.todo = Classes]
  /\ UNCHANGED <<frame, activeGeneration, previous, warmed, tracking, counted, fed, seen,
                 lastMeasured, spanned>>

\* A warm-up frame's update has returned.  The last one leaves a new tracker and
\* new rules behind.
WarmupTracked ==
  LET last == warmed + 1 = WarmupFrames IN
  /\ updating.left = 1 /\ updating.todo = {} /\ warmed < WarmupFrames
  /\ updating' = Waiting
  /\ warmed' = warmed + 1
  /\ previous' = IF last THEN 0 ELSE previous
  /\ tracking' = IF last THEN [tracking EXCEPT !.trackers = NoTrackers] ELSE tracking
  /\ fed' = IF last THEN [fed EXCEPT !["tracker"] = {}, !["rules"] = {}] ELSE fed
  /\ UNCHANGED <<frame, activeGeneration, counted, seen, lastMeasured, spanned>>

\* A measured frame's update has returned: the rules and the clip writer follow,
\* and the frame is counted.
MeasuredTracked ==
  LET here == <<frame.generation, TRUE>> IN
  /\ updating.left = 1 /\ updating.todo = {} /\ warmed = WarmupFrames
  /\ updating' = Waiting
  /\ fed' = [fed EXCEPT !["rules"] = @ \cup {here}, !["clips"] = @ \cup {here}]
  /\ counted' = [counted EXCEPT !.frames = @ + 1] /\ spanned' = spanned + 1
  /\ UNCHANGED <<frame, activeGeneration, previous, warmed, tracking, seen, lastMeasured>>

\* The loop is left at its frame limit, at a signal or when the source is closed.
Over == Idle /\ NextFrames = {} /\ UNCHANGED vars

Next ==
  \/ InvalidFrame \/ WarmupFrame \/ MeasuredFrame
  \/ UpdateClass \/ NextUpdate \/ WarmupTracked \/ MeasuredTracked
  \/ Over

Spec == Init /\ [][Next]_vars

-----------------------------------------------------------------------------
(* Properties                                                              *)

States == {"tracked", "unconfirmed", "lost"}

\* No two tracks have one number, of whatever class, and numbers are never ahead.
TypeOK ==
  /\ frame \in [seq : 0 .. MaxSeq, generation : 1 .. MaxGeneration]
  /\ activeGeneration \in 0 .. MaxGeneration /\ previous \in 0 .. MaxSeq
  /\ warmed \in 0 .. WarmupFrames
  /\ updating \in [left : 0 .. TrackBuffer + 2, todo : SUBSET Classes, missing : Nat]
  /\ counted \in [frames : Nat, gaps : Nat]
  /\ DOMAIN tracking.trackers \subseteq Classes
  /\ \A class \in DOMAIN tracking.trackers :
       LET t == tracking.trackers[class] IN
       /\ t.tracks \subseteq [id : 1 .. tracking.next - 1, state : States,
                              start : 1 .. t.frame, end : 1 .. t.frame]
       /\ t.removed \subseteq 1 .. tracking.next - 1
  /\ \A c, d \in DOMAIN tracking.trackers :
       \A t \in tracking.trackers[c].tracks, u \in tracking.trackers[d].tracks :
         t.id = u.id => c = d /\ t = u

\* Tracker, rules and clip writer only ever hold frames of one stream, the tracker
\* none of the warm-up once frames are measured; and every measured frame's
\* sequence number and every missing one is counted once (lines 1010-1068).
OneStreamEach ==
  /\ \A c \in Collaborators : Cardinality(fed[c]) <= 1
  /\ counted.frames + counted.gaps = spanned

\* The updates after its last match that a track can still be matched in: it is
\* looked at for the first time one update after it is lost, and leaves one
\* update after it has expired.
Patience == (IF MaxTimeLost = 0 THEN 1 ELSE MaxTimeLost) + 2

Continued == {id \in DOMAIN seen : seen'[id] # seen[id]}

\* A number returned again is of the track it was of before.
KeepsIdentity(id) ==
  /\ seen'[id].class = seen[id].class
  /\ seen'[id].generation = seen[id].generation
  /\ seen'[id].measured = seen[id].measured
  /\ seen[id].measured /\ MaxTimeLost <= TrackBuffer =>
       \/ seen'[id].seq - seen[id].seq <= Patience
       \/ /\ updating.missing > TrackBuffer + 1
          /\ seen[id].seq = frame.seq - updating.missing - 1

\* A track number belongs to one class and one stream for ever, over resets and
\* trackers of their own.  Among measured frames its track is continued over at
\* most the frames the tracker waits for it - unless a hole exceeded the updates
\* made up for it, and the track had been seen right before the hole.
IdentityIsContinuous == [][\A id \in Continued : KeepsIdentity(id)]_vars

\* A missing frame ages a track like a frame without detections: however many are
\* missing, a track is continued over no more than the tracker waits for it.
GapsAgeTracks ==
  [][\A id \in Continued :
       seen[id].measured => seen'[id].seq - seen[id].seq <= Patience]_vars
=============================================================================
