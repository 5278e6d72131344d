---------------------------- MODULE EventTimeline ---------------------------
(***************************************************************************)
(* What the three kinds of safety event rules have in common               *)
(* (src/event_analytics.cpp): the frames an engine is given, the timeline  *)
(* it follows through them, and the per-track states of a rule.  A module  *)
(* that extends this one models an engine with one rule of one kind; the   *)
(* rules of an engine share nothing but the timeline.                      *)
(*                                                                         *)
(* Time stamps are in one unit throughout.  A track that is not in the     *)
(* frame, is not Tracked or has no valid box is simply not seen.           *)
(***************************************************************************)
EXTENDS Integers, FiniteSets

CONSTANTS
  Tracks,          \* the tracks whose class the rule accepts
  Places,          \* where a track's anchor can be, as far as the rule tells
  StaleAfter,      \* stale_after_frames
  MaxSeq,          \* bound: the last frame's sequence number
  MaxJump,         \* bound: how far a sequence number can jump, drops included
  MaxPtsStep,      \* bound: how far a time stamp can advance
  MaxGeneration    \* bound: how many new stream generations there can be

\* What a module that instantiates the timeline must give it.
TimelineAssumption ==
  /\ StaleAfter \in Nat \ {0}
  /\ MaxSeq \in Nat /\ MaxJump \in Nat /\ MaxPtsStep \in Nat
  /\ MaxGeneration \in Nat

VARIABLES
  frame,           \* the last frame given to the engine
  active,          \* active_stream_generation has a value
  states,          \* the rule's per-track states
  events           \* the tracks the last update() raised an event for

TimelineInit ==
  /\ frame = [seq |-> -1, pts |-> 0, gen |-> 0]
  /\ active = FALSE
  /\ states = << >>
  /\ events = {}

\* The frames that can come next.  A new pipeline may start its time stamps
\* afresh; within one a time stamp may repeat, or go back by one unit.
NextFrames ==
  LET lowest(g) == IF g = frame.gen THEN frame.pts - 1 ELSE 0
  IN  {f \in [seq : frame.seq + 1 .. frame.seq + MaxJump,
              pts : 0 .. frame.pts + MaxPtsStep,
              gen : {frame.gen, frame.gen + 1}] :
         /\ f.seq <= MaxSeq /\ f.gen <= MaxGeneration
         /\ f.pts >= lowest(f.gen)}

Sightings == UNION {[seen -> Places] : seen \in SUBSET Tracks}

\* Mutated: a new generation alone does not restart the timeline.
Restarted_IgnoresGeneration(f) ==
  active /\ (f.seq <= frame.seq \/ f.pts < frame.pts)

\* Another stream, or a frame that does not follow the last one: what the rules
\* know of their tracks is void.
Restarted(f) ==
  /\ active
  /\ f.gen # frame.gen \/ f.seq <= frame.seq \/ f.pts < frame.pts

Known(f) == IF Restarted(f) THEN << >> ELSE states

\* operator[] of a rule's map.
StateOf(known, t, fresh) == IF t \in DOMAIN known THEN known[t] ELSE fresh

\* Mutated: nothing is forgotten.
Pruned_Never(known, f) == known

\* prune_stale
Pruned(known, f) ==
  [t \in {u \in DOMAIN known : f.seq - known[u].seq <= StaleAfter} |-> known[t]]

\* One frame's worth of a rule: results gives the new state of every track that
\* was seen, and stale tracks are forgotten.
Apply(f, known, results) ==
  /\ frame' = f
  /\ active' = TRUE
  /\ states' = Pruned([t \in DOMAIN known \cup DOMAIN results |->
                         IF t \in DOMAIN results THEN results[t] ELSE known[t]],
                      f)

\* reset(): a new stream generation, or the end of the warm-up.
Forget ==
  /\ active
  /\ active' = FALSE
  /\ states' = << >>
  /\ events' = {}
  /\ UNCHANGED frame

\* The media is over.
Exhausted == frame.seq = MaxSeq

-----------------------------------------------------------------------------
\* The engine remembers a track for StaleAfter frames at most, so its maps do
\* not grow with the track numbers the tracker keeps inventing.
MemoryBounded ==
  \A t \in DOMAIN states :
    states[t].seq <= frame.seq /\ frame.seq - states[t].seq <= StaleAfter
=============================================================================
