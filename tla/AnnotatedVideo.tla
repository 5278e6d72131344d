--------------------------- MODULE AnnotatedVideo ---------------------------
(***************************************************************************)
(* AnnotatedVideoWriter (src/annotated_video_writer.cpp) and the encoder   *)
(* sink it writes to: OpenCV's mp4v or a GStreamer x264 pipeline           *)
(* (src/opencv_mp4v_video_encoder_sink.cpp,                                *)
(* src/gstreamer_x264_video_encoder_sink.cpp).                             *)
(*                                                                         *)
(* The frame loop hands in each frame with the events found in it.  At     *)
(* the queue's limit the oldest frame makes way, but its events go on with *)
(* the frame that replaces it, so an event's label is never dropped.  The  *)
(* encoder thread steps between any two of the caller's critical sections. *)
(***************************************************************************)
EXTENDS Integers, Sequences, FiniteSets

CONSTANTS
  Capacity,       \* queue_capacity
  LabelFrames,    \* label_frames: how many frames a label stays on screen
  SinkFails,      \* may the sink fail to open, to take a frame, or to finish
  MaxFrames,      \* bound: the last frame's sequence number
  MaxJump,        \* bound: how far a sequence number can jump
  MaxEvents       \* bound: events

ASSUME VideoAssumption ==
  /\ Capacity \in Nat \ {0} /\ LabelFrames \in Nat \ {0}
  /\ SinkFails \in BOOLEAN
  /\ MaxFrames \in Nat /\ MaxJump \in Nat /\ MaxEvents \in Nat

VARIABLES
  encoder,          \* config_.encoder, "mp4v" or "x264": fixed at construction
  callerPc,
  sequence,         \* the last frame's sequence number
  nextEvent,        \* events found so far, plus one
  queue,            \* queue_
  stats,            \* stats_
  workerError,      \* worker_error_ is set
  stopRequested,    \* stop_requested_
  workerPc,
  packet,           \* the packet in the encoder thread's hands, or NoPacket
  labels,           \* active_events_: events and the last frame to show them on
  sink,             \* encoder_: "none", "open" or "finished"
  pipeline          \* the sink holds an open file or pipeline

\* History: each frame written, with the labels drawn on it.
VARIABLE video

queueVars == <<queue, stats>>
callerVars == <<encoder, callerPc, sequence, nextEvent>>
sinkVars == <<sink, pipeline>>
workerVars == <<workerPc, packet, labels>>
vars == <<callerVars, queueVars, workerError, stopRequested, workerVars,
          sinkVars, video>>

Events == 1 .. MaxEvents
NoPacket == [seq |-> 0, events |-> {}]

Init ==
  /\ encoder \in {"mp4v", "x264"}
  /\ callerPc = "idle" /\ sequence = 0 /\ nextEvent = 1
  /\ queue = <<>>
  /\ stats = [submitted |-> 0, written |-> 0, dropped |-> 0, high |-> 0]
  /\ workerError = FALSE /\ stopRequested = FALSE
  /\ workerPc = "wait" /\ packet = NoPacket /\ labels = {}
  /\ sink = "none" /\ pipeline = FALSE
  /\ video = <<>>

-----------------------------------------------------------------------------
(* The caller: write(), finish() and the destructor                        *)

\* Mutated: the events of a dropped frame go with it.
Queued_DropsEvents(p) ==
  Append(IF Len(queue) = Capacity THEN Tail(queue) ELSE queue, p)

\* Mutated: the limit is checked after the packet is queued.
Queued_LateLimit(p) ==
  IF Len(queue) > Capacity
  THEN Append(Tail(queue), [p EXCEPT !.events = Head(queue).events \cup @])
  ELSE Append(queue, p)

\* At the limit the oldest packet is dropped, its events carried over.
Queued(p) ==
  IF Len(queue) = Capacity
  THEN Append(Tail(queue), [p EXCEPT !.events = Head(queue).events \cup @])
  ELSE Append(queue, p)

\* Mutated: a dropped frame is not counted.
Counted_OnlyQueued ==
  [stats EXCEPT !.submitted = @ + 1,
                !.high = IF Len(Queued(NoPacket)) > @ THEN Len(Queued(NoPacket)) ELSE @]

Counted ==
  [stats EXCEPT !.submitted = @ + 1,
                !.dropped = IF Len(queue) = Capacity THEN @ + 1 ELSE @,
                !.high = IF Len(Queued(NoPacket)) > @ THEN Len(Queued(NoPacket)) ELSE @]

\* One frame with its new events; an encoder failure meets the next call.
Write(jump, found) ==
  /\ callerPc = "idle"
  /\ sequence + jump <= MaxFrames
  /\ nextEvent + found <= MaxEvents + 1
  /\ IF workerError
     THEN /\ callerPc' = "failed"
          /\ UNCHANGED <<sequence, nextEvent, queueVars>>
     ELSE /\ ~ stopRequested
          /\ sequence' = sequence + jump
          /\ nextEvent' = nextEvent + found
          /\ queue' = Queued([seq |-> sequence + jump,
                              events |-> nextEvent .. nextEvent + found - 1])
          /\ stats' = Counted
          /\ UNCHANGED callerPc
  /\ UNCHANGED <<encoder, workerError, stopRequested, workerVars, sinkVars, video>>

Finish ==
  /\ callerPc = "idle"
  /\ stopRequested' = TRUE
  /\ callerPc' = "join"
  /\ UNCHANGED <<encoder, sequence, nextEvent, queueVars, workerError, workerVars,
                 sinkVars, video>>

\* finish() returns, or throws what the encoder thread died of.
Joined ==
  /\ callerPc = "join"
  /\ workerPc = "done"
  /\ callerPc' = IF workerError THEN "failed" ELSE "finished"
  /\ UNCHANGED <<encoder, sequence, nextEvent, queueVars, workerError, stopRequested,
                 workerVars, sinkVars, video>>

\* The destructor, with or without a finish() before it.
Destroy ==
  /\ callerPc \in {"idle", "failed", "finished"}
  /\ stopRequested' = TRUE
  /\ callerPc' = "destroying"
  /\ UNCHANGED <<encoder, sequence, nextEvent, queueVars, workerError, workerVars,
                 sinkVars, video>>

\* The thread is joined, and the sink's destructor closes what is still open.
Destroyed ==
  /\ callerPc = "destroying"
  /\ workerPc = "done"
  /\ callerPc' = "destroyed"
  /\ pipeline' = FALSE
  /\ UNCHANGED <<encoder, sequence, nextEvent, queueVars, workerError, stopRequested,
                 workerVars, sink, video>>

Over == callerPc = "destroyed" /\ UNCHANGED vars

-----------------------------------------------------------------------------
(* The encoder thread: run() and write_packet()                            *)

\* The labels on a packet's frame: its own events', and those not yet expired.
Shown(p) ==
  {l \in labels \cup {[event |-> e, until |-> p.seq + LabelFrames] : e \in p.events} :
     p.seq <= l.until}

TakePacket ==
  /\ workerPc = "wait"
  /\ queue # <<>>
  /\ packet' = Head(queue)
  /\ queue' = Tail(queue)
  /\ labels' = Shown(Head(queue))
  /\ workerPc' = IF sink = "none" THEN "open" ELSE "write"
  /\ UNCHANGED <<callerVars, stats, workerError, stopRequested, sinkVars, video>>

\* The sink's file, or its pipeline of seven elements that are made, linked and set
\* playing, is open.
SinkOpens == sink' = "open" /\ pipeline' = TRUE /\ workerPc' = "write"

\* A sink that fails to open has closed whatever it had opened.
SinkStaysShut == SinkFails /\ workerPc' = "catch" /\ UNCHANGED sinkVars

\* open_if_needed: the first frame opens the sink, in its size.
OpenSink ==
  /\ workerPc = "open"
  /\ SinkOpens \/ SinkStaysShut
  /\ UNCHANGED <<callerVars, queueVars, workerError, stopRequested, packet,
                 labels, video>>

\* The sink takes the frame.  The x264 pipeline makes the push wait while it has
\* a frame it has not begun; nothing bounds that wait.
SinkTakes ==
  /\ workerPc = "write"
  /\ workerPc' = "count"
  /\ video' = Append(video, [seq |-> packet.seq,
                             labels |-> {l.event : l \in labels}])
  /\ UNCHANGED <<callerVars, queueVars, workerError, stopRequested, packet,
                 labels, sinkVars>>

\* The frame has another size, or the pipeline refuses the buffer.
SinkRefuses ==
  /\ workerPc = "write"
  /\ SinkFails
  /\ workerPc' = "catch"
  /\ UNCHANGED <<callerVars, queueVars, workerError, stopRequested, packet,
                 labels, sinkVars, video>>

CountWritten ==
  /\ workerPc = "count"
  /\ stats' = [stats EXCEPT !.written = @ + 1]
  /\ packet' = NoPacket
  /\ workerPc' = "wait"
  /\ UNCHANGED <<callerVars, queue, workerError, stopRequested, labels,
                 sinkVars, video>>

\* Mutated: a stop is obeyed with frames still queued.
WorkerStops_LeavesQueue ==
  /\ workerPc = "wait"
  /\ stopRequested
  /\ workerPc' = IF sink = "none" THEN "done" ELSE "flush"
  /\ UNCHANGED <<callerVars, queueVars, workerError, stopRequested, packet,
                 labels, sinkVars, video>>

\* A stop is obeyed once the queue is empty; a sink that was opened is finished.
WorkerStops ==
  /\ workerPc = "wait"
  /\ queue = <<>>
  /\ stopRequested
  /\ workerPc' = IF sink = "none" THEN "done" ELSE "flush"
  /\ UNCHANGED <<callerVars, queueVars, workerError, stopRequested, packet,
                 labels, sinkVars, video>>

\* mp4v closes its file.
ReleasesFile == encoder = "mp4v" /\ workerPc' = "done" /\ pipeline' = FALSE

\* x264 sends the end of stream, or closes the pipeline if that is refused.
SendsEndOfStream ==
  /\ encoder = "x264"
  /\ \/ workerPc' = "bus" /\ UNCHANGED pipeline
     \/ SinkFails /\ workerPc' = "catch" /\ pipeline' = FALSE

\* finish() of the sink.
SinkFinish ==
  /\ workerPc = "flush"
  /\ sink' = "finished"
  /\ ReleasesFile \/ SendsEndOfStream
  /\ UNCHANGED <<callerVars, queueVars, workerError, stopRequested, packet,
                 labels, video>>

\* The x264 sink waits 30 seconds for the end of stream to arrive; an error
\* message and silence are failures.  It closes the pipeline in any case.
BusAnswers ==
  /\ workerPc = "bus"
  /\ workerPc' = "done" \/ (SinkFails /\ workerPc' = "catch")
  /\ pipeline' = FALSE
  /\ UNCHANGED <<callerVars, queueVars, workerError, stopRequested, packet,
                 labels, sink, video>>

\* The catch clause: the waiting frames are counted as dropped; the frame in
\* hand is counted nowhere.
WorkerFails ==
  /\ workerPc = "catch"
  /\ workerError' = TRUE
  /\ stats' = [stats EXCEPT !.dropped = @ + Len(queue)]
  /\ queue' = <<>>
  /\ stopRequested' = TRUE
  /\ workerPc' = "done"
  /\ UNCHANGED <<callerVars, packet, labels, sinkVars, video>>

-----------------------------------------------------------------------------
\* The encoder thread's steps, but for the frame its sink owes it.
Worker ==
  \/ TakePacket \/ OpenSink \/ SinkRefuses \/ CountWritten \/ WorkerStops
  \/ SinkFinish \/ BusAnswers \/ WorkerFails

Next ==
  \/ \E jump \in 1 .. MaxJump, found \in 0 .. 1 : Write(jump, found)
  \/ Finish \/ Joined \/ Destroy \/ Destroyed \/ Over
  \/ Worker \/ SinkTakes

\* Both threads are scheduled, and the wait for the bus is bounded.
Fairness == WF_vars(Worker) /\ WF_vars(Joined) /\ WF_vars(Destroyed)

Spec == Init /\ [][Next]_vars /\ Fairness

-----------------------------------------------------------------------------
(* Properties                                                              *)

Packets == [seq : Nat, events : SUBSET Events]

TypeOK ==
  /\ encoder \in {"mp4v", "x264"}
  /\ callerPc \in {"idle", "join", "finished", "failed", "destroying", "destroyed"}
  /\ sequence \in Nat /\ nextEvent \in 1 .. MaxEvents + 1
  /\ queue \in Seq(Packets) /\ Len(queue) <= Capacity
  /\ stats \in [submitted : Nat, written : Nat, dropped : Nat, high : 0 .. Capacity]
  /\ workerError \in BOOLEAN /\ stopRequested \in BOOLEAN
  /\ workerPc \in {"wait", "open", "write", "count", "flush", "bus", "catch", "done"}
  /\ packet \in Packets
  /\ labels \subseteq [event : Events, until : Nat]
  /\ sink \in {"none", "open", "finished"} /\ pipeline \in BOOLEAN
  /\ video \in Seq([seq : Nat, labels : SUBSET Events])

Held == IF packet = NoPacket THEN 0 ELSE 1

\* Every frame that was taken in is written, counted as dropped, queued or in
\* the encoder thread's hands, where the one frame it failed on stays; and the
\* frames come out in the order they went in.
PacketsAccounted ==
  /\ stats.submitted = stats.written + stats.dropped + Len(queue) + Held
  /\ \A i, k \in DOMAIN video : i < k => video[i].seq < video[k].seq
  /\ \A i \in DOMAIN queue, k \in DOMAIN video : video[k].seq < queue[i].seq

\* Dropping frames never loses an event: until the encoder fails, every event
\* handed in is drawn on a written frame or travels with a frame on its way.
\* Its label is on every frame of its window and on none after.
EventsAreShown ==
  /\ ~ workerError =>
       \A e \in 1 .. nextEvent - 1 :
         \/ \E i \in DOMAIN video : e \in video[i].labels
         \/ \E i \in DOMAIN queue : e \in queue[i].events
         \/ e \in packet.events
  /\ \A i \in DOMAIN video, e \in Events :
       LET showing == {k \in DOMAIN video : e \in video[k].labels}
       IN  /\ e \in video[i].labels =>
                \A k \in showing : video[i].seq - video[k].seq <= LabelFrames
           /\ \A k \in showing :
                k < i /\ e \notin video[i].labels =>
                  \E first \in showing : video[i].seq - video[first].seq > LabelFrames

\* A finish() that returns has written or counted every frame and completed the
\* file; one that cannot, throws.  A destroyed writer holds nothing open.
FinishIsWhole ==
  /\ callerPc = "finished" =>
       /\ queue = <<>> /\ stats.submitted = stats.written + stats.dropped
       /\ ~ pipeline /\ sink \in {"none", "finished"}
       /\ ~ workerError
  /\ callerPc = "destroyed" => ~ pipeline

\* finish() and the destructor return if the sink takes the frames it is given,
\* and leave nothing unfinished.
SinkResponds == WF_vars(SinkTakes)
StopContract ==
  SinkResponds =>
    /\ callerPc = "join" ~> callerPc \in {"finished", "failed"} /\ FinishIsWhole
    /\ callerPc = "destroying" ~> callerPc = "destroyed" /\ FinishIsWhole
=============================================================================
