---------------------------- MODULE FrameCapture ----------------------------
(***************************************************************************)
(* FrameCaptureWorker (src/frame_capture_worker.cpp) with the pieces it    *)
(* runs between: the GStreamer source it reads (open / read / close of     *)
(* src/gstreamer_frame_source.cpp), the bounded queue it fills, and the    *)
(* inference loop of apps/realtime_detect.cpp that starts it, pops frames  *)
(* and stops it.                                                           *)
(*                                                                         *)
(* Two threads interleave.  capturePc is the position of the capture code: *)
(* capture_loop, and restart_source, which start() also calls before the   *)
(* thread exists.  ownerPc is the position of the inference loop's thread. *)
(* Steps that touch only the capture thread's own members and counters are *)
(* folded into the shared-memory access they follow.                       *)
(***************************************************************************)
EXTENDS BoundedFrameQueue

CONSTANTS
  MaxAttempts,     \* FrameCaptureRecoveryPolicy::max_restart_attempts
  MaxFrames        \* bound: frames the media can deliver in one run

ASSUME CaptureAssumption ==
  /\ MaxAttempts \in Nat
  /\ MaxFrames \in Nat

VARIABLES
  capturePc, ownerPc,
  opened,             \* GStreamerFrameSource::opened_
  pipeline,           \* GStreamerFrameSource::pipeline_ is not null
  stopRequested,      \* stop_requested_
  started,            \* started_
  running,            \* running_
  sourceExhausted,    \* source_exhausted_
  recoveryExhausted,  \* recovery_exhausted_
  attempts,           \* restart_attempts_since_frame_
  restartAttempts,    \* restart_attempts_
  awaitingFrame,      \* restart_awaiting_frame_
  generation,         \* stream_generation_ (restart_successes_ moves with it)
  produced,           \* produced_, and the source's next sequence number
  held                \* capture_loop's local frame, between read and push

\* History: what the properties compare the code's own counters with.
VARIABLES
  epoch,              \* how many pipelines the source has created
  failCause,          \* why the last read returned no frame
  attemptsAtFrame,    \* restartAttempts when the last frame was captured
  stamped,            \* every frame captured so far
  taken,              \* 1 + the sequence number of the last frame popped
  delivered,          \* frames popped
  sawClosed           \* the inference loop popped the "closed" status

sourceVars == <<opened, pipeline, epoch>>
flagVars == <<started, running, sourceExhausted, recoveryExhausted>>
restartVars == <<attempts, restartAttempts, awaitingFrame>>
frameVars == <<generation, produced, held, attemptsAtFrame, stamped>>
ownerVars == <<taken, delivered, sawClosed>>
vars == <<queueVars, sourceVars, flagVars, restartVars, frameVars, ownerVars,
          capturePc, ownerPc, stopRequested, failCause>>

Frames == [seq : Nat, gen : Nat, epoch : Nat]

Init ==
  /\ QueueInit
  /\ capturePc = "idle" /\ ownerPc = "init"
  /\ opened = FALSE /\ pipeline = FALSE /\ epoch = 0
  /\ stopRequested = FALSE
  /\ started = FALSE /\ running = FALSE
  /\ sourceExhausted = FALSE /\ recoveryExhausted = FALSE
  /\ attempts = 0 /\ restartAttempts = 0 /\ awaitingFrame = FALSE
  /\ generation = 0 /\ produced = 0 /\ attemptsAtFrame = 0
  /\ held = [seq |-> 0, gen |-> 0, epoch |-> 0]
  /\ stamped = {}
  /\ failCause = "none"
  /\ taken = 0 /\ delivered = 0 /\ sawClosed = FALSE

-----------------------------------------------------------------------------
(* The source.  open() builds a pipeline, publishes it and sets opened_ in *)
(* one critical section; close() clears opened_ first, outside the lock,   *)
(* and takes the pipeline away in a second step.                           *)

SourceOpens ==
  /\ opened' = TRUE
  /\ pipeline' = TRUE
  /\ epoch' = IF opened THEN epoch ELSE epoch + 1

SourceCloseFlag ==
  /\ opened' = FALSE
  /\ UNCHANGED <<pipeline, epoch>>

SourceClosePipeline ==
  /\ pipeline' = FALSE
  /\ UNCHANGED <<opened, epoch>>

-----------------------------------------------------------------------------
(* start(): the first open, and, if it fails, restart_source() run by the  *)
(* owner before there is a capture thread.                                 *)

Start ==
  /\ ownerPc = "init"
  /\ ownerPc' = "starting"
  /\ capturePc' = "startOpen"
  /\ UNCHANGED <<queueVars, sourceVars, flagVars, restartVars, frameVars,
                 ownerVars, stopRequested, failCause>>

\* The source is open: the capture thread runs and the owner consumes.
Launch ==
  /\ capturePc' = "check"
  /\ IF started
     THEN UNCHANGED <<started, running, ownerPc>>
     ELSE started' = TRUE /\ running' = TRUE /\ ownerPc' = "consume"

\* No source: start() returns false, or capture_loop leaves its loop.
GiveUp ==
  /\ capturePc' = IF started THEN "exit" ELSE "idle"
  /\ ownerPc' = IF started THEN ownerPc ELSE "stop"

StartOpen ==
  /\ capturePc = "startOpen"
  /\ \/ /\ SourceOpens
        /\ Launch
     \/ /\ capturePc' = "restart"
        /\ UNCHANGED <<sourceVars, started, running, ownerPc>>
  /\ UNCHANGED <<queueVars, sourceExhausted, recoveryExhausted, restartVars,
                 frameVars, ownerVars, stopRequested, failCause>>

-----------------------------------------------------------------------------
(* restart_source()                                                        *)

RestartCloseFlag ==
  /\ capturePc = "restart"
  /\ SourceCloseFlag
  /\ capturePc' = "restartClose"
  /\ UNCHANGED <<queueVars, flagVars, restartVars, frameVars, ownerVars,
                 ownerPc, stopRequested, failCause>>

RestartClosePipeline ==
  /\ capturePc = "restartClose"
  /\ SourceClosePipeline
  /\ capturePc' = "restartLoop"
  /\ UNCHANGED <<queueVars, flagVars, restartVars, frameVars, ownerVars,
                 ownerPc, stopRequested, failCause>>

\* One more attempt is allowed: it is counted, and the delay begins.
RestartAttempt ==
  /\ capturePc = "restartLoop"
  /\ ~ stopRequested
  /\ attempts < MaxAttempts
  /\ attempts' = attempts + 1
  /\ restartAttempts' = restartAttempts + 1
  /\ capturePc' = "restartDelay"
  /\ UNCHANGED <<queueVars, sourceVars, flagVars, awaitingFrame, frameVars,
                 ownerVars, ownerPc, stopRequested, failCause>>

\* The delay is over: a stop requested meanwhile ends the restart at once.
RestartDelayOver ==
  /\ capturePc = "restartDelay"
  /\ \/ /\ stopRequested
        /\ GiveUp
     \/ /\ ~ stopRequested
        /\ capturePc' = "restartOpen"
        /\ UNCHANGED ownerPc
  /\ UNCHANGED <<queueVars, sourceVars, flagVars, restartVars, frameVars,
                 ownerVars, stopRequested, failCause>>

\* Mutated: a reopened pipeline counts as recovered before it delivers a frame.
RestartOpenSucceeds_RefillsBudget ==
  /\ capturePc = "restartOpen"
  /\ restartAttempts < 3 * MaxAttempts
  /\ SourceOpens
  /\ attempts' = 0
  /\ awaitingFrame' = TRUE
  /\ sourceExhausted' = FALSE
  /\ Launch
  /\ UNCHANGED <<queueVars, recoveryExhausted, restartAttempts, frameVars,
                 ownerVars, stopRequested, failCause>>

RestartOpenSucceeds ==
  /\ capturePc = "restartOpen"
  /\ SourceOpens
  /\ awaitingFrame' = TRUE
  /\ sourceExhausted' = FALSE
  /\ Launch
  /\ UNCHANGED <<queueVars, recoveryExhausted, attempts, restartAttempts,
                 frameVars, ownerVars, stopRequested, failCause>>

RestartOpenFails ==
  /\ capturePc = "restartOpen"
  /\ capturePc' = "restartLoop"
  /\ UNCHANGED <<queueVars, sourceVars, flagVars, restartVars, frameVars,
                 ownerVars, ownerPc, stopRequested, failCause>>

\* The loop's condition fails: a spent budget is reported, a stop is not.
RestartEnds ==
  /\ capturePc = "restartLoop"
  /\ stopRequested \/ attempts >= MaxAttempts
  /\ recoveryExhausted' =
       (recoveryExhausted \/ (MaxAttempts > 0 /\ attempts >= MaxAttempts))
  /\ GiveUp
  /\ UNCHANGED <<queueVars, sourceVars, started, running, sourceExhausted,
                 restartVars, frameVars, ownerVars, stopRequested, failCause>>

-----------------------------------------------------------------------------
(* capture_loop()                                                          *)

CheckStop ==
  /\ capturePc = "check"
  /\ capturePc' = IF stopRequested THEN "exit" ELSE "read"
  /\ UNCHANGED <<queueVars, sourceVars, flagVars, restartVars, frameVars,
                 ownerVars, ownerPc, stopRequested, failCause>>

ReadFails(cause) ==
  /\ capturePc' = "failed"
  /\ failCause' = cause
  /\ UNCHANGED <<queueVars, sourceVars, flagVars, restartVars, frameVars,
                 ownerVars, ownerPc, stopRequested>>

\* read() takes its references under the lock, or finds the source closed.
ReadBegins ==
  /\ capturePc = "read"
  /\ \/ /\ opened /\ pipeline
        /\ capturePc' = "pull"
        /\ UNCHANGED <<queueVars, sourceVars, flagVars, restartVars, frameVars,
                       ownerVars, ownerPc, stopRequested, failCause>>
     \/ ~ (opened /\ pipeline) /\ ReadFails("closed")

\* Mutated: the flag that advances the generation is never cleared.
PullFrame_KeepsAwaiting ==
  /\ capturePc = "pull"
  /\ produced < MaxFrames
  /\ LET gen == IF awaitingFrame THEN generation + 1 ELSE generation
         frame == [seq |-> produced, gen |-> gen, epoch |-> epoch]
     IN  /\ generation' = gen
         /\ held' = frame
         /\ stamped' = stamped \cup {frame}
  /\ produced' = produced + 1
  /\ attempts' = 0
  /\ attemptsAtFrame' = restartAttempts
  /\ recoveryExhausted' = FALSE
  /\ capturePc' = "push"
  /\ UNCHANGED <<queueVars, sourceVars, started, running, sourceExhausted,
                 restartAttempts, awaitingFrame, ownerVars, ownerPc,
                 stopRequested, failCause>>

\* A pull that was under way may still return a frame after close().  The loop
\* stamps it with the stream generation, which a first frame after a restart
\* has just advanced, and counts it.
PullFrame ==
  /\ capturePc = "pull"
  /\ produced < MaxFrames
  /\ LET gen == IF awaitingFrame THEN generation + 1 ELSE generation
         frame == [seq |-> produced, gen |-> gen, epoch |-> epoch]
     IN  /\ generation' = gen
         /\ held' = frame
         /\ stamped' = stamped \cup {frame}
  /\ produced' = produced + 1
  /\ awaitingFrame' = FALSE
  /\ attempts' = 0
  /\ attemptsAtFrame' = restartAttempts
  /\ recoveryExhausted' = FALSE
  /\ capturePc' = "push"
  /\ UNCHANGED <<queueVars, sourceVars, started, running, sourceExhausted,
                 restartAttempts, ownerVars, ownerPc, stopRequested, failCause>>

\* End of stream, an error message, or the read timeout of a silent stream.
PullTerminal == capturePc = "pull" /\ ReadFails("terminal")

\* Mutated: the poll loop does not look at opened_.
PullClosed_Blocks == FALSE /\ ReadFails("closed")

\* The poll loop notices that close() has cleared opened_.
PullClosed == capturePc = "pull" /\ ~ opened /\ ReadFails("closed")

\* Mutated: a read that stop() interrupted is reported as an exhausted source.
NoteFailure_IgnoresStop ==
  /\ capturePc = "failed"
  /\ sourceExhausted' = TRUE
  /\ capturePc' = "decide"
  /\ UNCHANGED <<queueVars, sourceVars, started, running, recoveryExhausted,
                 restartVars, frameVars, ownerVars, ownerPc, stopRequested,
                 failCause>>

\* No frame: a stop in progress is not an exhausted source.
NoteFailure ==
  /\ capturePc = "failed"
  /\ sourceExhausted' = (sourceExhausted \/ ~ stopRequested)
  /\ capturePc' = "decide"
  /\ UNCHANGED <<queueVars, sourceVars, started, running, recoveryExhausted,
                 restartVars, frameVars, ownerVars, ownerPc, stopRequested,
                 failCause>>

DecideRestart ==
  /\ capturePc = "decide"
  /\ capturePc' = IF stopRequested THEN "exit" ELSE "restart"
  /\ UNCHANGED <<queueVars, sourceVars, flagVars, restartVars, frameVars,
                 ownerVars, ownerPc, stopRequested, failCause>>

PushFrame ==
  /\ capturePc = "push"
  /\ Push(held)
  /\ capturePc' = IF closed THEN "exit" ELSE "check"
  /\ UNCHANGED <<sourceVars, flagVars, restartVars, frameVars, ownerVars,
                 ownerPc, stopRequested, failCause>>

ExitCloseFlag ==
  /\ capturePc = "exit"
  /\ SourceCloseFlag
  /\ capturePc' = "exitClose"
  /\ UNCHANGED <<queueVars, flagVars, restartVars, frameVars, ownerVars,
                 ownerPc, stopRequested, failCause>>

ExitClosePipeline ==
  /\ capturePc = "exitClose"
  /\ SourceClosePipeline
  /\ capturePc' = "exitQueue"
  /\ UNCHANGED <<queueVars, flagVars, restartVars, frameVars, ownerVars,
                 ownerPc, stopRequested, failCause>>

ExitCloseQueue ==
  /\ capturePc = "exitQueue"
  /\ Close
  /\ capturePc' = "exitRunning"
  /\ UNCHANGED <<sourceVars, flagVars, restartVars, frameVars, ownerVars,
                 ownerPc, stopRequested, failCause>>

ExitDone ==
  /\ capturePc = "exitRunning"
  /\ running' = FALSE
  /\ capturePc' = "done"
  /\ UNCHANGED <<queueVars, sourceVars, started, sourceExhausted,
                 recoveryExhausted, restartVars, frameVars, ownerVars, ownerPc,
                 stopRequested, failCause>>

-----------------------------------------------------------------------------
(* The owner: the frame loop of realtime_detect, then stop().              *)

TakeFrame ==
  /\ ownerPc = "consume"
  /\ PopFront
  /\ taken' = Head(queue).seq + 1
  /\ delivered' = delivered + 1
  /\ UNCHANGED <<sourceVars, flagVars, restartVars, frameVars, sawClosed,
                 capturePc, ownerPc, stopRequested, failCause>>

\* wait_pop_for answers "closed" and the frame loop is left.
SeeClosed ==
  /\ ownerPc = "consume"
  /\ Drained
  /\ sawClosed' = TRUE
  /\ ownerPc' = "stop"
  /\ UNCHANGED <<queueVars, sourceVars, flagVars, restartVars, frameVars, taken,
                 delivered, capturePc, stopRequested, failCause>>

\* A shutdown signal, the frame limit or an exception ends the frame loop.
LeaveLoop ==
  /\ ownerPc = "consume"
  /\ ownerPc' = "stop"
  /\ UNCHANGED <<queueVars, sourceVars, flagVars, restartVars, frameVars,
                 ownerVars, capturePc, stopRequested, failCause>>

StopRequest ==
  /\ ownerPc = "stop"
  /\ stopRequested' = TRUE
  /\ ownerPc' = "stopClose"
  /\ UNCHANGED <<queueVars, sourceVars, flagVars, restartVars, frameVars,
                 ownerVars, capturePc, failCause>>

StopCloseFlag ==
  /\ ownerPc = "stopClose"
  /\ SourceCloseFlag
  /\ ownerPc' = "stopPipeline"
  /\ UNCHANGED <<queueVars, flagVars, restartVars, frameVars, ownerVars,
                 capturePc, stopRequested, failCause>>

StopClosePipeline ==
  /\ ownerPc = "stopPipeline"
  /\ SourceClosePipeline
  /\ ownerPc' = "stopJoin"
  /\ UNCHANGED <<queueVars, flagVars, restartVars, frameVars, ownerVars,
                 capturePc, stopRequested, failCause>>

\* join() returns once the thread has ended, or at once if there was none.
StopJoined ==
  /\ ownerPc = "stopJoin"
  /\ capturePc \in {"idle", "done"}
  /\ Close
  /\ running' = FALSE
  /\ ownerPc' = "stopped"
  /\ UNCHANGED <<sourceVars, started, sourceExhausted, recoveryExhausted,
                 restartVars, frameVars, ownerVars, capturePc, stopRequested,
                 failCause>>

\* The worker is stopped: nothing happens any more.
Stopped == ownerPc = "stopped" /\ UNCHANGED vars

-----------------------------------------------------------------------------
Restart ==
  \/ RestartCloseFlag \/ RestartClosePipeline \/ RestartAttempt
  \/ RestartDelayOver \/ RestartOpenSucceeds \/ RestartOpenFails \/ RestartEnds

\* The capture code's own steps: everything but what the media decides.
CaptureStep ==
  \/ StartOpen \/ Restart \/ CheckStop \/ ReadBegins \/ PullClosed
  \/ NoteFailure \/ DecideRestart \/ PushFrame
  \/ ExitCloseFlag \/ ExitClosePipeline \/ ExitCloseQueue \/ ExitDone

MediaStep == PullFrame \/ PullTerminal

\* The owner's steps, but for the decision to leave the loop early.
OwnerStep ==
  \/ Start \/ TakeFrame \/ SeeClosed
  \/ StopRequest \/ StopCloseFlag \/ StopClosePipeline \/ StopJoined

Next == CaptureStep \/ MediaStep \/ OwnerStep \/ LeaveLoop \/ Stopped

\* Both threads are scheduled, a pull polls every 200 ms so it notices
\* close(), and delays and open() return.  The media itself owes nothing,
\* unless the source bounds a silent read.
Fairness ==
  /\ WF_vars(CaptureStep)
  /\ WF_vars(OwnerStep)

SafeSpec == Init /\ [][Next]_vars
Spec == SafeSpec /\ Fairness

-----------------------------------------------------------------------------
(* Properties                                                              *)

\* Frames that have been offered to the queue: all but the one in hand.
Offered == IF capturePc = "push" THEN produced - 1 ELSE produced

\* Types, and the queue's bound, which its high watermark records.
TypeOK ==
  /\ queue \in Seq(Frames) /\ Len(queue) <= highWatermark
  /\ highWatermark \in 0 .. Capacity
  /\ dropped \in Nat /\ closed \in BOOLEAN
  /\ capturePc \in {"idle", "startOpen", "restart", "restartClose",
                    "restartLoop", "restartDelay", "restartOpen", "check",
                    "read", "pull", "failed", "decide", "push", "exit",
                    "exitClose", "exitQueue", "exitRunning", "done"}
  /\ ownerPc \in {"init", "starting", "consume", "stop", "stopClose",
                  "stopPipeline", "stopJoin", "stopped"}
  /\ {opened, pipeline, stopRequested, started, running, sourceExhausted,
      recoveryExhausted, awaitingFrame, sawClosed} \subseteq BOOLEAN
  /\ attempts \in 0 .. MaxAttempts /\ restartAttempts \in Nat
  /\ generation \in Nat /\ produced \in 0 .. MaxFrames
  /\ held \in Frames /\ stamped \subseteq Frames
  /\ failCause \in {"none", "closed", "terminal"}
  /\ epoch \in Nat /\ attemptsAtFrame \in Nat
  /\ taken \in Nat /\ delivered \in Nat

\* The queue always holds the newest frames offered, without a hole, oldest
\* first, and all of them newer than anything popped: what drop-oldest means.
NewestInOrder ==
  /\ \A i \in 1 .. Len(queue) : queue[i].seq = Offered - Len(queue) + i - 1
  /\ taken + Len(queue) <= Offered

\* No frame disappears unaccounted: every frame offered was popped, was
\* counted as dropped, or is still waiting, whatever the order of stop(),
\* a drained queue and the end of the capture thread.
FrameAccounting == Offered = delivered + dropped + Len(queue)

\* The stream generation marks the pipeline: two frames carry the same
\* generation exactly when they came out of the same pipeline, and a later
\* frame never carries an earlier generation.  The inference loop resets its
\* trackers, rules and clips on this number alone.
GenerationMarksPipeline ==
  \A f, g \in stamped :
    /\ f.gen = g.gen <=> f.epoch = g.epoch
    /\ f.seq <= g.seq => f.gen <= g.gen

\* Between two frames the source is restarted at most MaxAttempts times, also
\* when a restart opens a pipeline that then delivers nothing.
RestartBudget == restartAttempts - attemptsAtFrame <= MaxAttempts

\* The queue is never closed under a frame about to be pushed: stop() joins
\* the thread first, so the "closed" answer of push never costs a frame.
PushNeverRefused == capturePc = "push" => ~ closed

\* The queue does what drop-oldest means, under any order of stop(), a drained
\* queue and the end of the capture thread: what it holds, what it owes, and
\* that no frame is pushed into a closed one.
QueueContract == NewestInOrder /\ FrameAccounting /\ PushNeverRefused

\* Once stop() has returned the source is released, whatever open(), read or
\* restart it overtook, the queue is closed and nothing is running.
StopReleasesEverything ==
  ownerPc = "stopped" =>
    /\ ~ opened /\ ~ pipeline
    /\ closed /\ ~ running
    /\ capturePc \in {"idle", "done"}

\* stop() interrupting a read is never reported as an exhausted source: the
\* flag rises only after a read that the media ended.
StopIsNotExhaustion ==
  [][sourceExhausted' /\ ~ sourceExhausted => failCause = "terminal"]_vars

\* Both: what stop() leaves behind, and what it may not report.
StopContract == []StopReleasesEverything /\ StopIsNotExhaustion

StopReturns == ownerPc = "stop" ~> ownerPc = "stopped"

ReadsAreBounded == WF_vars(MediaStep)
OutageEnds ==
  ReadsAreBounded =>
    \A n \in 0 .. MaxFrames :
      (capturePc = "restart" /\ produced = n) ~> (produced > n \/ closed)

\* stop() returns, also while a read of a silent source is blocked.  And a source
\* that bounds its reads (RTSP, by its read timeout) cannot keep the inference
\* loop in an outage: once a restart begins, a new frame arrives or the queue is
\* closed.
Progress == StopReturns /\ OutageEnds

\* The capture side keeps the promise of FrameStream.
Stream == INSTANCE FrameStream
            WITH emitted <- Offered, ended <- closed, sawEnd <- sawClosed
StreamSpec == Stream!Spec
=============================================================================
