-------------------------- MODULE FrameCaptureProofs --------------------------
(***************************************************************************)
(* Proofs about FrameCapture for every queue capacity, restart limit and   *)
(* number of frames.  The invariant has four parts:                        *)
(*   TypeOK         types and the queue's bound                            *)
(*   ControlInv     which thread may be where, and what the source and the *)
(*                  queue look like then: the argument for stop()          *)
(*   CountInv       where every frame offered to the queue is              *)
(*   GenerationInv  what the newest pipeline and generation relate to      *)
(* and with it every step is a step of FrameStream or leaves it alone.     *)
(***************************************************************************)
EXTENDS FrameCapture, SequenceTheorems, TLAPS

LEMMA Booleans ==
  ASSUME TypeOK
  PROVE  /\ opened \in BOOLEAN /\ pipeline \in BOOLEAN
         /\ stopRequested \in BOOLEAN /\ started \in BOOLEAN
         /\ running \in BOOLEAN /\ sourceExhausted \in BOOLEAN
         /\ recoveryExhausted \in BOOLEAN /\ awaitingFrame \in BOOLEAN
         /\ sawClosed \in BOOLEAN
  BY DEF TypeOK

-----------------------------------------------------------------------------
(* Types                                                                   *)

\* The queue is the only variable with a structure of its own.
QueueType ==
  /\ queue \in Seq(Frames) /\ Len(queue) <= highWatermark
  /\ highWatermark \in 0 .. Capacity
  /\ dropped \in Nat /\ closed \in BOOLEAN

PcType ==
  /\ capturePc \in {"idle", "startOpen", "restart", "restartClose",
                    "restartLoop", "restartDelay", "restartOpen", "check",
                    "read", "pull", "failed", "decide", "push", "exit",
                    "exitClose", "exitQueue", "exitRunning", "done"}
  /\ ownerPc \in {"init", "starting", "consume", "stop", "stopClose",
                  "stopPipeline", "stopJoin", "stopped"}
  /\ failCause \in {"none", "closed", "terminal"}

FlagType ==
  /\ opened \in BOOLEAN /\ pipeline \in BOOLEAN
  /\ stopRequested \in BOOLEAN /\ started \in BOOLEAN
  /\ running \in BOOLEAN /\ sourceExhausted \in BOOLEAN
  /\ recoveryExhausted \in BOOLEAN /\ awaitingFrame \in BOOLEAN
  /\ sawClosed \in BOOLEAN

DataType ==
  /\ attempts \in 0 .. MaxAttempts /\ restartAttempts \in Nat
  /\ generation \in Nat /\ produced \in 0 .. MaxFrames
  /\ held \in Frames /\ stamped \subseteq Frames
  /\ epoch \in Nat /\ attemptsAtFrame \in Nat
  /\ taken \in Nat /\ delivered \in Nat

LEMMA TypeParts == TypeOK <=> QueueType /\ PcType /\ FlagType /\ DataType
  BY DEF TypeOK, QueueType, PcType, FlagType, DataType

LEMMA TypeInit == Init => TypeOK
<1> SUFFICES ASSUME Init PROVE QueueType /\ PcType /\ FlagType /\ DataType
  BY TypeParts
<1>1. QueueType
  <2>1. queue = << >> /\ Len(queue) = 0 /\ queue \in Seq(Frames)
    BY EmptySeq DEF Init, QueueInit
  <2>2. highWatermark = 0 /\ 0 \in 0 .. Capacity /\ 0 <= 0
    BY CapacityAssumption DEF Init, QueueInit
  <2>3. dropped = 0 /\ closed = FALSE
    BY DEF Init, QueueInit
  <2> QED
    BY <2>1, <2>2, <2>3 DEF QueueType
<1>2. PcType /\ FlagType
  BY DEF Init, PcType, FlagType
<1>3. DataType
  <2>1. held \in Frames /\ stamped = {}
    BY DEF Init, Frames
  <2> QED
    BY <2>1, CaptureAssumption DEF Init, DataType
<1> QED
  BY <1>1, <1>2, <1>3

\* What push leaves in the queue: the frame last, after all that was there or
\* all but the oldest.
LEMMA PushedFacts ==
  ASSUME NEW f \in Frames, queue \in Seq(Frames), Len(queue) <= Capacity
  PROVE  /\ Pushed(f) \in Seq(Frames) /\ Pushed(f) # << >>
         /\ Full => Len(Pushed(f)) = Len(queue)
                    /\ \A i \in 1 .. Len(queue) - 1 : Pushed(f)[i] = queue[i + 1]
         /\ ~ Full => Len(Pushed(f)) = Len(queue) + 1
                      /\ \A i \in 1 .. Len(queue) : Pushed(f)[i] = queue[i]
         /\ Pushed(f)[Len(Pushed(f))] = f
         /\ Len(Pushed(f)) \in 1 .. Capacity
<1>1. Capacity \in Nat \ {0} /\ Len(queue) \in Nat
  BY CapacityAssumption, LenProperties
<1>2. CASE Full
  <2>1. queue # << >> /\ Len(queue) = Capacity
    BY <1>1, <1>2 DEF Full
  <2>2. /\ Tail(queue) \in Seq(Frames)
        /\ Len(Tail(queue)) = Len(queue) - 1
        /\ \A i \in 1 .. Len(queue) - 1 : Tail(queue)[i] = queue[i + 1]
    BY <2>1, HeadTailProperties
  <2>3. Pushed(f) = Append(Tail(queue), f)
    BY <1>2 DEF Pushed
  <2>4. /\ Pushed(f) \in Seq(Frames) /\ Pushed(f) # << >>
        /\ Len(Pushed(f)) = Len(Tail(queue)) + 1
        /\ \A i \in 1 .. Len(Tail(queue)) : Pushed(f)[i] = Tail(queue)[i]
        /\ Pushed(f)[Len(Tail(queue)) + 1] = f
    BY <2>2, <2>3, AppendProperties
  <2> QED
    BY <1>1, <1>2, <2>1, <2>2, <2>4
<1>3. CASE ~ Full
  <2>1. Len(queue) < Capacity
    BY <1>1, <1>3 DEF Full
  <2>2. Pushed(f) = Append(queue, f)
    BY <1>3 DEF Pushed
  <2>3. /\ Pushed(f) \in Seq(Frames) /\ Pushed(f) # << >>
        /\ Len(Pushed(f)) = Len(queue) + 1
        /\ \A i \in 1 .. Len(queue) : Pushed(f)[i] = queue[i]
        /\ Pushed(f)[Len(queue) + 1] = f
    BY <2>2, AppendProperties
  <2> QED
    BY <1>1, <1>3, <2>1, <2>3
<1> QED
  BY <1>2, <1>3

LEMMA QueueTypeStep ==
  ASSUME TypeOK, [Next]_vars
  PROVE  QueueType'
<1> USE DEF queueVars
<1>1. QueueType /\ held \in Frames /\ Capacity \in Nat
  BY TypeParts, CapacityAssumption DEF DataType
<1>2. CASE UNCHANGED queueVars
  BY <1>1, <1>2 DEF QueueType
<1>3. CASE Push(held) /\ ~ closed
  <2>1. Len(queue) \in Nat /\ Len(queue) <= Capacity
    BY <1>1, LenProperties DEF QueueType
  <2>2. queue' \in Seq(Frames) /\ Len(queue') \in 1 .. Capacity
    BY <1>1, <1>3, <2>1, PushedFacts DEF Push, QueueType
  <2>3. /\ highWatermark' = IF Len(queue') > highWatermark
                            THEN Len(queue') ELSE highWatermark
        /\ dropped' \in Nat /\ closed' \in BOOLEAN
    BY <1>1, <1>3 DEF Push, QueueType
  <2> QED
    BY <1>1, <2>2, <2>3 DEF QueueType
<1>4. CASE TakeFrame
  <2>1. queue # << >> /\ queue' = Tail(queue)
        /\ UNCHANGED <<dropped, highWatermark, closed>>
    BY <1>4 DEF TakeFrame, PopFront
  <2>2. queue' \in Seq(Frames) /\ Len(queue') = Len(queue) - 1 /\ Len(queue) \in Nat
    BY <1>1, <2>1, HeadTailProperties, LenProperties DEF QueueType
  <2> QED
    BY <1>1, <2>1, <2>2 DEF QueueType
<1>5. CASE ExitCloseQueue \/ StopJoined
  BY <1>1, <1>5 DEF ExitCloseQueue, StopJoined, Close, QueueType
<1>6. CASE PushFrame
  BY <1>2, <1>3, <1>6 DEF PushFrame, Push
<1> QED
  BY <1>2, <1>4, <1>5, <1>6
  DEF Next, CaptureStep, Restart, MediaStep, OwnerStep, StartOpen,
      RestartCloseFlag, RestartClosePipeline, RestartAttempt, RestartDelayOver,
      RestartOpenSucceeds, RestartOpenFails, RestartEnds, CheckStop, ReadFails,
      ReadBegins, PullFrame, PullTerminal, PullClosed, NoteFailure,
      DecideRestart, ExitCloseFlag, ExitClosePipeline, ExitDone, Start,
      SeeClosed, LeaveLoop, StopRequest, StopCloseFlag, StopClosePipeline,
      Stopped, vars

LEMMA PcTypeStep ==
  ASSUME PcType, [Next]_vars
  PROVE  PcType'
<1>1. CASE UNCHANGED vars
  BY <1>1 DEF vars, PcType
<1>2. CASE CaptureStep
  BY <1>2 DEF CaptureStep, PcType, StartOpen, Restart, RestartCloseFlag,
     RestartClosePipeline, RestartAttempt, RestartDelayOver,
     RestartOpenSucceeds, RestartOpenFails, RestartEnds, CheckStop, ReadFails,
     ReadBegins, PullClosed, NoteFailure, DecideRestart, PushFrame,
     ExitCloseFlag, ExitClosePipeline, ExitCloseQueue, ExitDone, Launch, GiveUp
<1>3. CASE MediaStep
  BY <1>3 DEF MediaStep, PullFrame, PullTerminal, ReadFails, PcType
<1>4. CASE OwnerStep \/ LeaveLoop
  BY <1>4 DEF OwnerStep, Start, TakeFrame, SeeClosed, LeaveLoop, StopRequest,
     StopCloseFlag, StopClosePipeline, StopJoined, PcType
<1> QED
  BY <1>1, <1>2, <1>3, <1>4 DEF Next, Stopped

LEMMA FlagTypeStep ==
  ASSUME FlagType, [Next]_vars
  PROVE  FlagType'
<1> USE DEF flagVars, restartVars, frameVars, ownerVars, sourceVars,
    SourceOpens, SourceCloseFlag, SourceClosePipeline, Launch
<1>1. CASE UNCHANGED vars
  BY <1>1 DEF vars, FlagType
<1>2. CASE StartOpen
  BY <1>2 DEF StartOpen, FlagType
<1>3. CASE Restart
  <2>1. CASE RestartCloseFlag \/ RestartClosePipeline
    BY <2>1 DEF RestartCloseFlag, RestartClosePipeline, FlagType
  <2>2. CASE RestartAttempt \/ RestartDelayOver \/ RestartOpenFails
    BY <2>2 DEF RestartAttempt, RestartDelayOver, RestartOpenFails, FlagType
  <2>3. CASE RestartOpenSucceeds
    BY <2>3 DEF RestartOpenSucceeds, FlagType
  <2>4. CASE RestartEnds
    BY <2>4 DEF RestartEnds, FlagType
  <2> QED
    BY <1>3, <2>1, <2>2, <2>3, <2>4 DEF Restart
<1>4. CASE CaptureStep /\ ~ StartOpen /\ ~ Restart
  <2>1. CASE CheckStop \/ DecideRestart \/ PushFrame
    BY <2>1, ZenonT(60) DEF CheckStop, DecideRestart, PushFrame, FlagType
  <2>2. CASE ReadBegins \/ PullClosed
    BY <2>2, ZenonT(60) DEF ReadBegins, PullClosed, ReadFails, FlagType
  <2>3. CASE NoteFailure
    BY <2>3 DEF NoteFailure, FlagType
  <2>4. CASE ExitCloseFlag \/ ExitClosePipeline \/ ExitCloseQueue
    BY <2>4, ZenonT(60) DEF ExitCloseFlag, ExitClosePipeline, ExitCloseQueue,
       FlagType
  <2>5. CASE ExitDone
    BY <2>5, ZenonT(60) DEF ExitDone, FlagType
  <2> QED
    BY <1>4, <2>1, <2>2, <2>3, <2>4, <2>5 DEF CaptureStep
<1>5. CASE MediaStep
  <2>1. CASE PullFrame
    BY <2>1 DEF PullFrame, FlagType
  <2>2. CASE PullTerminal
    BY <2>2 DEF PullTerminal, ReadFails, FlagType
  <2> QED
    BY <1>5, <2>1, <2>2 DEF MediaStep
<1>6. CASE Start \/ LeaveLoop \/ StopRequest
  BY <1>6, ZenonT(60) DEF Start, LeaveLoop, StopRequest, FlagType
<1>7. CASE TakeFrame \/ SeeClosed
  BY <1>7, ZenonT(60) DEF TakeFrame, SeeClosed, FlagType
<1>8. CASE StopCloseFlag \/ StopClosePipeline \/ StopJoined
  BY <1>8, ZenonT(60) DEF StopCloseFlag, StopClosePipeline, StopJoined, FlagType
<1> QED
  BY <1>1, <1>2, <1>3, <1>4, <1>5, <1>6, <1>7, <1>8
  DEF Next, OwnerStep, Stopped

LEMMA DataTypeStep ==
  ASSUME DataType, queue \in Seq(Frames), [Next]_vars
  PROVE  DataType'
<1> USE DEF flagVars, restartVars, frameVars, ownerVars, sourceVars,
    SourceOpens, SourceCloseFlag, SourceClosePipeline
<1>1. CASE UNCHANGED vars
  BY <1>1 DEF vars, DataType
<1>2. CASE StartOpen
  BY <1>2 DEF StartOpen, DataType
<1>3. CASE RestartAttempt
  BY <1>3, CaptureAssumption DEF RestartAttempt, DataType
<1>4. CASE Restart /\ ~ RestartAttempt
  <2>1. CASE RestartCloseFlag \/ RestartClosePipeline \/ RestartDelayOver
    BY <2>1 DEF RestartCloseFlag, RestartClosePipeline, RestartDelayOver,
       DataType
  <2>2. CASE RestartOpenSucceeds
    BY <2>2 DEF RestartOpenSucceeds, DataType
  <2>3. CASE RestartOpenFails \/ RestartEnds
    BY <2>3 DEF RestartOpenFails, RestartEnds, DataType
  <2> QED
    BY <1>4, <2>1, <2>2, <2>3 DEF Restart
<1>5. CASE CaptureStep /\ ~ StartOpen /\ ~ Restart
  BY <1>5 DEF CaptureStep, DataType, CheckStop, ReadFails,
     ReadBegins, PullClosed, NoteFailure, DecideRestart, PushFrame,
     ExitCloseFlag, ExitClosePipeline, ExitCloseQueue, ExitDone
<1>6. CASE PullFrame
  <2> DEFINE gen == IF awaitingFrame THEN generation + 1 ELSE generation
             f == [seq |-> produced, gen |-> gen, epoch |-> epoch]
  <2>1. f \in Frames /\ gen \in Nat /\ produced + 1 \in 0 .. MaxFrames
    BY <1>6, CaptureAssumption DEF PullFrame, DataType, Frames
  <2>2. held' = f /\ stamped' = stamped \cup {f} /\ generation' = gen
    BY <1>6 DEF PullFrame
  <2>3. /\ produced' = produced + 1 /\ attempts' = 0
        /\ attemptsAtFrame' = restartAttempts
        /\ UNCHANGED <<restartAttempts, epoch, taken, delivered>>
    BY <1>6 DEF PullFrame
  <2> HIDE DEF f, gen
  <2> QED
    BY <2>1, <2>2, <2>3, CaptureAssumption DEF DataType
<1>7. CASE PullTerminal
  BY <1>7 DEF PullTerminal, ReadFails, DataType
<1>8. CASE TakeFrame
  <2>1. Head(queue) \in Frames
    BY <1>8, HeadTailProperties DEF TakeFrame, PopFront
  <2>2. Head(queue).seq + 1 \in Nat
    BY <2>1 DEF Frames
  <2> QED
    BY <1>8, <2>2 DEF TakeFrame, DataType
<1>9. CASE (OwnerStep \/ LeaveLoop) /\ ~ TakeFrame
  BY <1>9 DEF OwnerStep, Start, SeeClosed, LeaveLoop, StopRequest,
     StopCloseFlag, StopClosePipeline, StopJoined, DataType
<1> QED
  BY <1>1, <1>2, <1>3, <1>4, <1>5, <1>6, <1>7, <1>8, <1>9
  DEF Next, MediaStep, Stopped

LEMMA TypeStep == TypeOK /\ [Next]_vars => TypeOK'
<1> SUFFICES ASSUME TypeOK, [Next]_vars PROVE TypeOK'
  OBVIOUS
<1>1. PcType /\ FlagType /\ DataType /\ queue \in Seq(Frames)
  BY TypeParts DEF QueueType
<1>2. (QueueType /\ PcType /\ FlagType /\ DataType)'
  BY <1>1, QueueTypeStep, PcTypeStep, FlagTypeStep, DataTypeStep
<1>3. TypeOK' <=> (QueueType /\ PcType /\ FlagType /\ DataType)'
  BY SMTT(30) DEF TypeOK, QueueType, PcType, FlagType, DataType
<1> QED
  BY <1>2, <1>3

\* In every reachable state every variable has its type, the queue is within
\* its capacity, and its high watermark is at least its length.
THEOREM TypeCorrect == Spec => []TypeOK
<1> QED
  BY TypeInit, TypeStep, PTL DEF Spec, SafeSpec

-----------------------------------------------------------------------------
(* Control.  capture_loop and restart_source are run by one thread at a    *)
(* time: by the owner while it starts the worker, by the capture thread    *)
(* from then on.  Only that code opens the source, so the source stays     *)
(* closed where it has closed it; only stop() closes it from outside.      *)

OwnerControl ==
  /\ ownerPc = "init" => capturePc = "idle" /\ ~ started
  /\ ownerPc = "starting" <=> ~ started /\ capturePc # "idle"
  /\ capturePc \in {"idle", "startOpen"} => ~ started
  /\ capturePc \in {"check", "read", "pull", "failed", "decide", "push", "exit",
                    "exitClose", "exitQueue", "exitRunning", "done"} => started
  /\ ownerPc \in {"stopClose", "stopPipeline", "stopJoin", "stopped"}
       => stopRequested
  /\ ownerPc = "stopped" => closed /\ ~ running /\ capturePc \in {"idle", "done"}
  /\ closed => capturePc \in {"exitRunning", "done"} \/ ownerPc = "stopped"

SourceControl ==
  /\ capturePc \in {"idle", "startOpen", "restartClose", "restartLoop",
                    "restartDelay", "restartOpen", "exitClose", "exitQueue",
                    "exitRunning", "done"} => ~ opened
  /\ capturePc \in {"idle", "startOpen", "restartLoop", "restartDelay",
                    "restartOpen", "exitQueue", "exitRunning", "done"}
       => ~ pipeline
  /\ ~ stopRequested /\ capturePc \in {"check", "read", "pull", "push"}
       => opened /\ pipeline
  /\ capturePc = "failed" =>
       failCause = "terminal" \/ (failCause = "closed" /\ stopRequested)

LEMMA ControlInit == Init => OwnerControl /\ SourceControl
  BY DEF Init, QueueInit, OwnerControl, SourceControl

LEMMA OwnerControlStep ==
  ASSUME PcType, FlagType, OwnerControl, [Next]_vars
  PROVE  OwnerControl'
<1> USE DEF flagVars, queueVars, Launch, GiveUp
<1>1. CASE UNCHANGED vars
  BY <1>1 DEF vars, OwnerControl
<1>2. CASE StartOpen
  BY <1>2 DEF StartOpen, OwnerControl
<1>3. CASE Restart
  <2>1. CASE RestartCloseFlag \/ RestartClosePipeline \/ RestartOpenFails
    BY <1>3, <2>1 DEF RestartCloseFlag, RestartClosePipeline, RestartOpenFails,
       OwnerControl
  <2>2. CASE RestartAttempt
    BY <2>2 DEF RestartAttempt, OwnerControl
  <2>3. CASE RestartDelayOver
    BY <2>3 DEF RestartDelayOver, OwnerControl, PcType
  <2>4. CASE RestartOpenSucceeds
    BY <2>4 DEF RestartOpenSucceeds, OwnerControl
  <2>5. CASE RestartEnds
    BY <2>5 DEF RestartEnds, OwnerControl, PcType
  <2> QED
    BY <1>3, <2>1, <2>2, <2>3, <2>4, <2>5 DEF Restart
<1>4. CASE CheckStop \/ ReadBegins \/ PullClosed \/ NoteFailure \/ DecideRestart
  BY <1>4 DEF CheckStop, ReadFails, ReadBegins, PullClosed, NoteFailure,
     DecideRestart, OwnerControl
<1>5. CASE MediaStep
  BY <1>5 DEF MediaStep, PullFrame, PullTerminal, ReadFails, OwnerControl
<1>6. CASE PushFrame
  BY <1>6 DEF PushFrame, Push, OwnerControl
<1>7. CASE ExitCloseFlag \/ ExitClosePipeline \/ ExitCloseQueue \/ ExitDone
  BY <1>7 DEF ExitCloseFlag, ExitClosePipeline, ExitCloseQueue, ExitDone, Close,
     OwnerControl
<1>8. CASE Start
  BY <1>8 DEF Start, OwnerControl
<1>9. CASE TakeFrame \/ SeeClosed \/ LeaveLoop
  BY <1>9 DEF TakeFrame, PopFront, SeeClosed, LeaveLoop, OwnerControl
<1>10. CASE StopRequest \/ StopCloseFlag \/ StopClosePipeline
  BY <1>10 DEF StopRequest, StopCloseFlag, StopClosePipeline, OwnerControl
<1>11. CASE StopJoined
  BY <1>11 DEF StopJoined, Close, OwnerControl
<1> QED
  BY <1>1, <1>2, <1>3, <1>4, <1>5, <1>6, <1>7, <1>8, <1>9, <1>10, <1>11
  DEF Next, CaptureStep, OwnerStep, Stopped

LEMMA SourceControlStep ==
  ASSUME PcType, FlagType, OwnerControl, SourceControl, [Next]_vars
  PROVE  SourceControl'
<1> USE DEF sourceVars, SourceOpens, SourceCloseFlag, SourceClosePipeline,
    Launch, GiveUp
<1>1. CASE UNCHANGED vars
  BY <1>1 DEF vars, SourceControl
<1>2. CASE StartOpen
  BY <1>2 DEF StartOpen, SourceControl
<1>3. CASE Restart
  <2>1. CASE RestartCloseFlag \/ RestartClosePipeline \/ RestartOpenFails
    BY <1>3, <2>1 DEF RestartCloseFlag, RestartClosePipeline, RestartOpenFails,
       SourceControl
  <2>2. CASE RestartAttempt
    BY <2>2 DEF RestartAttempt, SourceControl
  <2>3. CASE RestartDelayOver
    BY <2>3 DEF RestartDelayOver, SourceControl
  <2>4. CASE RestartOpenSucceeds
    BY <2>4 DEF RestartOpenSucceeds, SourceControl
  <2>5. CASE RestartEnds
    BY <2>5 DEF RestartEnds, SourceControl
  <2> QED
    BY <1>3, <2>1, <2>2, <2>3, <2>4, <2>5 DEF Restart
<1>4. CASE CheckStop \/ ReadBegins \/ PullClosed \/ NoteFailure \/ DecideRestart
  BY <1>4 DEF CheckStop, ReadFails, ReadBegins, PullClosed, NoteFailure,
     DecideRestart, SourceControl, FlagType
<1>5. CASE MediaStep
  BY <1>5 DEF MediaStep, PullFrame, PullTerminal, ReadFails, SourceControl
<1>6. CASE PushFrame
  BY <1>6 DEF PushFrame, Push, SourceControl, OwnerControl
<1>7. CASE ExitCloseFlag \/ ExitClosePipeline \/ ExitCloseQueue \/ ExitDone
  BY <1>7 DEF ExitCloseFlag, ExitClosePipeline, ExitCloseQueue, ExitDone, Close,
     SourceControl
<1>8. CASE Start
  BY <1>8 DEF Start, SourceControl, OwnerControl
<1>9. CASE TakeFrame \/ SeeClosed \/ LeaveLoop
  BY <1>9 DEF TakeFrame, PopFront, SeeClosed, LeaveLoop, SourceControl
<1>10. CASE StopRequest
  BY <1>10 DEF StopRequest, SourceControl
<1>11. CASE StopCloseFlag \/ StopClosePipeline \/ StopJoined
  BY <1>11 DEF StopCloseFlag, StopClosePipeline, StopJoined, SourceControl,
     OwnerControl
<1> QED
  BY <1>1, <1>2, <1>3, <1>4, <1>5, <1>6, <1>7, <1>8, <1>9, <1>10, <1>11
  DEF Next, CaptureStep, OwnerStep, Stopped

ControlInv == TypeOK /\ OwnerControl /\ SourceControl

LEMMA ControlStep == ControlInv /\ [Next]_vars => ControlInv'
<1> SUFFICES ASSUME ControlInv, [Next]_vars PROVE ControlInv'
  OBVIOUS
<1>1. TypeOK'
  BY TypeStep DEF ControlInv
<1>2. OwnerControl' /\ SourceControl'
  BY TypeParts, OwnerControlStep, SourceControlStep DEF ControlInv
<1> QED
  BY <1>1, <1>2 DEF ControlInv

LEMMA ControlInvariant == SafeSpec => []ControlInv
<1>1. Init => ControlInv
  BY TypeInit, ControlInit DEF ControlInv
<1> QED
  BY <1>1, ControlStep, PTL DEF SafeSpec

\* The queue is never closed under a frame that is about to be pushed: neither
\* the end of the capture thread nor stop() can cost a frame that was read.
THEOREM PushIsNeverRefused == Spec => []PushNeverRefused
<1>1. ControlInv => PushNeverRefused
  BY DEF ControlInv, OwnerControl, PushNeverRefused
<1> QED
  BY <1>1, ControlInvariant, PTL DEF Spec

\* Once stop() has returned the source is closed and its pipeline released,
\* the queue is closed and no capture thread runs, wherever that thread was
\* when stop() was called.
THEOREM StopReleases == Spec => []StopReleasesEverything
<1>1. ControlInv => StopReleasesEverything
  BY DEF ControlInv, OwnerControl, SourceControl, StopReleasesEverything
<1> QED
  BY <1>1, ControlInvariant, PTL DEF Spec

\* stop() interrupting a read is never reported as an exhausted source.
THEOREM StopDoesNotExhaust == Spec => StopIsNotExhaustion
<1>1. ControlInv /\ [Next]_vars
        => [sourceExhausted' /\ ~ sourceExhausted => failCause = "terminal"]_vars
  <2> SUFFICES ASSUME ControlInv, [Next]_vars, sourceExhausted', ~ sourceExhausted
               PROVE  failCause = "terminal"
    OBVIOUS
  <2>1. NoteFailure
    BY DEF Next, CaptureStep, Restart, MediaStep, OwnerStep, StartOpen,
      RestartCloseFlag, RestartClosePipeline, RestartAttempt, RestartDelayOver,
      RestartOpenSucceeds, RestartOpenFails, RestartEnds, CheckStop, ReadFails,
      ReadBegins, PullFrame, PullTerminal, PullClosed, PushFrame,
      DecideRestart, ExitCloseFlag, ExitClosePipeline, ExitCloseQueue, ExitDone,
      Start, TakeFrame, SeeClosed, LeaveLoop, StopRequest, StopCloseFlag,
      StopClosePipeline, StopJoined, Stopped, vars, flagVars
  <2> QED
    BY <2>1 DEF NoteFailure, ControlInv, SourceControl
<1> QED
  BY <1>1, ControlInvariant, PTL DEF Spec, SafeSpec, StopIsNotExhaustion

\* What stop() leaves behind and what it may not report, together.
THEOREM StopKeepsContract == Spec => StopContract
<1> QED
  BY StopReleases, StopDoesNotExhaust, PTL DEF StopContract

-----------------------------------------------------------------------------
(* Restart budget: the attempts counted since the last frame are exactly   *)
(* the ones restart_source limits.                                         *)

BudgetInv == attempts = restartAttempts - attemptsAtFrame

LEMMA BudgetStep ==
  ASSUME TypeOK, BudgetInv, [Next]_vars
  PROVE  BudgetInv'
<1>1. attempts \in Nat /\ restartAttempts \in Nat /\ attemptsAtFrame \in Nat
  BY TypeParts, CaptureAssumption DEF DataType
<1>2. CASE RestartAttempt
  BY <1>1, <1>2 DEF RestartAttempt, BudgetInv, frameVars
<1>3. CASE PullFrame
  BY <1>1, <1>3 DEF PullFrame, BudgetInv
<1>4. CASE ~ RestartAttempt /\ ~ PullFrame
  <2>1. UNCHANGED <<attempts, restartAttempts, attemptsAtFrame>>
    BY <1>4 DEF Next, CaptureStep, Restart, MediaStep, OwnerStep, StartOpen,
      RestartCloseFlag, RestartClosePipeline, RestartDelayOver,
      RestartOpenSucceeds, RestartOpenFails, RestartEnds, CheckStop, ReadFails,
      ReadBegins, PullTerminal, PullClosed, PushFrame, NoteFailure,
      DecideRestart, ExitCloseFlag, ExitClosePipeline, ExitCloseQueue, ExitDone,
      Start, TakeFrame, SeeClosed, LeaveLoop, StopRequest, StopCloseFlag,
      StopClosePipeline, StopJoined, Stopped, vars, restartVars, frameVars
  <2> QED
    BY <2>1 DEF BudgetInv
<1> QED
  BY <1>2, <1>3, <1>4

\* Between two frames the source is restarted at most max_restart_attempts
\* times, also when a restart opens a pipeline that then delivers nothing.
THEOREM RestartsBounded == Spec => []RestartBudget
<1>1. Init => TypeOK /\ BudgetInv
  BY TypeInit DEF Init, BudgetInv
<1>2. TypeOK /\ BudgetInv /\ [Next]_vars => (TypeOK /\ BudgetInv)'
  BY TypeStep, BudgetStep
<1>3. TypeOK /\ BudgetInv => RestartBudget
  <2> SUFFICES ASSUME TypeOK, BudgetInv PROVE RestartBudget
    OBVIOUS
  <2>1. attempts \in 0 .. MaxAttempts
    BY TypeParts DEF DataType
  <2> QED
    BY <2>1, CaptureAssumption DEF BudgetInv, RestartBudget
<1> QED
  BY <1>1, <1>2, <1>3, PTL DEF Spec, SafeSpec

-----------------------------------------------------------------------------
(* Counting.  The capture thread's frame and the queue hold a gap-free run *)
(* that ends at the newest frame; what is older was popped or dropped.     *)

CountInv ==
  /\ capturePc = "push" => held.seq = produced - 1
  /\ FrameAccounting
  /\ NewestInOrder
  /\ queue = << >> => taken = Offered

\* The numbers that counting uses are naturals.
LEMMA Numbers ==
  ASSUME TypeOK
  PROVE  /\ queue \in Seq(Frames) /\ Len(queue) \in Nat /\ Len(queue) <= Capacity
         /\ produced \in Nat /\ dropped \in Nat /\ delivered \in Nat
         /\ taken \in Nat /\ Offered \in Int /\ Capacity \in Nat \ {0}
         /\ held \in Frames
<1>1. /\ queue \in Seq(Frames) /\ Len(queue) <= highWatermark
      /\ highWatermark \in 0 .. Capacity /\ dropped \in Nat
      /\ produced \in 0 .. MaxFrames /\ taken \in Nat /\ delivered \in Nat
      /\ held \in Frames
  BY DEF TypeOK
<1>2. Len(queue) \in Nat
  BY <1>1, LenProperties
<1> QED
  BY <1>1, <1>2, CapacityAssumption, CaptureAssumption DEF Offered

LEMMA CountInit == Init => CountInv
  BY EmptySeq, CapacityAssumption DEF Init, QueueInit, CountInv,
     FrameAccounting, NewestInOrder, Offered

\* Every step but a push and a pop leaves what was offered, and where it is.
LEMMA OfferedUnchanged ==
  ASSUME TypeOK, OwnerControl, [Next]_vars, ~ PushFrame, ~ TakeFrame
  PROVE  /\ UNCHANGED <<queue, dropped, delivered, taken>> /\ Offered' = Offered
         /\ capturePc' = "push" => held'.seq = produced' - 1
              \/ UNCHANGED <<capturePc, held, produced>>
<1> USE DEF queueVars, ownerVars, frameVars
<1>1. UNCHANGED <<queue, dropped, delivered, taken>>
  BY DEF Next, CaptureStep, Restart, MediaStep, OwnerStep, StartOpen,
      RestartCloseFlag, RestartClosePipeline, RestartAttempt, RestartDelayOver,
      RestartOpenSucceeds, RestartOpenFails, RestartEnds, CheckStop, ReadFails,
      ReadBegins, PullFrame, PullTerminal, PullClosed, NoteFailure,
      DecideRestart, ExitCloseFlag, ExitClosePipeline, ExitCloseQueue, ExitDone,
      Start, SeeClosed, LeaveLoop, StopRequest, StopCloseFlag,
      StopClosePipeline, StopJoined, Stopped, vars, Close
<1>4. ownerPc = "init" => capturePc # "push"
  BY DEF OwnerControl
<1>2. CASE PullFrame
  <2>1. /\ capturePc = "pull" /\ capturePc' = "push"
        /\ produced' = produced + 1 /\ held'.seq = produced
    BY <1>2 DEF PullFrame
  <2> QED
    BY <1>1, <2>1, Numbers DEF Offered
<1>3. CASE ~ PullFrame
  <2>1. UNCHANGED <<produced, held>>
        /\ (capturePc = "push" <=> capturePc' = "push")
    <3>1. CASE StartOpen \/ RestartOpenSucceeds \/ RestartOpenFails
      BY <3>1 DEF StartOpen, RestartOpenSucceeds, RestartOpenFails, Launch
    <3>6. CASE RestartCloseFlag \/ RestartClosePipeline \/ RestartAttempt
      BY <3>6 DEF RestartCloseFlag, RestartClosePipeline, RestartAttempt
    <3>7. CASE RestartDelayOver \/ RestartEnds
      BY <3>7 DEF RestartDelayOver, RestartEnds, GiveUp
    <3>4. CASE ReadBegins \/ PullClosed
      BY <3>4 DEF ReadFails, ReadBegins, PullClosed
    <3>10. CASE CheckStop \/ NoteFailure \/ DecideRestart
      BY <3>10 DEF CheckStop, NoteFailure, DecideRestart
    <3>5. CASE ExitCloseFlag \/ ExitClosePipeline \/ ExitCloseQueue \/ ExitDone
      BY <3>5 DEF ExitCloseFlag, ExitClosePipeline, ExitCloseQueue, ExitDone
    <3>2. CASE PullTerminal
      BY <3>2 DEF PullTerminal, ReadFails
    <3>11. CASE Start
      BY <1>4, <3>11 DEF Start
    <3>8. CASE SeeClosed \/ LeaveLoop
      BY <3>8 DEF SeeClosed, LeaveLoop
    <3>9. CASE StopRequest \/ StopCloseFlag \/ StopClosePipeline \/ StopJoined
      BY <3>9 DEF StopRequest, StopCloseFlag, StopClosePipeline, StopJoined
    <3>3. CASE UNCHANGED vars
      BY <3>3 DEF vars
    <3> QED
      BY <1>3, <3>1, <3>2, <3>3, <3>4, <3>5, <3>6, <3>7, <3>8, <3>9,
         <3>10, <3>11
      DEF Next, CaptureStep, Restart, MediaStep, OwnerStep, Stopped
  <2>2. Offered' = Offered
    BY <2>1 DEF Offered
  <2>3. UNCHANGED capturePc \/ capturePc' # "push"
    BY <2>1
  <2> QED
    BY <1>1, <2>1, <2>2, <2>3
<1> QED
  BY <1>2, <1>3

LEMMA CountPush ==
  ASSUME ControlInv, CountInv, PushFrame
  PROVE  CountInv' /\ Offered' = Offered + 1 /\ ~ closed
<1>1. TypeOK /\ ~ closed /\ capturePc = "push" /\ capturePc' = "check"
  BY DEF ControlInv, OwnerControl, PushFrame
<1>2. /\ queue' = Pushed(held)
      /\ dropped' = IF Full THEN dropped + 1 ELSE dropped
      /\ UNCHANGED <<produced, taken, delivered>>
  BY <1>1 DEF PushFrame, Push, queueVars, frameVars, ownerVars
<1>3. Offered = produced - 1 /\ Offered' = produced /\ held.seq = Offered
  BY <1>1, <1>2, Numbers DEF Offered, CountInv
<1>4. /\ queue' \in Seq(Frames) /\ queue' # << >>
      /\ Full => Len(queue') = Len(queue)
                 /\ \A i \in 1 .. Len(queue) - 1 : queue'[i] = queue[i + 1]
      /\ ~ Full => Len(queue') = Len(queue) + 1
                   /\ \A i \in 1 .. Len(queue) : queue'[i] = queue[i]
      /\ queue'[Len(queue')] = held
      /\ Len(queue') \in Nat /\ Len(queue') >= 1
  <2>1. queue \in Seq(Frames) /\ Len(queue) <= Capacity /\ held \in Frames
        /\ Capacity \in Nat
    BY <1>1, Numbers
  <2>2. Len(Pushed(held)) \in 1 .. Capacity
    BY <2>1, PushedFacts
  <2>3. Len(Pushed(held)) \in Nat /\ Len(Pushed(held)) >= 1
    BY <2>1, <2>2
  <2>4. /\ Pushed(held) \in Seq(Frames) /\ Pushed(held) # << >>
        /\ Full => Len(Pushed(held)) = Len(queue)
                   /\ \A i \in 1 .. Len(queue) - 1 : Pushed(held)[i] = queue[i + 1]
        /\ ~ Full => Len(Pushed(held)) = Len(queue) + 1
                     /\ \A i \in 1 .. Len(queue) : Pushed(held)[i] = queue[i]
        /\ Pushed(held)[Len(Pushed(held))] = held
    BY <2>1, PushedFacts
  <2> QED
    BY <1>2, <2>3, <2>4
<1>8. /\ Full => Len(queue') = Len(queue)
      /\ ~ Full => Len(queue') = Len(queue) + 1
      /\ Len(queue') \in Nat /\ Len(queue') >= 1
  BY <1>4
<1>9. /\ Len(queue) \in Nat /\ Offered \in Int /\ dropped \in Nat
      /\ delivered \in Nat /\ taken \in Nat
  BY <1>1, Numbers
<1>10. Offered' = Offered + 1
  BY <1>1, <1>3, Numbers
<1>5. FrameAccounting'
  <2>1. Offered = delivered + dropped + Len(queue)
    BY DEF FrameAccounting, CountInv
  <2>3. dropped' + Len(queue') = dropped + Len(queue) + 1
    BY <1>2, <1>8, <1>9
  <2>4. /\ dropped' \in Nat /\ delivered' = delivered /\ delivered \in Nat
        /\ dropped \in Nat /\ Len(queue) \in Nat /\ Len(queue') \in Nat
    BY <1>2, <1>8, <1>9
  <2> QED
    BY <1>10, <2>1, <2>3, <2>4 DEF FrameAccounting
<1>6. \A i \in 1 .. Len(queue') : queue'[i].seq = Offered' - Len(queue') + i - 1
  <2> SUFFICES ASSUME NEW i \in 1 .. Len(queue')
               PROVE  queue'[i].seq = Offered' - Len(queue') + i - 1
    OBVIOUS
  <2>1. CASE i = Len(queue')
    <3>1. queue'[i].seq = Offered
      BY <1>3, <1>4, <2>1
    <3> QED
      BY <1>8, <1>9, <1>10, <2>1, <3>1
  <2>2. CASE i # Len(queue') /\ Full
    <3>4. Len(queue') = Len(queue) /\ Offered' = Offered + 1
      BY <1>8, <1>10, <2>2
    <3>1. i + 1 \in 1 .. Len(queue) /\ i \in 1 .. Len(queue) - 1
      BY <1>8, <1>9, <2>2
    <3>2. queue'[i].seq = queue[i + 1].seq
      BY <1>4, <2>2, <3>1
    <3>3. queue[i + 1].seq = Offered - Len(queue) + (i + 1) - 1
      BY <3>1 DEF CountInv, NewestInOrder
    <3> QED
      BY <1>9, <3>1, <3>2, <3>3, <3>4
  <2>3. CASE i # Len(queue') /\ ~ Full
    <3>1. i \in 1 .. Len(queue)
      BY <1>8, <1>9, <2>3
    <3>2. queue'[i].seq = Offered - Len(queue) + i - 1
      BY <1>4, <2>3, <3>1 DEF CountInv, NewestInOrder
    <3>3. Len(queue') = Len(queue) + 1 /\ Offered' = Offered + 1
      BY <1>8, <1>10, <2>3
    <3> QED
      BY <1>9, <3>1, <3>2, <3>3
  <2> QED
    BY <2>1, <2>2, <2>3
<1>7. taken' + Len(queue') <= Offered'
  BY <1>2, <1>8, <1>9, <1>10, <1>1, CapacityAssumption
     DEF CountInv, NewestInOrder, Full
<1> QED
  BY <1>1, <1>3, <1>4, <1>5, <1>6, <1>7, Numbers DEF CountInv, NewestInOrder

LEMMA CountTake ==
  ASSUME TypeOK, CountInv, TakeFrame
  PROVE  /\ CountInv' /\ Offered' = Offered
         /\ taken' = Offered - Len(queue) + 1 /\ taken' >= taken + 1
         /\ Len(queue) >= 1
<1>1. /\ queue # << >> /\ queue' = Tail(queue) /\ taken' = Head(queue).seq + 1
      /\ delivered' = delivered + 1
      /\ UNCHANGED <<dropped, produced, held, capturePc>>
  BY DEF TakeFrame, PopFront, frameVars
<1>2. Offered' = Offered
  BY <1>1 DEF Offered
<1>3. /\ Len(queue) >= 1 /\ Head(queue) = queue[1]
      /\ queue' \in Seq(Frames) /\ Len(queue') = Len(queue) - 1
      /\ \A i \in 1 .. Len(queue) - 1 : queue'[i] = queue[i + 1]
  <2>1. queue \in Seq(Frames) /\ Len(queue) \in Nat
    BY Numbers
  <2>2. Len(queue) # 0
    BY <1>1, <2>1, EmptySeq
  <2> QED
    BY <1>1, <2>1, <2>2, HeadTailProperties
<1>8. /\ Len(queue) \in Nat /\ Offered \in Int /\ dropped \in Nat
      /\ delivered \in Nat /\ taken \in Nat
  BY Numbers
<1>9. Len(queue) >= 1 /\ Len(queue') = Len(queue) - 1
  BY <1>3
<1>4. taken' = Offered - Len(queue) + 1 /\ taken' >= taken + 1
  <2>1. queue[1].seq = Offered - Len(queue) + 1 - 1
    BY <1>3, Numbers DEF CountInv, NewestInOrder
  <2> QED
    BY <1>1, <1>3, <1>8, <2>1 DEF CountInv, NewestInOrder
<1>5. FrameAccounting'
  BY <1>1, <1>2, <1>8, <1>9 DEF FrameAccounting, CountInv
<1>6. NewestInOrder'
  <2>1. ASSUME NEW i \in 1 .. Len(queue')
        PROVE  queue'[i].seq = Offered' - Len(queue') + i - 1
    <3>1. i \in 1 .. Len(queue) - 1 /\ i + 1 \in 1 .. Len(queue)
      BY <1>3, Numbers
    <3>2. queue[i + 1].seq = Offered - Len(queue) + (i + 1) - 1
      BY <3>1 DEF CountInv, NewestInOrder
    <3>3. queue'[i].seq = queue[i + 1].seq
      BY <1>3, <3>1
    <3> QED
      BY <1>2, <1>8, <1>9, <3>1, <3>2, <3>3
  <2>2. taken' + Len(queue') <= Offered'
    BY <1>2, <1>4, <1>8, <1>9
  <2> QED
    BY <2>1, <2>2 DEF NewestInOrder
<1>7. queue' = << >> => taken' = Offered'
  <2> SUFFICES ASSUME queue' = << >> PROVE taken' = Offered'
    OBVIOUS
  <2>1. Len(queue') = 0
    BY EmptySeq
  <2>2. Len(queue) \in Nat /\ Offered \in Int
    BY Numbers
  <2>3. Len(queue) = 1
    BY <1>3, <2>1, <2>2
  <2>4. taken' = Offered
    BY <1>4, <2>2, <2>3
  <2> QED
    BY <1>2, <2>4
<1> QED
  BY <1>1, <1>2, <1>3, <1>4, <1>5, <1>6, <1>7 DEF CountInv

LEMMA CountStep == ControlInv /\ CountInv /\ [Next]_vars => CountInv'
<1> SUFFICES ASSUME ControlInv, CountInv, [Next]_vars PROVE CountInv'
  OBVIOUS
<1>1. TypeOK /\ OwnerControl
  BY DEF ControlInv
<1>2. CASE ~ PushFrame /\ ~ TakeFrame
  <2>1. /\ UNCHANGED <<queue, dropped, delivered, taken>> /\ Offered' = Offered
        /\ capturePc' = "push" => held'.seq = produced' - 1
             \/ UNCHANGED <<capturePc, held, produced>>
    BY <1>1, <1>2, OfferedUnchanged
  <2>2. FrameAccounting' /\ NewestInOrder' /\ (queue' = << >> => taken' = Offered')
    BY <2>1 DEF CountInv, FrameAccounting, NewestInOrder
  <2> QED
    BY <2>1, <2>2 DEF CountInv
<1> QED
  BY <1>1, <1>2, CountPush, CountTake

LEMMA CountInvariant == SafeSpec => [](ControlInv /\ CountInv)
<1>1. Init => ControlInv /\ CountInv
  BY TypeInit, ControlInit, CountInit DEF ControlInv
<1>2. ControlInv /\ CountInv /\ [Next]_vars => (ControlInv /\ CountInv)'
  BY ControlStep, CountStep
<1> QED
  BY <1>1, <1>2, PTL DEF SafeSpec

\* No frame is lost uncounted, whatever the order of pushes, pops, stop() and
\* the end of the capture thread.
THEOREM FramesAccounted == Spec => []FrameAccounting
<1>1. CountInv => FrameAccounting
  BY DEF CountInv
<1> QED
  BY <1>1, CountInvariant, PTL DEF Spec

\* The queue always holds the newest frames offered, in order and without a
\* hole, and all of them newer than anything the inference loop has popped.
THEOREM QueueHoldsNewest == Spec => []NewestInOrder
<1>1. CountInv => NewestInOrder
  BY DEF CountInv
<1> QED
  BY <1>1, CountInvariant, PTL DEF Spec

\* The drop-oldest contract: the queue holds the newest frames, every frame is
\* accounted for, and none is pushed into a closed queue.
THEOREM QueueKeepsContract == Spec => []QueueContract
<1>1. NewestInOrder /\ FrameAccounting /\ PushNeverRefused => QueueContract
  BY DEF QueueContract
<1> QED
  BY <1>1, QueueHoldsNewest, FramesAccounted, PushIsNeverRefused, PTL

-----------------------------------------------------------------------------
(* The stream generation.  After a restart no frame of the new pipeline    *)
(* exists until awaitingFrame is cleared, and then the newest generation   *)
(* and the newest pipeline belong to the same frames.                      *)

GenerationInv ==
  /\ GenerationMarksPipeline
  /\ ~ started => stamped = {}
  /\ \A f \in stamped :
       f.seq < produced /\ f.gen <= generation /\ f.epoch <= epoch
  /\ awaitingFrame => \A f \in stamped : f.epoch < epoch
  /\ ~ awaitingFrame =>
       \A f \in stamped : f.gen = generation <=> f.epoch = epoch

LEMMA GenerationInit == Init => GenerationInv
  BY DEF Init, GenerationInv, GenerationMarksPipeline

\* What the frames of the invariant are compared with.
LEMMA GenerationNumbers ==
  ASSUME TypeOK
  PROVE  /\ produced \in Nat /\ generation \in Nat /\ epoch \in Nat
         /\ awaitingFrame \in BOOLEAN /\ started \in BOOLEAN
         /\ \A f \in stamped : f.seq \in Nat /\ f.gen \in Nat /\ f.epoch \in Nat
<1>1. stamped \subseteq Frames /\ produced \in 0 .. MaxFrames
      /\ generation \in Nat /\ epoch \in Nat
  BY DEF TypeOK
<1>2. \A f \in Frames : f.seq \in Nat /\ f.gen \in Nat /\ f.epoch \in Nat
  BY DEF Frames
<1> QED
  BY <1>1, <1>2, Booleans, CaptureAssumption

LEMMA GenerationPull ==
  ASSUME ControlInv, GenerationInv, PullFrame
  PROVE  GenerationInv'
<1> DEFINE gen == IF awaitingFrame THEN generation + 1 ELSE generation
           new == [seq |-> produced, gen |-> gen, epoch |-> epoch]
<1>1. /\ TypeOK /\ capturePc = "pull" /\ started
  BY DEF ControlInv, OwnerControl, PullFrame
<1>2. /\ stamped' = stamped \cup {new} /\ generation' = gen
      /\ produced' = produced + 1 /\ awaitingFrame' = FALSE
      /\ UNCHANGED <<epoch, started>>
  BY DEF PullFrame, sourceVars
<1>3. /\ produced \in Nat /\ generation \in Nat /\ epoch \in Nat /\ gen \in Nat
      /\ awaitingFrame \in BOOLEAN
      /\ \A f \in stamped : f.seq \in Nat /\ f.gen \in Nat /\ f.epoch \in Nat
  BY <1>1, GenerationNumbers
<1>4. new.seq = produced /\ new.gen = gen /\ new.epoch = epoch
  OBVIOUS
<1>5. \A f \in stamped :
        /\ f.seq < produced /\ f.gen <= gen /\ f.epoch <= epoch
        /\ f.gen = gen <=> f.epoch = epoch
  <2>1. CASE awaitingFrame
    BY <1>3, <2>1 DEF GenerationInv
  <2>2. CASE ~ awaitingFrame
    BY <1>3, <2>2 DEF GenerationInv
  <2> QED
    BY <2>1, <2>2
<1> HIDE DEF new, gen
<1>6. GenerationMarksPipeline'
  <2>1. ASSUME NEW f \in stamped', NEW g \in stamped'
        PROVE  /\ f.gen = g.gen <=> f.epoch = g.epoch
               /\ f.seq <= g.seq => f.gen <= g.gen
    <3>1. CASE f \in stamped /\ g \in stamped
      BY <3>1 DEF GenerationInv, GenerationMarksPipeline
    <3>2. CASE f \in stamped /\ g = new
      BY <1>3, <1>4, <1>5, <3>2
    <3>3. CASE f = new /\ g \in stamped
      BY <1>3, <1>4, <1>5, <3>3
    <3>4. CASE f = new /\ g = new
      BY <1>3, <1>4, <3>4
    <3> QED
      BY <1>2, <2>1, <3>1, <3>2, <3>3, <3>4
  <2> QED
    BY <2>1 DEF GenerationMarksPipeline
<1>7. \A f \in stamped' :
        /\ f.seq < produced' /\ f.gen <= generation' /\ f.epoch <= epoch'
        /\ f.gen = generation' <=> f.epoch = epoch'
  BY <1>2, <1>3, <1>4, <1>5
<1> QED
  BY <1>1, <1>2, <1>6, <1>7 DEF GenerationInv

LEMMA GenerationOpen ==
  ASSUME ControlInv, GenerationInv, StartOpen \/ RestartOpenSucceeds
  PROVE  GenerationInv'
<1>1. TypeOK /\ ~ opened /\ UNCHANGED <<stamped, produced, generation>>
  BY DEF ControlInv, SourceControl, StartOpen, RestartOpenSucceeds, frameVars
<1>2. GenerationMarksPipeline'
  BY <1>1 DEF GenerationInv, GenerationMarksPipeline
<1>3. /\ epoch \in Nat
      /\ \A f \in stamped : f.seq < produced /\ f.gen <= generation
                            /\ f.epoch <= epoch /\ f.epoch \in Nat
  BY <1>1, GenerationNumbers DEF GenerationInv
<1>4. CASE RestartOpenSucceeds
  <2>1. epoch' = epoch + 1 /\ awaitingFrame' /\ started'
    BY <1>1, <1>4, Booleans DEF RestartOpenSucceeds, SourceOpens, Launch
  <2> QED
    BY <1>1, <1>2, <1>3, <2>1 DEF GenerationInv
<1>5. CASE StartOpen /\ SourceOpens /\ Launch
  <2>1. capturePc = "startOpen" /\ started' /\ UNCHANGED awaitingFrame
        /\ epoch' = epoch + 1
    BY <1>1, <1>5, Booleans DEF StartOpen, SourceOpens, Launch, restartVars
  <2>2. ~ started
    BY <2>1 DEF ControlInv, OwnerControl
  <2>3. stamped = {}
    BY <2>2 DEF GenerationInv
  <2> QED
    BY <1>1, <1>2, <2>1, <2>3 DEF GenerationInv
<1>6. CASE StartOpen /\ UNCHANGED <<sourceVars, started, running, ownerPc>>
  <2>1. UNCHANGED <<epoch, started, awaitingFrame>>
    BY <1>6 DEF StartOpen, sourceVars, restartVars
  <2> QED
    BY <1>1, <1>2, <2>1 DEF GenerationInv
<1> QED
  BY <1>4, <1>5, <1>6 DEF StartOpen

\* Any other step stamps no frame and opens no pipeline.
LEMMA GenerationUnchanged ==
  ASSUME [Next]_vars, ~ PullFrame, ~ StartOpen, ~ RestartOpenSucceeds
  PROVE  UNCHANGED <<stamped, produced, generation, awaitingFrame, epoch, started>>
<1> USE DEF sourceVars, frameVars, flagVars, restartVars, SourceCloseFlag,
    SourceClosePipeline
<1>1. CASE Restart
  BY <1>1 DEF Restart, RestartCloseFlag, RestartClosePipeline, RestartAttempt,
     RestartDelayOver, RestartOpenFails, RestartEnds
<1>2. CASE CheckStop \/ ReadBegins \/ PullClosed \/ NoteFailure \/ DecideRestart
  BY <1>2 DEF CheckStop, ReadBegins, PullClosed, ReadFails, NoteFailure,
     DecideRestart
<1>3. CASE PushFrame \/ ExitCloseFlag \/ ExitClosePipeline \/ ExitCloseQueue
             \/ ExitDone
  BY <1>3 DEF PushFrame, ExitCloseFlag, ExitClosePipeline, ExitCloseQueue,
     ExitDone
<1>4. CASE PullTerminal
  BY <1>4 DEF PullTerminal, ReadFails
<1>5. CASE Start \/ TakeFrame \/ SeeClosed \/ LeaveLoop
  BY <1>5 DEF Start, TakeFrame, SeeClosed, LeaveLoop
<1>6. CASE StopRequest \/ StopCloseFlag \/ StopClosePipeline \/ StopJoined
  BY <1>6 DEF StopRequest, StopCloseFlag, StopClosePipeline, StopJoined
<1>7. CASE UNCHANGED vars
  BY <1>7 DEF vars
<1> QED
  BY <1>1, <1>2, <1>3, <1>4, <1>5, <1>6, <1>7
  DEF Next, CaptureStep, MediaStep, OwnerStep, Stopped

LEMMA GenerationStep == ControlInv /\ GenerationInv /\ [Next]_vars => GenerationInv'
<1> SUFFICES ASSUME ControlInv, GenerationInv, [Next]_vars PROVE GenerationInv'
  OBVIOUS
<1>1. CASE ~ PullFrame /\ ~ StartOpen /\ ~ RestartOpenSucceeds
  <2>1. UNCHANGED <<stamped, produced, generation, awaitingFrame, epoch, started>>
    BY <1>1, GenerationUnchanged
  <2> QED
    BY <2>1 DEF GenerationInv, GenerationMarksPipeline
<1> QED
  BY <1>1, GenerationPull, GenerationOpen

\* Two frames carry the same stream generation exactly when they came out of
\* the same pipeline, and generations never go back, however often the source
\* was reopened between two frames.
THEOREM GenerationsMarkPipelines == Spec => []GenerationMarksPipeline
<1>1. Init => ControlInv /\ GenerationInv
  BY TypeInit, ControlInit, GenerationInit DEF ControlInv
<1>2. ControlInv /\ GenerationInv /\ [Next]_vars => (ControlInv /\ GenerationInv)'
  BY ControlStep, GenerationStep
<1>3. GenerationInv => GenerationMarksPipeline
  BY DEF GenerationInv
<1> QED
  BY <1>1, <1>2, <1>3, PTL DEF Spec, SafeSpec

-----------------------------------------------------------------------------
(* The promise of FrameStream.  A push is an Emit, a pop a Take; closing   *)
(* the queue is End and the "closed" answer SeeEnd.                        *)

LEMMA StreamInit == Init => Stream!Init
  BY DEF Init, QueueInit, Stream!Init, Offered

LEMMA StreamClosing ==
  ASSUME ControlInv, [Next]_vars, ~ PushFrame, ~ TakeFrame, ~ SeeClosed
  PROVE  UNCHANGED sawClosed /\ (UNCHANGED closed \/ closed')
<1> USE DEF queueVars, ownerVars
<1>1. CASE StartOpen \/ Restart
  BY <1>1 DEF StartOpen, Restart, RestartCloseFlag, RestartClosePipeline,
     RestartAttempt, RestartDelayOver, RestartOpenSucceeds, RestartOpenFails,
     RestartEnds
<1>2. CASE CheckStop \/ ReadBegins \/ PullClosed \/ NoteFailure \/ DecideRestart
  BY <1>2 DEF CheckStop, ReadBegins, PullClosed, ReadFails, NoteFailure,
     DecideRestart
<1>3. CASE ExitCloseFlag \/ ExitClosePipeline \/ ExitCloseQueue \/ ExitDone
  BY <1>3 DEF ExitCloseFlag, ExitClosePipeline, ExitCloseQueue, Close, ExitDone
<1>4. CASE MediaStep
  BY <1>4 DEF MediaStep, PullFrame, PullTerminal, ReadFails
<1>5. CASE Start \/ LeaveLoop
  BY <1>5 DEF Start, LeaveLoop
<1>6. CASE StopRequest \/ StopCloseFlag \/ StopClosePipeline \/ StopJoined
  BY <1>6 DEF StopRequest, StopCloseFlag, StopClosePipeline, StopJoined, Close
<1>7. CASE UNCHANGED vars
  BY <1>7 DEF vars
<1> QED
  BY <1>1, <1>2, <1>3, <1>4, <1>5, <1>6, <1>7
  DEF Next, CaptureStep, OwnerStep, Stopped

LEMMA StreamStep ==
  ControlInv /\ CountInv /\ [Next]_vars => [Stream!Next]_(Stream!streamVars)
<1> SUFFICES ASSUME ControlInv, CountInv, [Next]_vars
             PROVE  Stream!Next \/ UNCHANGED <<Offered, taken, closed, sawClosed>>
  BY DEF Stream!streamVars
<1>1. TypeOK /\ OwnerControl
  BY DEF ControlInv
<1>2. CASE PushFrame
  <2>1. Offered' = Offered + 1 /\ ~ closed
    BY <1>2, CountPush
  <2>2. UNCHANGED <<taken, closed, sawClosed>>
    BY <1>2, <2>1 DEF PushFrame, Push, ownerVars
  <2> QED
    BY <2>1, <2>2 DEF Stream!Next, Stream!Emit
<1>3. CASE TakeFrame
  <2>1. /\ Offered' = Offered /\ UNCHANGED <<closed, sawClosed>>
        /\ taken' = Offered - Len(queue) + 1 /\ taken' >= taken + 1
        /\ Len(queue) >= 1
    BY <1>1, <1>3, CountTake DEF TakeFrame, PopFront
  <2>2. taken' \in (taken + 1) .. Offered /\ taken' > Offered - Capacity
    BY <1>1, <2>1, Numbers
  <2> QED
    BY <2>1, <2>2 DEF Stream!Next, Stream!Take
<1>4. CASE SeeClosed
  <2>1. /\ closed /\ queue = << >> /\ sawClosed' = TRUE
        /\ UNCHANGED <<taken, closed, capturePc, produced>>
    BY <1>4 DEF SeeClosed, Drained, queueVars, frameVars
  <2>2. taken = Offered /\ Offered' = Offered
    BY <2>1 DEF CountInv, Offered
  <2> QED
    BY <2>1, <2>2 DEF Stream!Next, Stream!SeeEnd
<1>5. CASE ~ PushFrame /\ ~ TakeFrame /\ ~ SeeClosed
  <2>1. UNCHANGED <<taken>> /\ Offered' = Offered
    BY <1>1, <1>5, OfferedUnchanged
  <2>2. UNCHANGED sawClosed /\ (UNCHANGED closed \/ closed')
    BY <1>5, StreamClosing
  <2>3. closed \in BOOLEAN /\ closed' \in BOOLEAN
    <3>1. TypeOK'
      BY <1>1, TypeStep
    <3> QED
      BY <1>1, <3>1 DEF TypeOK
  <2> QED
    BY <2>1, <2>2, <2>3 DEF Stream!Next, Stream!End
<1> QED
  BY <1>2, <1>3, <1>4, <1>5

\* The capture side implements FrameStream: frames may be skipped, but never
\* reordered, repeated or handed over once Capacity newer ones were offered,
\* and the end is reported only after the last captured frame was popped.
THEOREM ImplementsStream == Spec => StreamSpec
<1> QED
  BY StreamInit, StreamStep, CountInvariant, PTL DEF Spec, SafeSpec, StreamSpec, Stream!Spec
=============================================================================
