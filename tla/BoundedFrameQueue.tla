------------------------- MODULE BoundedFrameQueue -------------------------
(***************************************************************************)
(* The drop-oldest frame queue of include/edge_vision/                     *)
(* bounded_frame_queue.hpp.  Every member function runs under one mutex,   *)
(* so each is one step.  The condition variable is waited on with a        *)
(* predicate that is evaluated under that mutex, so a blocked consumer is  *)
(* an action that is not enabled: it becomes enabled when a frame is       *)
(* pushed or the queue is closed.                                          *)
(***************************************************************************)
EXTENDS Integers, Sequences

CONSTANT Capacity          \* the queue's capacity, in frames

ASSUME CapacityAssumption == Capacity \in Nat \ {0}

VARIABLES
  queue,                   \* the frames waiting, oldest first
  dropped,                 \* frames replaced by a newer one
  highWatermark,           \* the greatest length the queue has had
  closed                   \* no further frame is accepted

queueVars == <<queue, dropped, highWatermark, closed>>

QueueInit ==
  /\ queue = <<>>
  /\ dropped = 0
  /\ highWatermark = 0
  /\ closed = FALSE

Full == Len(queue) = Capacity

\* Mutated: the capacity is not enforced.
Pushed_Unbounded(frame) == Append(queue, frame)

\* Mutated: a full queue gives up the newest frame instead.
Pushed_DropsNewest(frame) == IF Full THEN queue ELSE Append(queue, frame)

\* What push leaves in the queue: a full queue gives up its oldest frame.
Pushed(frame) == Append(IF Full THEN Tail(queue) ELSE queue, frame)

\* push: a closed queue refuses the frame and changes nothing.
Push(frame) ==
  \/ /\ ~ closed
     /\ queue' = Pushed(frame)
     /\ dropped' = IF Full THEN dropped + 1 ELSE dropped
     /\ highWatermark' = IF Len(queue') > highWatermark
                         THEN Len(queue') ELSE highWatermark
     /\ UNCHANGED closed
  \/ closed /\ UNCHANGED queueVars

\* wait_pop, wait_pop_for and try_pop when they return a frame.
PopFront ==
  /\ queue # <<>>
  /\ queue' = Tail(queue)
  /\ UNCHANGED <<dropped, highWatermark, closed>>

\* Mutated: a closed queue is reported as such before it is empty.
Drained_Early == closed

\* wait_pop_for when it answers "closed": nothing is left and nothing will come.
Drained == closed /\ queue = <<>>

Close ==
  /\ closed' = TRUE
  /\ UNCHANGED <<queue, dropped, highWatermark>>
=============================================================================
