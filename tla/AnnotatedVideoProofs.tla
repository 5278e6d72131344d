------------------------ MODULE AnnotatedVideoProofs ------------------------
(***************************************************************************)
(* Proofs about AnnotatedVideo for every queue capacity, label duration    *)
(* and number of frames and events.  The invariant has five parts:         *)
(*   TypeOK       types and the queue's bound                              *)
(*   ThreadInv    what each position of the encoder thread says of its     *)
(*                packet and sink, and when it may have stopped            *)
(*   OrderInv     where every frame is, and in which order                 *)
(*   TravelInv    where every event is: with one packet, or drawn          *)
(*   LabelInv     where its label is: in the encoder thread's list, until  *)
(*                its window has passed                                    *)
(***************************************************************************)
EXTENDS AnnotatedVideo, SequenceTheorems, TLAPS

-----------------------------------------------------------------------------
(* The queue                                                               *)

LEMMA QueueFacts ==
  ASSUME TypeOK
  PROVE  /\ queue \in Seq(Packets) /\ Len(queue) \in Nat /\ Len(queue) <= Capacity
         /\ Capacity \in Nat \ {0} /\ DOMAIN queue = 1 .. Len(queue)
         /\ \A i \in 1 .. Len(queue) : queue[i] \in Packets
         /\ \A i \in 1 .. Len(queue) :
              queue[i].seq \in Nat /\ queue[i].events \in SUBSET Events
<1>1. queue \in Seq(Packets) /\ Len(queue) <= Capacity
  BY DEF TypeOK
<1>2. Len(queue) \in Nat /\ DOMAIN queue = 1 .. Len(queue)
  BY <1>1, LenProperties
<1>3. \A i \in 1 .. Len(queue) : queue[i] \in Packets
  BY <1>1, ElementOfSeq
<1> QED
  BY <1>1, <1>2, <1>3, VideoAssumption DEF Packets

\* What a new packet leaves of the queue, and where it goes.
LEMMA QueuedShape ==
  ASSUME TypeOK, NEW p \in Packets
  PROVE  /\ Queued(p) \in Seq(Packets)
         /\ Len(Queued(p)) = IF Len(queue) = Capacity THEN Capacity ELSE Len(queue) + 1
         /\ Queued(p)[Len(Queued(p))].seq = p.seq
         /\ Len(queue) = Capacity =>
              /\ \A i \in 1 .. Capacity - 1 : Queued(p)[i] = queue[i + 1]
              /\ Queued(p)[Capacity].events = queue[1].events \cup p.events
         /\ Len(queue) # Capacity =>
              /\ \A i \in 1 .. Len(queue) : Queued(p)[i] = queue[i]
              /\ Queued(p)[Len(queue) + 1] = p
<1>0. /\ queue \in Seq(Packets) /\ Len(queue) \in Nat /\ Capacity \in Nat \ {0}
      /\ p.seq \in Nat /\ p.events \in SUBSET Events
  BY QueueFacts DEF Packets
<1>1. CASE Len(queue) = Capacity
  <2> DEFINE q == [p EXCEPT !.events = Head(queue).events \cup @]
             rest == Tail(queue)
  <2>1. queue # << >> /\ Head(queue) = queue[1] /\ Head(queue) \in Packets
    BY <1>0, <1>1, QueueFacts, EmptySeq, HeadTailProperties
  <2>2. /\ rest \in Seq(Packets) /\ Len(rest) = Capacity - 1
        /\ \A i \in 1 .. Len(rest) : rest[i] = queue[i + 1]
    BY <1>0, <1>1, <2>1, HeadTailProperties
  <2>3. q \in Packets /\ q.seq = p.seq /\ q.events = queue[1].events \cup p.events
    BY <1>0, <2>1 DEF Packets
  <2> HIDE DEF q, rest
  <2>4. /\ Append(rest, q) \in Seq(Packets) /\ Len(Append(rest, q)) = Capacity
        /\ \A i \in 1 .. Capacity - 1 : Append(rest, q)[i] = rest[i]
        /\ Append(rest, q)[Capacity] = q
    BY <1>0, <2>2, <2>3, AppendProperties
  <2>5. Queued(p) = Append(rest, q)
    BY <1>1 DEF Queued, q, rest
  <2> QED
    BY <1>0, <1>1, <2>2, <2>3, <2>4, <2>5
<1>2. CASE Len(queue) # Capacity
  <2>1. Queued(p) = Append(queue, p)
    BY <1>2 DEF Queued
  <2>2. /\ Append(queue, p) \in Seq(Packets) /\ Len(Append(queue, p)) = Len(queue) + 1
        /\ \A i \in 1 .. Len(queue) : Append(queue, p)[i] = queue[i]
        /\ Append(queue, p)[Len(queue) + 1] = p
    BY <1>0, AppendProperties
  <2> QED
    BY <1>2, <2>1, <2>2
<1> QED
  BY <1>1, <1>2

\* The new packet comes last, after all the others or all but the oldest.
LEMMA QueuedShift ==
  ASSUME TypeOK, NEW p \in Packets
  PROVE  /\ Len(Queued(p)) \in Nat \ {0} /\ Len(Queued(p)) <= Capacity
         /\ Queued(p)[Len(Queued(p))].seq = p.seq
         /\ \E d \in 0 .. 1 :
              /\ d = 1 <=> Len(queue) = Capacity
              /\ Len(Queued(p)) = Len(queue) + 1 - d
              /\ \A i \in 1 .. Len(Queued(p)) - 1 : Queued(p)[i] = queue[i + d]
<1>1. Len(queue) \in Nat /\ Len(queue) <= Capacity /\ Capacity \in Nat \ {0}
  BY QueueFacts
<1>2. Queued(p)[Len(Queued(p))].seq = p.seq
  BY QueuedShape
<1>3. CASE Len(queue) = Capacity
  <2>1. /\ Len(Queued(p)) = Capacity
        /\ \A i \in 1 .. Capacity - 1 : Queued(p)[i] = queue[i + 1]
    BY <1>3, QueuedShape
  <2> QED
    BY <1>1, <1>2, <1>3, <2>1
<1>4. CASE Len(queue) # Capacity
  <2>1. /\ Len(Queued(p)) = Len(queue) + 1
        /\ \A i \in 1 .. Len(queue) : Queued(p)[i] = queue[i]
    BY <1>4, QueuedShape
  <2> QED
    BY <1>1, <1>2, <1>4, <2>1
<1> QED
  BY <1>3, <1>4

\* What the encoder thread takes, and what it leaves.
LEMMA TakenShape ==
  ASSUME TypeOK, queue # << >>
  PROVE  /\ Head(queue) = queue[1] /\ queue[1] \in Packets
         /\ Tail(queue) \in Seq(Packets) /\ Len(Tail(queue)) = Len(queue) - 1
         /\ Len(queue) \in Nat \ {0}
         /\ \A i \in 1 .. Len(queue) - 1 : Tail(queue)[i] = queue[i + 1]
<1>1. queue \in Seq(Packets) /\ Len(queue) \in Nat
  BY QueueFacts
<1>2. Len(queue) # 0
  BY <1>1, EmptySeq
<1>3. /\ Head(queue) = queue[1] /\ Tail(queue) \in Seq(Packets)
      /\ Len(Tail(queue)) = Len(queue) - 1
      /\ \A i \in 1 .. Len(Tail(queue)) : Tail(queue)[i] = queue[i + 1]
  BY <1>1, HeadTailProperties
<1> QED
  BY <1>1, <1>2, <1>3, QueueFacts

-----------------------------------------------------------------------------
(* Types                                                                   *)

LEMMA NothingHeld == NoPacket \in Packets /\ NoPacket.seq = 0 /\ NoPacket.events = {}
  BY DEF NoPacket, Packets

LEMMA TypeInit == Init => TypeOK
<1> SUFFICES ASSUME Init PROVE TypeOK
  OBVIOUS
<1>1. << >> \in Seq(Packets) /\ << >> \in Seq([seq : Nat, labels : SUBSET Events])
      /\ Len(<< >>) = 0
  BY EmptySeq
<1>2. stats \in [submitted : Nat, written : Nat, dropped : Nat, high : 0 .. Capacity]
  BY VideoAssumption DEF Init
<1>3. 1 \in 1 .. MaxEvents + 1 /\ 0 <= Capacity
  BY VideoAssumption
<1> QED
  BY <1>1, <1>2, <1>3, NothingHeld DEF Init, TypeOK

LEMMA TypeWrite ==
  ASSUME TypeOK, NEW jump \in 1 .. MaxJump, NEW found \in 0 .. 1, Write(jump, found)
  PROVE  TypeOK'
<1> DEFINE p == [seq |-> sequence + jump, events |-> nextEvent .. nextEvent + found - 1]
<1>1. CASE workerError
  BY <1>1 DEF TypeOK, Write, queueVars, workerVars, sinkVars
<1>2. CASE ~ workerError
  <2>1. sequence \in Nat /\ nextEvent \in 1 .. MaxEvents + 1 /\ MaxEvents \in Nat
        /\ MaxJump \in Nat /\ nextEvent + found <= MaxEvents + 1
    BY VideoAssumption DEF TypeOK, Write
  <2>2. p \in Packets
    BY <2>1 DEF Packets, Events
  <2>3. sequence' \in Nat /\ nextEvent' \in 1 .. MaxEvents + 1
    BY <1>2, <2>1 DEF Write
  <2>4. queue' = Queued(p) /\ stats' = Counted
    BY <1>2 DEF Write
  <2> HIDE DEF p
  <2>5. queue' \in Seq(Packets) /\ Len(queue') <= Capacity
    BY <2>2, <2>4, QueuedShape, QueueFacts
  <2>6. Len(Queued(NoPacket)) \in 0 .. Capacity
    BY NothingHeld, QueuedShape, QueueFacts
  <2>7. stats' \in [submitted : Nat, written : Nat, dropped : Nat, high : 0 .. Capacity]
    <3> DEFINE Stats == [submitted : Nat, written : Nat, dropped : Nat, high : 0 .. Capacity]
               high == IF Len(Queued(NoPacket)) > stats.high THEN Len(Queued(NoPacket))
                       ELSE stats.high
               dropped == IF Len(queue) = Capacity THEN stats.dropped + 1 ELSE stats.dropped
    <3>1. stats \in Stats
      BY DEF TypeOK
    <3>2. high \in 0 .. Capacity /\ dropped \in Nat
      BY <2>6, <3>1
    <3>3. stats' = [stats EXCEPT !.submitted = @ + 1, !.dropped = dropped, !.high = high]
      BY <2>4 DEF Counted
    <3> HIDE DEF high, dropped
    <3>4. /\ stats.submitted \in Nat /\ stats.written \in Nat
          /\ stats' = [submitted |-> stats.submitted + 1, written |-> stats.written,
                      dropped |-> dropped, high |-> high]
      BY <3>1, <3>3
    <3> QED
      BY <3>2, <3>4
  <2>8. UNCHANGED <<encoder, callerPc, workerError, stopRequested, workerPc, packet,
                    labels, sink, pipeline, video>>
    BY <1>2 DEF Write, workerVars, sinkVars
  <2> QED
    BY <2>3, <2>5, <2>7, <2>8 DEF TypeOK
<1> QED
  BY <1>1, <1>2

LEMMA TypeTake ==
  ASSUME TypeOK, TakePacket
  PROVE  TypeOK'
<1>1. queue # << >> /\ packet' = Head(queue) /\ queue' = Tail(queue)
      /\ labels' = Shown(Head(queue)) /\ workerPc' \in {"open", "write"}
      /\ UNCHANGED <<encoder, callerPc, sequence, nextEvent, stats, workerError,
                     stopRequested, sink, pipeline, video>>
  BY DEF TakePacket, callerVars, sinkVars
<1>2. packet' \in Packets /\ queue' \in Seq(Packets) /\ Len(queue') <= Capacity
  BY <1>1, TakenShape, QueueFacts
<1>3. labels' \subseteq [event : Events, until : Nat]
  <2>1. /\ Head(queue).seq + LabelFrames \in Nat /\ Head(queue).events \in SUBSET Events
        /\ labels \subseteq [event : Events, until : Nat]
    <3>1. Head(queue) \in Packets
      BY <1>1, TakenShape
    <3>2. labels \subseteq [event : Events, until : Nat]
      BY DEF TypeOK
    <3> QED
      BY <3>1, <3>2, VideoAssumption DEF Packets
  <2> QED
    BY <1>1, <2>1 DEF Shown
<1> QED
  BY <1>1, <1>2, <1>3 DEF TypeOK

LEMMA TypeStep == TypeOK /\ [Next]_vars => TypeOK'
<1> SUFFICES ASSUME TypeOK, [Next]_vars PROVE TypeOK'
  OBVIOUS
<1> USE DEF callerVars, queueVars, workerVars, sinkVars
<1>1. ASSUME NEW jump \in 1 .. MaxJump, NEW found \in 0 .. 1, Write(jump, found)
      PROVE  TypeOK'
  BY <1>1, TypeWrite
<1>2. CASE Finish \/ Joined \/ Destroy
  <2>1. CASE Finish
    BY <2>1 DEF TypeOK, Finish
  <2>2. CASE Joined \/ Destroy
    BY <2>2 DEF TypeOK, Joined, Destroy
  <2> QED
    BY <1>2, <2>1, <2>2
<1>3. CASE Destroyed
  BY <1>3 DEF TypeOK, Destroyed
<1>4. CASE TakePacket
  BY <1>4, TypeTake
<1>5. CASE OpenSink \/ SinkRefuses \/ WorkerStops
  <2>1. CASE OpenSink
    BY <2>1 DEF TypeOK, OpenSink, SinkOpens, SinkStaysShut
  <2>2. CASE SinkRefuses \/ WorkerStops
    BY <2>2 DEF TypeOK, SinkRefuses, WorkerStops
  <2> QED
    BY <1>5, <2>1, <2>2
<1>6. CASE SinkFinish \/ BusAnswers
  BY <1>6 DEF TypeOK, SinkFinish, ReleasesFile, SendsEndOfStream, BusAnswers
<1>7. CASE CountWritten
  <2>1. stats' \in [submitted : Nat, written : Nat, dropped : Nat, high : 0 .. Capacity]
    BY <1>7 DEF TypeOK, CountWritten
  <2> QED
    BY <1>7, <2>1, NothingHeld DEF TypeOK, CountWritten
<1>8. CASE WorkerFails
  <2>1. stats.dropped + Len(queue) \in Nat /\ Len(<< >>) = 0 /\ << >> \in Seq(Packets)
    BY QueueFacts, EmptySeq DEF TypeOK
  <2>2. stats' \in [submitted : Nat, written : Nat, dropped : Nat, high : 0 .. Capacity]
    BY <1>8, <2>1 DEF TypeOK, WorkerFails
  <2> QED
    BY <1>8, <2>1, <2>2, VideoAssumption DEF TypeOK, WorkerFails
<1>9. CASE SinkTakes
  <2> DEFINE entry == [seq |-> packet.seq, labels |-> {l.event : l \in labels}]
             Entries == [seq : Nat, labels : SUBSET Events]
  <2>1. entry \in Entries /\ video \in Seq(Entries)
    BY DEF TypeOK, Packets
  <2>2. video' = Append(video, entry)
    BY <1>9 DEF SinkTakes
  <2> HIDE DEF entry
  <2>3. video' \in Seq(Entries)
    BY <2>1, <2>2, AppendProperties
  <2> QED
    BY <1>9, <2>3 DEF TypeOK, SinkTakes
<1>10. CASE UNCHANGED vars
  BY <1>10 DEF TypeOK, vars
<1> QED
  BY <1>1, <1>2, <1>3, <1>4, <1>5, <1>6, <1>7, <1>8, <1>9, <1>10
  DEF Next, Worker, Over

\* Every reachable state is well typed: the queue never exceeds its capacity
\* (AnnotatedVideo, TypeOK).
THEOREM TypeCorrect == Spec => []TypeOK
<1> QED
  BY TypeInit, TypeStep, PTL DEF Spec

-----------------------------------------------------------------------------
(* The two threads: what the encoder thread has in hand and open where it  *)
(* is, and why a caller that has joined it sees the end of everything.     *)

WorkerHolds ==
  /\ workerPc \in {"wait", "flush", "bus"} => packet = NoPacket
  /\ workerPc \in {"open", "write", "count"} => packet.seq > 0
  /\ workerPc \in {"wait", "open", "write", "count"} => sink \in {"none", "open"}
  /\ workerPc = "open" => sink = "none"
  /\ workerPc = "bus" => sink = "finished"
  /\ sink = "none" => ~ pipeline

WorkerEnds ==
  /\ workerPc \in {"flush", "bus"} => stopRequested /\ queue = << >>
  /\ workerPc = "done" => stopRequested /\ queue = << >>
  /\ workerPc = "done" /\ ~ workerError =>
       packet = NoPacket /\ ~ pipeline /\ sink \in {"none", "finished"}
  /\ workerError => workerPc = "done"

CallerWaits ==
  /\ callerPc = "idle" /\ stopRequested => workerError
  /\ callerPc # "idle" => stopRequested
  /\ callerPc = "finished" => workerPc = "done" /\ ~ workerError
  /\ callerPc = "destroyed" => workerPc = "done" /\ ~ pipeline

\* A packet in the queue is a frame's: sequence numbers start at one.
ThreadInv ==
  /\ WorkerHolds /\ WorkerEnds /\ CallerWaits
  /\ \A i \in 1 .. Len(queue) : queue[i].seq > 0

LEMMA ThreadInit == Init => ThreadInv
<1> SUFFICES ASSUME Init PROVE ThreadInv
  OBVIOUS
<1>1. queue = << >> /\ Len(queue) = 0
  BY EmptySeq DEF Init
<1> QED
  BY <1>1 DEF Init, ThreadInv, WorkerHolds, WorkerEnds, CallerWaits

LEMMA ThreadWrite ==
  ASSUME TypeOK, ThreadInv,
         NEW jump \in 1 .. MaxJump, NEW found \in 0 .. 1, Write(jump, found)
  PROVE  ThreadInv'
<1> DEFINE p == [seq |-> sequence + jump, events |-> nextEvent .. nextEvent + found - 1]
<1>1. CASE workerError
  <2>1. /\ callerPc = "idle" /\ callerPc' = "failed"
        /\ UNCHANGED <<queue, workerError, stopRequested, workerPc, packet, sink, pipeline>>
    BY <1>1 DEF Write, queueVars, workerVars, sinkVars
  <2>2. stopRequested
    BY <1>1 DEF ThreadInv, WorkerEnds
  <2> QED
    BY <2>1, <2>2 DEF ThreadInv, WorkerHolds, WorkerEnds, CallerWaits
<1>2. CASE ~ workerError
  <2>1. /\ ~ stopRequested /\ callerPc = "idle" /\ queue' = Queued(p)
        /\ UNCHANGED <<callerPc, workerError, stopRequested, workerPc, packet, sink,
                       pipeline>>
    BY <1>2 DEF Write, workerVars, sinkVars
  <2>2. sequence \in Nat /\ nextEvent \in 1 .. MaxEvents + 1 /\ MaxEvents \in Nat
        /\ MaxJump \in Nat /\ nextEvent + found <= MaxEvents + 1
    BY VideoAssumption DEF TypeOK, Write
  <2>3. p \in Packets /\ p.seq > 0
    BY <2>2 DEF Packets, Events
  <2> HIDE DEF p
  <2>4. ASSUME NEW i \in 1 .. Len(queue') PROVE queue'[i].seq > 0
    <3>1. \A k \in 1 .. Len(queue) : queue[k].seq > 0
      BY DEF ThreadInv
    <3>2. PICK d \in 0 .. 1 :
            /\ Len(queue') = Len(queue) + 1 - d
            /\ \A k \in 1 .. Len(queue') - 1 : queue'[k] = queue[k + d]
      BY <2>1, <2>3, QueuedShift
    <3>3. /\ queue'[Len(queue')].seq > 0 /\ Len(queue') \in Nat \ {0}
          /\ Len(queue) \in Nat
      BY <2>1, <2>3, QueuedShift, QueueFacts
    <3>4. CASE i = Len(queue')
      BY <3>3, <3>4
    <3>5. CASE i # Len(queue')
      <4>1. i \in 1 .. Len(queue') - 1 /\ i + d \in 1 .. Len(queue)
        BY <2>4, <3>2, <3>3, <3>5
      <4>2. queue'[i] = queue[i + d]
        BY <3>2, <4>1
      <4> QED
        BY <3>1, <4>1, <4>2
    <3> QED
      BY <3>4, <3>5
  <2>5. (WorkerHolds /\ CallerWaits)'
    BY <2>1 DEF ThreadInv, WorkerHolds, CallerWaits
  <2>6. WorkerEnds'
    BY <2>1 DEF ThreadInv, WorkerEnds
  <2> QED
    BY <2>4, <2>5, <2>6 DEF ThreadInv
<1> QED
  BY <1>1, <1>2

LEMMA ThreadTake ==
  ASSUME TypeOK, ThreadInv, TakePacket
  PROVE  ThreadInv'
<1>1. /\ workerPc = "wait" /\ queue # << >> /\ packet' = Head(queue)
      /\ queue' = Tail(queue) /\ workerPc' = IF sink = "none" THEN "open" ELSE "write"
      /\ UNCHANGED <<callerPc, workerError, stopRequested, sink, pipeline>>
  BY DEF TakePacket, callerVars, sinkVars
<1>2. packet'.seq > 0 /\ \A i \in 1 .. Len(queue') : queue'[i].seq > 0
  <2>1. \A i \in 1 .. Len(queue) : queue[i].seq > 0
    BY DEF ThreadInv
  <2> QED
    BY <1>1, <2>1, TakenShape
<1>3. sink \in {"none", "open"} /\ ~ workerError
  BY <1>1 DEF ThreadInv, WorkerHolds, WorkerEnds
<1> QED
  BY <1>1, <1>2, <1>3 DEF ThreadInv, WorkerHolds, WorkerEnds, CallerWaits

LEMMA ThreadStep == TypeOK /\ ThreadInv /\ [Next]_vars => ThreadInv'
<1> SUFFICES ASSUME TypeOK, ThreadInv, [Next]_vars PROVE ThreadInv'
  OBVIOUS
<1> USE DEF callerVars, queueVars, workerVars, sinkVars
<1>0. /\ pipeline \in BOOLEAN /\ workerError \in BOOLEAN /\ stopRequested \in BOOLEAN
      /\ sink \in {"none", "open", "finished"}
  BY DEF TypeOK
<1>1. ASSUME NEW jump \in 1 .. MaxJump, NEW found \in 0 .. 1, Write(jump, found)
      PROVE  ThreadInv'
  BY <1>1, ThreadWrite
<1>2. CASE Finish \/ Destroy
  BY <1>0, <1>2 DEF ThreadInv, WorkerHolds, WorkerEnds, CallerWaits, Finish, Destroy
<1>3. CASE Joined \/ Destroyed
  BY <1>0, <1>3 DEF ThreadInv, WorkerHolds, WorkerEnds, CallerWaits, Joined, Destroyed
<1>4. CASE TakePacket
  BY <1>4, ThreadTake
<1>5. CASE OpenSink
  BY <1>0, <1>5 DEF ThreadInv, WorkerHolds, WorkerEnds, CallerWaits, OpenSink,
     SinkOpens, SinkStaysShut
<1>6. CASE SinkTakes \/ SinkRefuses
  BY <1>0, <1>6 DEF ThreadInv, WorkerHolds, WorkerEnds, CallerWaits, SinkTakes, SinkRefuses
<1>7. CASE CountWritten \/ WorkerStops
  BY <1>0, <1>7 DEF ThreadInv, WorkerHolds, WorkerEnds, CallerWaits, CountWritten, WorkerStops
<1>8. CASE SinkFinish
  BY <1>0, <1>8 DEF ThreadInv, WorkerHolds, WorkerEnds, CallerWaits, SinkFinish,
     ReleasesFile, SendsEndOfStream
<1>9. CASE BusAnswers
  BY <1>0, <1>9 DEF ThreadInv, WorkerHolds, WorkerEnds, CallerWaits, BusAnswers
<1>10. CASE WorkerFails
  <2>1. Len(<< >>) = 0
    BY EmptySeq
  <2> QED
    BY <1>0, <1>10, <2>1 DEF ThreadInv, WorkerHolds, WorkerEnds, CallerWaits, WorkerFails
<1>11. CASE UNCHANGED vars
  BY <1>11 DEF ThreadInv, WorkerHolds, WorkerEnds, CallerWaits, vars
<1> QED
  BY <1>1, <1>2, <1>3, <1>4, <1>5, <1>6, <1>7, <1>8, <1>9, <1>10, <1>11
  DEF Next, Worker, Over

-----------------------------------------------------------------------------
(* Where every frame is: written, in hand, queued, in this order           *)

Counts == stats.submitted = stats.written + stats.dropped + Len(queue) + Held

QueueAscends ==
  /\ \A i, k \in 1 .. Len(queue) : i < k => queue[i].seq < queue[k].seq
  /\ \A i \in 1 .. Len(queue) : packet.seq < queue[i].seq /\ queue[i].seq <= sequence
  /\ packet.seq <= sequence

VideoAscends ==
  /\ \A i, k \in 1 .. Len(video) : i < k => video[i].seq < video[k].seq
  /\ \A k \in 1 .. Len(video) :
       /\ video[k].seq <= sequence
       /\ workerPc \in {"open", "write"} => video[k].seq < packet.seq
       /\ \A i \in 1 .. Len(queue) : video[k].seq < queue[i].seq

OrderInv == Counts /\ QueueAscends /\ VideoAscends

LEMMA VideoFacts ==
  ASSUME TypeOK
  PROVE  /\ Len(video) \in Nat /\ DOMAIN video = 1 .. Len(video)
         /\ video \in Seq([seq : Nat, labels : SUBSET Events])
         /\ \A k \in 1 .. Len(video) : video[k].seq \in Nat
         /\ packet \in Packets /\ packet.seq \in Nat /\ sequence \in Nat
         /\ stats.submitted \in Nat /\ stats.written \in Nat /\ stats.dropped \in Nat
<1>1. video \in Seq([seq : Nat, labels : SUBSET Events])
  BY DEF TypeOK
<1>2. /\ Len(video) \in Nat /\ DOMAIN video = 1 .. Len(video)
      /\ \A k \in 1 .. Len(video) : video[k] \in [seq : Nat, labels : SUBSET Events]
  BY <1>1, LenProperties, ElementOfSeq
<1> QED
  BY <1>1, <1>2 DEF TypeOK, Packets

LEMMA OrderInit == Init => OrderInv
<1> SUFFICES ASSUME Init PROVE OrderInv
  OBVIOUS
<1>1. Len(queue) = 0 /\ Len(video) = 0 /\ Held = 0 /\ packet.seq = 0
  BY EmptySeq, NothingHeld DEF Init, Held
<1> QED
  BY <1>1 DEF Init, OrderInv, Counts, QueueAscends, VideoAscends

LEMMA OrderWrite ==
  ASSUME TypeOK, OrderInv,
         NEW jump \in 1 .. MaxJump, NEW found \in 0 .. 1, Write(jump, found)
  PROVE  OrderInv'
<1> DEFINE p == [seq |-> sequence + jump, events |-> nextEvent .. nextEvent + found - 1]
<1>1. CASE workerError
  BY <1>1 DEF Write, queueVars, workerVars, sinkVars, OrderInv, Counts, QueueAscends,
     VideoAscends, Held
<1>2. CASE ~ workerError
  <2>1. /\ queue' = Queued(p) /\ stats' = Counted /\ sequence' = sequence + jump
        /\ UNCHANGED <<workerPc, packet, video>>
    BY <1>2 DEF Write, workerVars
  <2>2. sequence \in Nat /\ nextEvent \in 1 .. MaxEvents + 1 /\ MaxEvents \in Nat
        /\ MaxJump \in Nat /\ nextEvent + found <= MaxEvents + 1
    BY VideoAssumption DEF TypeOK, Write
  <2>3. p \in Packets /\ p.seq = sequence' /\ p.seq > sequence
    BY <2>1, <2>2 DEF Packets, Events
  <2> HIDE DEF p
  <2>4. /\ stats'.submitted = stats.submitted + 1 /\ stats'.written = stats.written
        /\ stats'.dropped = IF Len(queue) = Capacity THEN stats.dropped + 1
                            ELSE stats.dropped
    BY <2>1 DEF Counted, TypeOK
  <2>5. Counts'
    <3>1. /\ stats.submitted = stats.written + stats.dropped + Len(queue) + Held
          /\ Held \in Nat /\ Held' = Held
      BY <2>1 DEF OrderInv, Counts, Held
    <3>2. PICK d \in 0 .. 1 : /\ d = 1 <=> Len(queue) = Capacity
                              /\ Len(queue') = Len(queue) + 1 - d
      BY <2>1, <2>3, QueuedShift
    <3>3. stats'.dropped = stats.dropped + d
      BY <2>4, <3>2, VideoFacts
    <3>4. /\ stats.submitted \in Nat /\ stats.written \in Nat /\ stats.dropped \in Nat
          /\ Len(queue) \in Nat
      BY QueueFacts, VideoFacts
    <3>5. stats'.submitted = stats'.written + stats'.dropped + Len(queue') + Held'
      <4> DEFINE n == Len(queue)   m == Len(queue')   h == Held   k == Held'
      <4>1. /\ stats.submitted = stats.written + stats.dropped + n + h
            /\ h \in Nat /\ k = h /\ m = n + 1 - d /\ n \in Nat /\ d \in 0 .. 1
        BY <3>1, <3>2, <3>4
      <4> HIDE DEF n, m, h, k
      <4>2. stats.submitted + 1 = stats.written + (stats.dropped + d) + m + k
        <5> DEFINE s == stats.submitted   w == stats.written   l == stats.dropped
        <5>1. s \in Nat /\ w \in Nat /\ l \in Nat /\ s = w + l + n + h
          BY <3>4, <4>1
        <5> HIDE DEF s, w, l
        <5>2. s + 1 = w + (l + d) + m + k
          BY <4>1, <5>1
        <5> QED
          BY <5>2 DEF s, w, l
      <4>3. stats'.submitted = stats'.written + stats'.dropped + m + k
        BY <2>4, <3>3, <4>2
      <4> QED
        BY <4>3 DEF m, k
    <3> QED
      BY <3>5 DEF Counts
  \* Each place of the new queue holds an older packet or the new frame.
  <2>6. /\ Len(queue') \in Nat \ {0} /\ queue'[Len(queue')].seq = sequence'
        /\ \E d \in 0 .. 1 :
             /\ Len(queue') = Len(queue) + 1 - d
             /\ \A i \in 1 .. Len(queue') - 1 : queue'[i] = queue[i + d]
    BY <2>1, <2>3, QueuedShift
  <2>10. PICK d \in 0 .. 1 :
           /\ Len(queue') = Len(queue) + 1 - d
           /\ \A i \in 1 .. Len(queue') - 1 : queue'[i] = queue[i + d]
    BY <2>6
  <2>7. /\ Len(queue) \in Nat /\ Capacity \in Nat \ {0} /\ sequence' > sequence
        /\ sequence' \in Nat
        /\ \A i \in 1 .. Len(queue) : queue[i].seq \in Nat
        /\ packet.seq \in Nat /\ packet' = packet /\ sequence \in Nat
    BY <2>1, <2>2, QueueFacts, VideoFacts
  <2>11. /\ d \in 0 .. 1 /\ Len(queue') = Len(queue) + 1 - d
         /\ Len(queue') \in Nat \ {0} /\ Len(queue) \in Nat
    BY <2>6, <2>7, <2>10
  <2>8. QueueAscends'
    <3>1. /\ \A i, k \in 1 .. Len(queue) : i < k => queue[i].seq < queue[k].seq
          /\ \A i \in 1 .. Len(queue) : packet.seq < queue[i].seq /\ queue[i].seq <= sequence
          /\ packet.seq <= sequence
      BY DEF OrderInv, QueueAscends
    <3>2. ASSUME NEW i \in 1 .. Len(queue')
          PROVE  packet.seq < queue'[i].seq /\ queue'[i].seq <= sequence'
      <4>1. CASE i = Len(queue')
        BY <2>6, <2>7, <3>1, <4>1
      <4>2. CASE i # Len(queue')
        <5>1. i \in 1 .. Len(queue') - 1 /\ i + d \in 1 .. Len(queue)
          BY <2>11, <4>2
        <5>2. queue'[i] = queue[i + d]
          BY <2>10, <5>1
        <5>3. /\ queue[i + d].seq \in Nat /\ packet.seq < queue[i + d].seq
              /\ queue[i + d].seq <= sequence
          BY <2>7, <3>1, <5>1
        <5> QED
          BY <2>7, <5>2, <5>3
      <4> QED
        BY <4>1, <4>2
    <3>3. ASSUME NEW i \in 1 .. Len(queue'), NEW k \in 1 .. Len(queue'), i < k
          PROVE  queue'[i].seq < queue'[k].seq
      <4>1. i \in 1 .. Len(queue') - 1 /\ i + d \in 1 .. Len(queue)
        BY <2>11, <3>3
      <4>2. CASE k = Len(queue')
        <5>1. queue'[i] = queue[i + d] /\ queue'[k].seq = sequence'
          BY <2>6, <2>10, <4>1, <4>2
        <5>2. queue[i + d].seq \in Nat /\ queue[i + d].seq <= sequence
          BY <2>7, <3>1, <4>1
        <5> QED
          BY <2>7, <5>1, <5>2
      <4>3. CASE k # Len(queue')
        <5>1. k \in 1 .. Len(queue') - 1 /\ k + d \in 1 .. Len(queue) /\ i + d < k + d
          BY <2>11, <3>3, <4>3
        <5> QED
          BY <2>10, <3>1, <4>1, <5>1
      <4> QED
        BY <4>2, <4>3
    <3>4. packet'.seq <= sequence'
      BY <2>7, <3>1
    <3> QED
      BY <2>7, <3>2, <3>3, <3>4 DEF QueueAscends
  <2>9. VideoAscends'
    <3>1. /\ \A i, k \in 1 .. Len(video) : i < k => video[i].seq < video[k].seq
          /\ \A k \in 1 .. Len(video) :
               /\ video[k].seq <= sequence
               /\ workerPc \in {"open", "write"} => video[k].seq < packet.seq
               /\ \A i \in 1 .. Len(queue) : video[k].seq < queue[i].seq
          /\ \A k \in 1 .. Len(video) : video[k].seq \in Nat
          /\ video' = video /\ workerPc' = workerPc
      BY <2>1, VideoFacts DEF OrderInv, VideoAscends
    <3>2. ASSUME NEW i \in 1 .. Len(queue'), NEW k \in 1 .. Len(video)
          PROVE  video[k].seq < queue'[i].seq
      <4>1. CASE i = Len(queue')
        <5>1. video[k].seq <= sequence /\ video[k].seq \in Nat
          BY <3>1
        <5>2. queue'[i].seq = sequence'
          BY <2>6, <4>1
        <5> QED
          BY <2>7, <5>1, <5>2
      <4>2. CASE i # Len(queue')
        <5>1. i \in 1 .. Len(queue') - 1 /\ i + d \in 1 .. Len(queue)
          BY <2>11, <4>2
        <5>2. queue'[i] = queue[i + d] /\ video[k].seq < queue[i + d].seq
          BY <2>10, <3>1, <5>1
        <5> QED
          BY <5>2
      <4> QED
        BY <4>1, <4>2
    <3> QED
      BY <2>7, <3>1, <3>2 DEF VideoAscends
  <2> QED
    BY <2>5, <2>8, <2>9 DEF OrderInv
<1> QED
  BY <1>1, <1>2

LEMMA OrderTake ==
  ASSUME TypeOK, ThreadInv, OrderInv, TakePacket
  PROVE  OrderInv'
<1>1. /\ workerPc = "wait" /\ queue # << >> /\ packet' = Head(queue) /\ queue' = Tail(queue)
      /\ UNCHANGED <<stats, sequence, video>>
  BY DEF TakePacket, callerVars
<1>2. /\ packet' = queue[1] /\ Len(queue') = Len(queue) - 1 /\ Len(queue) \in Nat \ {0}
      /\ \A i \in 1 .. Len(queue') : queue'[i] = queue[i + 1]
  BY <1>1, TakenShape
<1>3. Held = 0 /\ Held' = 1
  <2>1. packet = NoPacket /\ queue[1].seq > 0
    BY <1>1, <1>2 DEF ThreadInv, WorkerHolds
  <2> QED
    BY <1>2, <2>1, NothingHeld DEF Held
<1>4. Counts'
  BY <1>1, <1>2, <1>3, VideoFacts DEF OrderInv, Counts
<1>5. QueueAscends'
  <2>1. /\ \A i, k \in 1 .. Len(queue) : i < k => queue[i].seq < queue[k].seq
        /\ \A i \in 1 .. Len(queue) : queue[i].seq <= sequence
    BY DEF OrderInv, QueueAscends
  <2> QED
    BY <1>1, <1>2, <2>1 DEF QueueAscends
<1>6. VideoAscends'
  <2>1. /\ \A i, k \in 1 .. Len(video) : i < k => video[i].seq < video[k].seq
        /\ \A k \in 1 .. Len(video) :
             /\ video[k].seq <= sequence
             /\ \A i \in 1 .. Len(queue) : video[k].seq < queue[i].seq
    BY DEF OrderInv, VideoAscends
  <2> QED
    BY <1>1, <1>2, <2>1 DEF VideoAscends
<1> QED
  BY <1>4, <1>5, <1>6 DEF OrderInv

LEMMA OrderShow ==
  ASSUME TypeOK, OrderInv, SinkTakes
  PROVE  OrderInv'
<1> DEFINE entry == [seq |-> packet.seq, labels |-> {l.event : l \in labels}]
<1>1. /\ workerPc = "write" /\ workerPc' = "count" /\ video' = Append(video, entry)
      /\ UNCHANGED <<stats, queue, packet, sequence>>
  BY DEF SinkTakes, callerVars, queueVars
<1>2. entry.seq = packet.seq
  OBVIOUS
<1> HIDE DEF entry
<1>3. /\ Len(video') = Len(video) + 1 /\ Len(video) \in Nat
      /\ \A k \in 1 .. Len(video) : video'[k] = video[k]
      /\ video'[Len(video) + 1] = entry
  BY <1>1, VideoFacts, AppendProperties
<1>4. VideoAscends'
  <2>1. /\ \A i, k \in 1 .. Len(video) : i < k => video[i].seq < video[k].seq
        /\ \A k \in 1 .. Len(video) :
             /\ video[k].seq <= sequence /\ video[k].seq < packet.seq
             /\ \A i \in 1 .. Len(queue) : video[k].seq < queue[i].seq
        /\ \A i \in 1 .. Len(queue) : packet.seq < queue[i].seq
        /\ packet.seq <= sequence
    BY <1>1 DEF OrderInv, VideoAscends, QueueAscends
  <2> QED
    BY <1>1, <1>2, <1>3, <2>1 DEF VideoAscends
<1> QED
  BY <1>1, <1>4 DEF OrderInv, Counts, Held, QueueAscends

LEMMA OrderFail ==
  ASSUME TypeOK, OrderInv, WorkerFails
  PROVE  OrderInv'
<1>1. /\ queue' = << >> /\ workerPc' = "done"
      /\ stats' = [stats EXCEPT !.dropped = @ + Len(queue)]
      /\ UNCHANGED <<packet, sequence, video>>
  BY DEF WorkerFails, callerVars
<1>2. Len(queue') = 0 /\ Held' = Held /\ Held \in Nat
  BY <1>1, EmptySeq DEF Held
<1>3. /\ stats'.submitted = stats.submitted /\ stats'.written = stats.written
      /\ stats'.dropped = stats.dropped + Len(queue)
  BY <1>1 DEF TypeOK
<1>4. Counts'
  BY <1>2, <1>3, VideoFacts, QueueFacts DEF OrderInv, Counts
<1> QED
  BY <1>1, <1>2, <1>4 DEF OrderInv, QueueAscends, VideoAscends

LEMMA OrderCount ==
  ASSUME TypeOK, ThreadInv, OrderInv, CountWritten
  PROVE  OrderInv'
<1>1. /\ workerPc = "count" /\ workerPc' = "wait" /\ packet' = NoPacket
      /\ stats' = [stats EXCEPT !.written = @ + 1]
      /\ UNCHANGED <<queue, sequence, video>>
  BY DEF CountWritten, callerVars
<1>2. Held = 1 /\ Held' = 0 /\ packet'.seq = 0
  BY <1>1, NothingHeld DEF Held, ThreadInv, WorkerHolds
<1>3. /\ stats'.submitted = stats.submitted /\ stats'.written = stats.written + 1
      /\ stats'.dropped = stats.dropped
  BY <1>1 DEF TypeOK
<1>4. Counts'
  BY <1>1, <1>2, <1>3, VideoFacts, QueueFacts DEF OrderInv, Counts
<1>5. QueueAscends'
  BY <1>1, <1>2, VideoFacts DEF OrderInv, QueueAscends, ThreadInv
<1> QED
  BY <1>1, <1>4, <1>5 DEF OrderInv, VideoAscends

LEMMA OrderStep == TypeOK /\ ThreadInv /\ OrderInv /\ [Next]_vars => OrderInv'
<1> SUFFICES ASSUME TypeOK, ThreadInv, OrderInv, [Next]_vars PROVE OrderInv'
  OBVIOUS
<1>1. ASSUME NEW jump \in 1 .. MaxJump, NEW found \in 0 .. 1, Write(jump, found)
      PROVE  OrderInv'
  BY <1>1, OrderWrite
<1>2. CASE TakePacket
  BY <1>2, OrderTake
<1>3. CASE SinkTakes
  BY <1>3, OrderShow
<1>4. CASE WorkerFails
  BY <1>4, OrderFail
<1>5. CASE CountWritten
  BY <1>5, OrderCount
<1>6. ASSUME UNCHANGED <<queue, stats, packet, sequence, video>>,
             workerPc' \in {"open", "write"} => workerPc \in {"open", "write"}
      PROVE  OrderInv'
  BY <1>6 DEF OrderInv, Counts, Held, QueueAscends, VideoAscends
<1>7. CASE Finish \/ Joined \/ Destroy \/ Destroyed \/ UNCHANGED vars
  BY <1>6, <1>7 DEF Finish, Joined, Destroy, Destroyed, vars, callerVars, queueVars,
     workerVars
<1>8. CASE OpenSink \/ SinkRefuses \/ WorkerStops \/ SinkFinish \/ BusAnswers
  BY <1>6, <1>8 DEF OpenSink, SinkOpens, SinkStaysShut, SinkRefuses, WorkerStops,
     SinkFinish, ReleasesFile, SendsEndOfStream, BusAnswers, callerVars, queueVars
<1> QED
  BY <1>1, <1>2, <1>3, <1>4, <1>5, <1>7, <1>8 DEF Next, Worker, Over

VideoInv == TypeOK /\ ThreadInv /\ OrderInv

LEMMA VideoInvariant == Spec => []VideoInv
<1>1. Init => VideoInv
  BY TypeInit, ThreadInit, OrderInit DEF VideoInv
<1>2. VideoInv /\ [Next]_vars => VideoInv'
  BY TypeStep, ThreadStep, OrderStep DEF VideoInv
<1> QED
  BY <1>1, <1>2, PTL DEF Spec

\* Every frame taken in is written, dropped, queued or in hand, and frames are
\* written in order (AnnotatedVideo, PacketsAccounted).
THEOREM FramesAccounted == Spec => []PacketsAccounted
<1>1. VideoInv => PacketsAccounted
  <2> SUFFICES ASSUME VideoInv PROVE PacketsAccounted
    OBVIOUS
  <2>1. DOMAIN queue = 1 .. Len(queue) /\ DOMAIN video = 1 .. Len(video)
    BY QueueFacts, VideoFacts DEF VideoInv
  <2> QED
    BY <2>1 DEF VideoInv, OrderInv, Counts, VideoAscends, PacketsAccounted
<1> QED
  BY <1>1, VideoInvariant, PTL

\* A finish() that returns has written or counted every frame and completed the
\* file, and a destroyed writer holds nothing open: the safety part of the
\* contract of finish() and the destructor (AnnotatedVideo, FinishIsWhole).
THEOREM FinishKeepsAll == Spec => []FinishIsWhole
<1>1. VideoInv => FinishIsWhole
  <2> SUFFICES ASSUME VideoInv PROVE FinishIsWhole
    OBVIOUS
  <2>1. CASE callerPc = "finished"
    <3>1. /\ queue = << >> /\ packet = NoPacket /\ ~ workerError
          /\ ~ pipeline /\ sink \in {"none", "finished"}
      BY <2>1 DEF VideoInv, ThreadInv, WorkerEnds, CallerWaits
    <3>2. Held = 0 /\ Len(queue) = 0
      BY <3>1, EmptySeq DEF Held
    <3>3. stats.submitted = stats.written + stats.dropped
      BY <3>2, VideoFacts DEF VideoInv, OrderInv, Counts
    <3> QED
      BY <2>1, <3>1, <3>3 DEF FinishIsWhole
  <2>2. CASE callerPc # "finished"
    BY <2>2 DEF VideoInv, ThreadInv, CallerWaits, FinishIsWhole
  <2> QED
    BY <2>1, <2>2
<1> QED
  BY <1>1, VideoInvariant, PTL

-----------------------------------------------------------------------------
(* Where every event is, and where its label is.  An event travels with    *)
(* one packet at a time; once drawn it has a window, the frames from the   *)
(* one it was first drawn on to its last, and its label is in the encoder  *)
(* thread's list until a frame beyond that was taken.                      *)

Travelling == UNION {queue[i].events : i \in 1 .. Len(queue)}
Labelled == {l.event : l \in labels}
Drawn == UNION {video[k].labels : k \in 1 .. Len(video)}

TravelInv ==
  /\ \A i, k \in 1 .. Len(queue) : i # k => queue[i].events \cap queue[k].events = {}
  /\ Travelling \cap (packet.events \cup Labelled \cup Drawn) = {}
  /\ Travelling \cup packet.events \cup Labelled \cup Drawn \subseteq 1 .. nextEvent - 1
  /\ ~ workerError => 1 .. nextEvent - 1 \subseteq Travelling \cup packet.events \cup Drawn

\* Event e is drawn from its first frame to frame u, and its label may be dropped only
\* once a later frame was taken.
Window(e, u) ==
  /\ \E k \in 1 .. Len(video) : video[k].seq + LabelFrames = u
  /\ \A k \in 1 .. Len(video) :
       e \in video[k].labels <=> u <= video[k].seq + LabelFrames /\ video[k].seq <= u
  /\ \A l \in labels : l.event = e => l.until = u
  /\ \/ [event |-> e, until |-> u] \in labels
     \/ \E k \in 1 .. Len(video) : u < video[k].seq
     \/ u < packet.seq

\* The labels of the packet in hand: those that last, and its own.
InHand ==
  /\ packet.events \cap Drawn = {}
  /\ \A e \in packet.events : [event |-> e, until |-> packet.seq + LabelFrames] \in labels
  /\ \A l \in labels :
       /\ packet.seq <= l.until
       /\ \/ l.event \in Drawn
          \/ l.event \in packet.events /\ l.until = packet.seq + LabelFrames

LabelInv ==
  /\ workerPc \in {"open", "write"} => InHand
  /\ workerPc = "count" =>
       /\ packet.events \subseteq Drawn
       /\ \E k \in 1 .. Len(video) : video[k].seq = packet.seq
  /\ workerPc \in {"wait", "count"} => Labelled \subseteq Drawn
  /\ \A e \in Drawn : \E u \in Nat : Window(e, u)

LEMMA TravelInit == Init => TravelInv /\ LabelInv
<1> SUFFICES ASSUME Init PROVE TravelInv /\ LabelInv
  OBVIOUS
<1>1. Len(queue) = 0 /\ Len(video) = 0 /\ labels = {} /\ packet.events = {} /\ nextEvent = 1
  BY EmptySeq, NothingHeld DEF Init
<1>2. 1 .. Len(queue) = {} /\ 1 .. Len(video) = {}
  BY <1>1
<1>3. Travelling = {} /\ Labelled = {} /\ Drawn = {}
  BY <1>1, <1>2 DEF Travelling, Labelled, Drawn
<1> QED
  BY <1>1, <1>2, <1>3 DEF Init, TravelInv, LabelInv

\* The events of the queue after a frame was handed in are those before it and the
\* frame's own, whether or not the oldest frame made way.
LEMMA QueuedEvents ==
  ASSUME TypeOK, TravelInv, NEW p \in Packets, p.events \cap Travelling = {},
         queue' = Queued(p)
  PROVE  /\ Travelling' = Travelling \cup p.events
         /\ \A i, k \in 1 .. Len(queue') : i # k => queue'[i].events \cap queue'[k].events = {}
<1> DEFINE n == Len(queue)
           m == Len(queue')
<1>1. /\ n \in Nat /\ n <= Capacity /\ Capacity \in Nat \ {0}
      /\ \A i, k \in 1 .. n : i # k => queue[i].events \cap queue[k].events = {}
      /\ \A i \in 1 .. n : queue[i].events \cap p.events = {}
      /\ Travelling = UNION {queue[i].events : i \in 1 .. n}
      /\ Travelling' = UNION {queue'[i].events : i \in 1 .. m}
  BY QueueFacts DEF TravelInv, Travelling
<1>2. CASE n = Capacity
  <2>1. /\ m = n
        /\ \A i \in 1 .. n - 1 : queue'[i] = queue[i + 1]
        /\ queue'[n].events = queue[1].events \cup p.events
    BY <1>2, QueuedShape
  <2> HIDE DEF n, m
  <2>2. \A i \in 1 .. n - 1 : i + 1 \in 1 .. n /\ queue'[i].events = queue[i + 1].events
    BY <1>1, <2>1
  <2>3. 1 \in 1 .. n /\ n \in 1 .. n
    BY <1>1, <1>2
  <2>4. ASSUME NEW i \in 1 .. n, i # 1
        PROVE  i - 1 \in 1 .. n - 1 /\ queue'[i - 1].events = queue[i].events
    <3>1. i - 1 \in 1 .. n - 1 /\ (i - 1) + 1 = i
      BY <1>1, <2>4
    <3> QED
      BY <2>1, <3>1
  <2>5. \A i \in 1 .. n : i \in 1 .. n - 1 \/ i = n
    BY <1>1
  <2>6. Travelling' \subseteq Travelling \cup p.events
    BY <1>1, <2>1, <2>2, <2>3, <2>5
  <2>7. Travelling \cup p.events \subseteq Travelling'
    <3>1. ASSUME NEW e \in Travelling PROVE e \in Travelling'
      <4>1. PICK i \in 1 .. n : e \in queue[i].events
        BY <1>1
      <4>2. CASE i = 1
        BY <1>1, <2>1, <2>3, <4>1, <4>2
      <4>3. CASE i # 1
        <5>1. i - 1 \in 1 .. m /\ e \in queue'[i - 1].events
          BY <1>1, <2>1, <2>4, <4>1, <4>3
        <5> QED
          BY <1>1, <5>1
      <4> QED
        BY <4>2, <4>3
    <3>2. p.events \subseteq Travelling'
      BY <1>1, <2>1, <2>3
    <3> QED
      BY <3>1, <3>2
  <2>8. ASSUME NEW i \in 1 .. n, NEW k \in 1 .. n, i # k
        PROVE  queue'[i].events \cap queue'[k].events = {}
    <3>1. CASE i # n /\ k # n
      <4>1. i \in 1 .. n - 1 /\ k \in 1 .. n - 1 /\ i + 1 # k + 1
        BY <1>1, <2>5, <2>8, <3>1
      <4> QED
        BY <1>1, <2>2, <4>1
    <3>2. CASE i = n
      <4>1. k \in 1 .. n - 1 /\ k + 1 # 1
        BY <1>1, <2>5, <2>8, <3>2
      <4> QED
        BY <1>1, <2>1, <2>2, <2>3, <3>2, <4>1
    <3>3. CASE k = n
      <4>1. i \in 1 .. n - 1 /\ i + 1 # 1
        BY <1>1, <2>5, <2>8, <3>3
      <4> QED
        BY <1>1, <2>1, <2>2, <2>3, <3>3, <4>1
    <3> QED
      BY <3>1, <3>2, <3>3
  <2> QED
    BY <2>1, <2>6, <2>7, <2>8 DEF m
<1>3. CASE n # Capacity
  <2>1. /\ m = n + 1 /\ \A i \in 1 .. n : queue'[i] = queue[i]
        /\ queue'[n + 1] = p
    BY <1>3, QueuedShape
  <2> HIDE DEF n, m
  <2>2. /\ 1 .. m = (1 .. n) \cup {n + 1} /\ n + 1 \notin 1 .. n
    BY <1>1, <2>1
  <2>3. Travelling' = Travelling \cup p.events
    BY <1>1, <2>1, <2>2
  <2>4. \A i, k \in 1 .. m : i # k => queue'[i].events \cap queue'[k].events = {}
    BY <1>1, <2>1, <2>2
  <2> QED
    BY <2>3, <2>4 DEF m
<1> QED
  BY <1>2, <1>3

LEMMA TravelWrite ==
  ASSUME TypeOK, TravelInv,
         NEW jump \in 1 .. MaxJump, NEW found \in 0 .. 1, Write(jump, found)
  PROVE  TravelInv'
<1> DEFINE p == [seq |-> sequence + jump, events |-> nextEvent .. nextEvent + found - 1]
<1>1. /\ UNCHANGED <<packet, labels, video, workerError>>
      /\ Labelled' = Labelled /\ Drawn' = Drawn
  BY DEF Write, workerVars, Labelled, Drawn
<1>2. CASE workerError
  <2>1. Travelling' = Travelling /\ UNCHANGED <<queue, nextEvent>>
    BY <1>2 DEF Write, queueVars, Travelling
  <2> QED
    BY <1>1, <2>1 DEF TravelInv
<1>3. CASE ~ workerError
  <2>1. queue' = Queued(p) /\ nextEvent' = nextEvent + found
    BY <1>3 DEF Write
  <2>2. sequence \in Nat /\ nextEvent \in 1 .. MaxEvents + 1 /\ MaxEvents \in Nat
        /\ MaxJump \in Nat /\ nextEvent + found <= MaxEvents + 1
    BY VideoAssumption DEF TypeOK, Write
  <2>3. p \in Packets
    BY <2>2 DEF Packets, Events
  <2>4. /\ p.events \cap (1 .. nextEvent - 1) = {}
        /\ 1 .. nextEvent' - 1 = (1 .. nextEvent - 1) \cup p.events
    BY <2>1, <2>2
  <2> HIDE DEF p
  <2>5. p.events \cap Travelling = {}
    BY <2>4 DEF TravelInv
  <2>6. /\ Travelling' = Travelling \cup p.events
        /\ \A i, k \in 1 .. Len(queue') : i # k => queue'[i].events \cap queue'[k].events = {}
    BY <2>1, <2>3, <2>5, QueuedEvents
  <2> QED
    BY <1>1, <1>3, <2>4, <2>6 DEF TravelInv
<1> QED
  BY <1>2, <1>3

LEMMA TravelTake ==
  ASSUME TypeOK, ThreadInv, TravelInv, TakePacket
  PROVE  TravelInv'
<1>1. /\ workerPc = "wait" /\ queue # << >> /\ packet' = Head(queue) /\ queue' = Tail(queue)
      /\ labels' = Shown(Head(queue)) /\ UNCHANGED <<video, nextEvent, workerError>>
  BY DEF TakePacket, callerVars
<1>2. /\ packet' = queue[1] /\ Len(queue) \in Nat \ {0} /\ Len(queue') = Len(queue) - 1
      /\ \A i \in 1 .. Len(queue') : queue'[i] = queue[i + 1]
  BY <1>1, TakenShape
<1>3. packet.events = {}
  BY <1>1, NothingHeld DEF ThreadInv, WorkerHolds
<1>4. \A i \in 1 .. Len(queue') : i + 1 \in 1 .. Len(queue) /\ i + 1 # 1
  BY <1>2
<1>5. 1 \in 1 .. Len(queue)
  BY <1>2
<1>6. \A i, k \in 1 .. Len(queue) : i # k => queue[i].events \cap queue[k].events = {}
  BY DEF TravelInv
<1>7. Travelling' \subseteq Travelling /\ Travelling' \cap packet'.events = {}
  BY <1>2, <1>4, <1>5, <1>6 DEF Travelling
<1>8. Travelling \subseteq Travelling' \cup packet'.events /\ packet'.events \subseteq Travelling
  <2>1. ASSUME NEW i \in 1 .. Len(queue), i # 1
        PROVE  queue[i].events \subseteq Travelling'
    <3>1. i - 1 \in 1 .. Len(queue') /\ (i - 1) + 1 = i
      BY <1>2, <2>1
    <3>2. queue'[i - 1] = queue[i]
      BY <1>2, <3>1
    <3> QED
      BY <3>1, <3>2 DEF Travelling
  <2> QED
    BY <1>2, <1>5, <2>1 DEF Travelling
<1>9. \A i, k \in 1 .. Len(queue') : i # k => queue'[i].events \cap queue'[k].events = {}
  <2>1. \A i, k \in 1 .. Len(queue') : i # k => i + 1 # k + 1
    BY <1>2
  <2> QED
    BY <1>2, <1>4, <1>6, <2>1
<1>10. Labelled' \subseteq Labelled \cup packet'.events
  BY <1>1 DEF Labelled, Shown
<1>11. Drawn' = Drawn
  BY <1>1 DEF Drawn
<1> QED
  BY <1>1, <1>3, <1>7, <1>8, <1>9, <1>10, <1>11 DEF TravelInv

\* The frame is drawn with the labels in the list.
LEMMA DrawnGrows ==
  ASSUME TypeOK, SinkTakes
  PROVE  /\ Len(video) \in Nat /\ Len(video') = Len(video) + 1
         /\ 1 .. Len(video') = (1 .. Len(video)) \cup {Len(video) + 1}
         /\ \A k \in 1 .. Len(video) : video'[k] = video[k]
         /\ video'[Len(video) + 1].seq = packet.seq
         /\ video'[Len(video) + 1].labels = Labelled
         /\ Drawn' = Drawn \cup Labelled
<1> DEFINE entry == [seq |-> packet.seq, labels |-> {l.event : l \in labels}]
<1>1. video' = Append(video, entry)
  BY DEF SinkTakes
<1>2. entry.seq = packet.seq /\ entry.labels = Labelled
  BY DEF Labelled
<1> HIDE DEF entry
<1>3. /\ Len(video') = Len(video) + 1 /\ Len(video) \in Nat
      /\ \A k \in 1 .. Len(video) : video'[k] = video[k]
      /\ video'[Len(video) + 1] = entry
  BY <1>1, VideoFacts, AppendProperties
<1>4. 1 .. Len(video') = (1 .. Len(video)) \cup {Len(video) + 1}
  BY <1>3
<1>5. Drawn' = Drawn \cup Labelled
  BY <1>2, <1>3, <1>4 DEF Drawn
<1> QED
  BY <1>2, <1>3, <1>4, <1>5

LEMMA TravelStep == TypeOK /\ ThreadInv /\ TravelInv /\ LabelInv /\ [Next]_vars => TravelInv'
<1> SUFFICES ASSUME TypeOK, ThreadInv, TravelInv, LabelInv, [Next]_vars PROVE TravelInv'
  OBVIOUS
<1> USE DEF callerVars, queueVars, workerVars, sinkVars
<1>1. ASSUME NEW jump \in 1 .. MaxJump, NEW found \in 0 .. 1, Write(jump, found)
      PROVE  TravelInv'
  BY <1>1, TravelWrite
<1>2. CASE TakePacket
  BY <1>2, TravelTake
<1>3. CASE SinkTakes
  <2>1. /\ UNCHANGED <<queue, packet, labels, nextEvent, workerError>>
        /\ Drawn' = Drawn \cup Labelled
    BY <1>3, DrawnGrows DEF SinkTakes
  <2>2. Travelling' = Travelling /\ Labelled' = Labelled
    BY <2>1 DEF Travelling, Labelled
  <2> QED
    BY <2>1, <2>2 DEF TravelInv
<1>4. CASE CountWritten
  <2>1. /\ UNCHANGED <<queue, labels, video, nextEvent, workerError>>
        /\ packet'.events = {} /\ packet.events \subseteq Drawn
    BY <1>4, NothingHeld DEF CountWritten, LabelInv
  <2>2. Travelling' = Travelling /\ Labelled' = Labelled /\ Drawn' = Drawn
    BY <2>1 DEF Travelling, Labelled, Drawn
  <2> QED
    BY <2>1, <2>2 DEF TravelInv
<1>5. CASE WorkerFails
  <2>1. /\ UNCHANGED <<packet, labels, video, nextEvent>> /\ workerError'
        /\ 1 .. Len(queue') = {}
    BY <1>5, EmptySeq DEF WorkerFails
  <2>2. Travelling' = {} /\ Labelled' = Labelled /\ Drawn' = Drawn
    BY <2>1 DEF Travelling, Labelled, Drawn
  <2> QED
    BY <2>1, <2>2 DEF TravelInv
<1>6. CASE \/ Finish \/ Joined \/ Destroy \/ Destroyed \/ OpenSink \/ SinkRefuses
           \/ WorkerStops \/ SinkFinish \/ BusAnswers \/ UNCHANGED vars
  <2>1. UNCHANGED <<queue, packet, labels, video, nextEvent, workerError>>
    BY <1>6 DEF Finish, Joined, Destroy, Destroyed, OpenSink, SinkRefuses, WorkerStops,
       SinkFinish, BusAnswers, vars
  <2>2. Travelling' = Travelling /\ Labelled' = Labelled /\ Drawn' = Drawn
    BY <2>1 DEF Travelling, Labelled, Drawn
  <2> QED
    BY <2>1, <2>2 DEF TravelInv
<1> QED
  BY <1>1, <1>2, <1>3, <1>4, <1>5, <1>6 DEF Next, Worker, Over

LEMMA LabelFacts ==
  ASSUME TypeOK
  PROVE  /\ \A l \in labels : l.event \in Events /\ l.until \in Nat
         /\ \A l \in labels : l = [event |-> l.event, until |-> l.until]
         /\ LabelFrames \in Nat \ {0}
BY VideoAssumption DEF TypeOK

\* The label list that goes with a new packet.
LEMMA LabelTake ==
  ASSUME TypeOK, ThreadInv, TravelInv, LabelInv, TakePacket
  PROVE  LabelInv'
<1> DEFINE p == Head(queue)
           new == {[event |-> e, until |-> p.seq + LabelFrames] : e \in p.events}
<1>1. /\ workerPc = "wait" /\ queue # << >> /\ packet' = p
      /\ labels' = Shown(p) /\ UNCHANGED video /\ workerPc' \in {"open", "write"}
  BY DEF TakePacket
<1>2. packet.seq = 0 /\ packet.events = {}
  BY <1>1, NothingHeld DEF ThreadInv, WorkerHolds
<1>3. p = queue[1] /\ 1 \in 1 .. Len(queue) /\ p.seq \in Nat /\ p.events \in SUBSET Events
  BY <1>1, TakenShape, QueueFacts
<1>4. labels' = {l \in labels \cup new : p.seq <= l.until}
  BY <1>1 DEF Shown
<1>5. p.events \subseteq Travelling
  BY <1>3 DEF Travelling
<1>6. Drawn' = Drawn /\ Labelled \subseteq Drawn /\ p.events \cap Drawn = {}
  BY <1>1, <1>5 DEF LabelInv, TravelInv, Drawn
<1>7. /\ \A l \in new : l.event \in p.events /\ l.until = p.seq + LabelFrames
      /\ \A e \in p.events : [event |-> e, until |-> p.seq + LabelFrames] \in new
      /\ \A l \in new : p.seq <= l.until
  BY <1>3, LabelFacts
<1> HIDE DEF p, new
<1>8. InHand'
  <2>1. \A e \in p.events : [event |-> e, until |-> p.seq + LabelFrames] \in labels'
    BY <1>4, <1>7
  <2>2. \A l \in labels' : p.seq <= l.until
    BY <1>4
  <2>3. \A l \in labels' :
          l.event \in Drawn \/ (l.event \in p.events /\ l.until = p.seq + LabelFrames)
    BY <1>4, <1>6, <1>7 DEF Labelled
  <2> QED
    BY <1>1, <1>6, <2>1, <2>2, <2>3 DEF InHand
<1>9. ASSUME NEW e \in Drawn, NEW u \in Nat, Window(e, u)
      PROVE  Window(e, u)'
  <2>1. \A l \in labels' : l.event = e => l.until = u
    BY <1>4, <1>6, <1>7, <1>9 DEF Window
  <2>2. ~ (u < packet.seq)
    BY <1>2
  <2>3. \/ [event |-> e, until |-> u] \in labels'
        \/ \E k \in 1 .. Len(video) : u < video[k].seq
        \/ u < p.seq
    <3>1. CASE [event |-> e, until |-> u] \in labels
      <4> DEFINE l == [event |-> e, until |-> u]
      <4>1. l \in labels /\ l.until = u
        BY <3>1
      <4> HIDE DEF l
      <4>2. p.seq <= u => l \in labels'
        BY <1>4, <4>1
      <4> QED
        BY <1>3, <4>2 DEF l
    <3> QED
      BY <1>9, <2>2, <3>1 DEF Window
  <2> QED
    BY <1>1, <1>9, <2>1, <2>3 DEF Window
<1> QED
  BY <1>1, <1>6, <1>8, <1>9 DEF LabelInv

\* A frame drawn: its own events get their windows, and the others keep theirs.
LEMMA LabelShow ==
  ASSUME TypeOK, OrderInv, LabelInv, SinkTakes
  PROVE  LabelInv'
<1> DEFINE n == Len(video) + 1
<1>1. /\ workerPc = "write" /\ workerPc' = "count" /\ UNCHANGED <<packet, labels>>
  BY DEF SinkTakes
<1>2. /\ Len(video) \in Nat /\ 1 .. Len(video') = (1 .. Len(video)) \cup {n}
      /\ \A k \in 1 .. Len(video) : video'[k] = video[k]
      /\ video'[n].seq = packet.seq /\ video'[n].labels = Labelled
      /\ Drawn' = Drawn \cup Labelled
  BY DrawnGrows
<1>3. /\ packet.seq \in Nat /\ LabelFrames \in Nat \ {0}
      /\ \A k \in 1 .. Len(video) : video[k].seq \in Nat /\ video[k].seq < packet.seq
  BY <1>1, VideoFacts, LabelFacts DEF OrderInv, VideoAscends
<1>4. InHand
  BY <1>1 DEF LabelInv
<1>5. packet.events \subseteq Labelled
  <2>1. ASSUME NEW e \in packet.events PROVE e \in Labelled
    <3> DEFINE l == [event |-> e, until |-> packet.seq + LabelFrames]
    <3>1. l \in labels /\ l.event = e
      BY <1>4 DEF InHand
    <3> HIDE DEF l
    <3> QED
      BY <3>1 DEF Labelled
  <2> QED
    BY <2>1
<1> HIDE DEF n
<1>6. ASSUME NEW e \in Drawn, NEW u \in Nat, Window(e, u)
      PROVE  Window(e, u)'
  <2>1. PICK f \in 1 .. Len(video) : video[f].seq + LabelFrames = u
    BY <1>6 DEF Window
  <2>2. u <= packet.seq + LabelFrames
    BY <1>3, <2>1
  <2>3. e \in Labelled => packet.seq <= u
    BY <1>4, <1>6 DEF Labelled, InHand, Window
  <2>4. packet.seq <= u => e \in Labelled
    <3>1. ASSUME packet.seq <= u PROVE [event |-> e, until |-> u] \in labels
      <4>1. ~ (u < packet.seq) /\ \A k \in 1 .. Len(video) : ~ (u < video[k].seq)
        BY <1>3, <3>1
      <4> QED
        BY <1>6, <4>1 DEF Window
    <3> DEFINE l == [event |-> e, until |-> u]
    <3>2. l.event = e
      OBVIOUS
    <3> HIDE DEF l
    <3> QED
      BY <3>1, <3>2 DEF Labelled, l
  <2>5. \A k \in 1 .. Len(video') :
          e \in video'[k].labels <=>
            u <= video'[k].seq + LabelFrames /\ video'[k].seq <= u
    <3>1. \A k \in 1 .. Len(video) :
            e \in video[k].labels <=> u <= video[k].seq + LabelFrames /\ video[k].seq <= u
      BY <1>6 DEF Window
    <3> QED
      BY <1>2, <2>2, <2>3, <2>4, <3>1
  <2>6. \E k \in 1 .. Len(video') : video'[k].seq + LabelFrames = u
    BY <1>2, <2>1
  <2>7. \/ [event |-> e, until |-> u] \in labels'
        \/ \E k \in 1 .. Len(video') : u < video'[k].seq
        \/ u < packet'.seq
    BY <1>1, <1>2, <1>6 DEF Window
  <2> QED
    BY <1>1, <1>6, <2>5, <2>6, <2>7 DEF Window
<1>7. ASSUME NEW e \in Labelled, e \notin Drawn, NEW u \in Nat, u = packet.seq + LabelFrames
      PROVE  Window(e, u)'
  <2>1. \A l \in labels : l.event = e => l.until = u
    BY <1>4, <1>7 DEF InHand
  <2>2. e \in packet.events
    BY <1>4, <1>7 DEF InHand, Labelled
  <2>3. [event |-> e, until |-> u] \in labels
    BY <1>4, <1>7, <2>2 DEF InHand
  <2>4. packet.seq <= u /\ \A k \in 1 .. Len(video) : ~ (u <= video[k].seq + LabelFrames)
    BY <1>3, <1>7
  <2>5. \A k \in 1 .. Len(video) : e \notin video[k].labels
    BY <1>7 DEF Drawn
  <2>6. video'[n].seq + LabelFrames = u /\ n \in 1 .. Len(video')
    BY <1>2, <1>7
  <2>7. \A k \in 1 .. Len(video') :
          e \in video'[k].labels <=>
            u <= video'[k].seq + LabelFrames /\ video'[k].seq <= u
    BY <1>2, <1>7, <2>4, <2>5, <2>6
  <2> QED
    BY <1>1, <2>1, <2>3, <2>6, <2>7 DEF Window
<1>8. \A e \in Drawn' : \E u \in Nat : Window(e, u)'
  <2>1. \A e \in Drawn : \E u \in Nat : Window(e, u)
    BY DEF LabelInv
  <2>2. \A e \in Drawn : \E u \in Nat : Window(e, u)'
    BY <1>6, <2>1
  <2>3. \E u \in Nat : u = packet.seq + LabelFrames
    BY <1>3
  <2>4. \A e \in Labelled : e \notin Drawn => \E u \in Nat : Window(e, u)'
    BY <1>7, <2>3
  <2> QED
    BY <1>2, <2>2, <2>4
<1>9. Labelled' = Labelled
  BY <1>1 DEF Labelled
<1>10. \E k \in 1 .. Len(video') : video'[k].seq = packet'.seq
  BY <1>1, <1>2
<1> QED
  BY <1>1, <1>2, <1>5, <1>8, <1>9, <1>10 DEF LabelInv

LEMMA LabelCount ==
  ASSUME TypeOK, LabelInv, CountWritten
  PROVE  LabelInv'
<1>1. /\ workerPc = "count" /\ workerPc' = "wait" /\ packet' = NoPacket
      /\ UNCHANGED <<labels, video>>
  BY DEF CountWritten
<1>2. PICK k \in 1 .. Len(video) : video[k].seq = packet.seq
  BY <1>1 DEF LabelInv
<1>3. ASSUME NEW e \in Drawn, NEW u \in Nat, Window(e, u)
      PROVE  Window(e, u)'
  <2>1. \/ [event |-> e, until |-> u] \in labels
        \/ \E i \in 1 .. Len(video) : u < video[i].seq
    BY <1>2, <1>3 DEF Window
  <2> QED
    BY <1>1, <1>3, <2>1 DEF Window
<1>4. Drawn' = Drawn /\ Labelled' = Labelled
  BY <1>1 DEF Drawn, Labelled
<1> QED
  BY <1>1, <1>3, <1>4 DEF LabelInv

LEMMA LabelStep ==
  TypeOK /\ ThreadInv /\ OrderInv /\ TravelInv /\ LabelInv /\ [Next]_vars => LabelInv'
<1> SUFFICES ASSUME TypeOK, ThreadInv, OrderInv, TravelInv, LabelInv, [Next]_vars
             PROVE  LabelInv'
  OBVIOUS
<1> USE DEF callerVars, queueVars, workerVars, sinkVars
<1>1. CASE TakePacket
  BY <1>1, LabelTake
<1>2. CASE SinkTakes
  BY <1>2, LabelShow
<1>3. CASE CountWritten
  BY <1>3, LabelCount
<1>4. ASSUME UNCHANGED <<packet, labels, video>>,
             \/ UNCHANGED workerPc
             \/ workerPc = "open" /\ workerPc' = "write"
             \/ workerPc' \in {"flush", "bus", "catch", "done"}
      PROVE  LabelInv'
  <2>1. Drawn' = Drawn /\ Labelled' = Labelled
    BY <1>4 DEF Drawn, Labelled
  <2>2. \A e : \A u : Window(e, u)' <=> Window(e, u)
    BY <1>4 DEF Window
  <2>3. InHand' <=> InHand
    BY <1>4, <2>1 DEF InHand
  <2> QED
    BY <1>4, <2>1, <2>2, <2>3 DEF LabelInv
<1>5. CASE \E jump \in 1 .. MaxJump, found \in 0 .. 1 : Write(jump, found)
  <2>1. UNCHANGED <<packet, labels, video, workerPc>>
    BY <1>5 DEF Write
  <2> QED
    BY <1>4, <2>1
<1>6. CASE Finish \/ Joined \/ Destroy \/ Destroyed \/ UNCHANGED vars
  <2>1. UNCHANGED <<packet, labels, video, workerPc>>
    BY <1>6 DEF Finish, Joined, Destroy, Destroyed, vars
  <2> QED
    BY <1>4, <2>1
<1>7. CASE OpenSink \/ SinkRefuses \/ WorkerStops \/ SinkFinish \/ BusAnswers \/ WorkerFails
  <2>1. UNCHANGED <<packet, labels, video>>
    BY <1>7 DEF OpenSink, SinkRefuses, WorkerStops, SinkFinish, BusAnswers, WorkerFails
  <2>2. \/ workerPc = "open" /\ workerPc' = "write"
        \/ workerPc' \in {"flush", "bus", "catch", "done"}
    BY <1>7 DEF OpenSink, SinkOpens, SinkStaysShut, SinkRefuses, WorkerStops, SinkFinish,
       ReleasesFile, SendsEndOfStream, BusAnswers, WorkerFails
  <2> QED
    BY <1>4, <2>1, <2>2
<1> QED
  BY <1>1, <1>2, <1>3, <1>5, <1>6, <1>7 DEF Next, Worker, Over

LEMMA WindowsSuffice ==
  ASSUME TypeOK, OrderInv, TravelInv, LabelInv
  PROVE  EventsAreShown
<1>1. /\ DOMAIN video = 1 .. Len(video) /\ DOMAIN queue = 1 .. Len(queue)
      /\ Len(video) \in Nat /\ LabelFrames \in Nat
      /\ \A k \in 1 .. Len(video) : video[k].seq \in Nat
  BY VideoFacts, QueueFacts, LabelFacts
<1>2. ASSUME ~ workerError, NEW e \in 1 .. nextEvent - 1
      PROVE  \/ \E i \in DOMAIN video : e \in video[i].labels
             \/ \E i \in DOMAIN queue : e \in queue[i].events
             \/ e \in packet.events
  <2>1. e \in Travelling \cup packet.events \cup Drawn
    BY <1>2 DEF TravelInv
  <2> QED
    BY <1>1, <2>1 DEF Travelling, Drawn
<1>3. ASSUME NEW e \in Drawn
      PROVE  \E u \in Nat :
               /\ \E k \in 1 .. Len(video) : video[k].seq + LabelFrames = u
               /\ \A k \in 1 .. Len(video) :
                    e \in video[k].labels <=> u <= video[k].seq + LabelFrames /\ video[k].seq <= u
  BY <1>3 DEF LabelInv, Window
<1>4. ASSUME NEW i \in DOMAIN video, NEW e \in Events, NEW k \in DOMAIN video,
             e \in video[k].labels, e \in video[i].labels
      PROVE  video[i].seq - video[k].seq <= LabelFrames
  <2>1. e \in Drawn
    BY <1>1, <1>4 DEF Drawn
  <2>2. PICK u \in Nat : \A j \in 1 .. Len(video) :
          e \in video[j].labels => u <= video[j].seq + LabelFrames /\ video[j].seq <= u
    BY <1>3, <2>1
  <2>3. u <= video[k].seq + LabelFrames /\ video[i].seq <= u
    BY <1>1, <1>4, <2>2
  <2> QED
    BY <1>1, <1>4, <2>3
<1>5. ASSUME NEW i \in DOMAIN video, NEW e \in Events, NEW k \in DOMAIN video,
             e \in video[k].labels, k < i, e \notin video[i].labels
      PROVE  \E first \in {j \in DOMAIN video : e \in video[j].labels} :
               video[i].seq - video[first].seq > LabelFrames
  <2>1. e \in Drawn
    BY <1>1, <1>5 DEF Drawn
  <2>2. PICK u \in Nat :
          /\ \E j \in 1 .. Len(video) : video[j].seq + LabelFrames = u
          /\ \A j \in 1 .. Len(video) :
               e \in video[j].labels <=> u <= video[j].seq + LabelFrames /\ video[j].seq <= u
    BY <1>3, <2>1
  <2>3. PICK first \in 1 .. Len(video) : video[first].seq + LabelFrames = u
    BY <2>2
  <2>4. e \in video[first].labels
    BY <1>1, <2>2, <2>3
  <2>5. video[k].seq < video[i].seq
    BY <1>1, <1>5 DEF OrderInv, VideoAscends
  <2>6. u <= video[k].seq + LabelFrames
    BY <1>1, <1>5, <2>2
  <2>7. u < video[i].seq
    <3>1. ~ (u <= video[i].seq + LabelFrames /\ video[i].seq <= u)
      BY <1>1, <1>5, <2>2
    <3>2. u <= video[i].seq + LabelFrames
      BY <1>1, <2>5, <2>6
    <3> QED
      BY <1>1, <3>1, <3>2
  <2>8. video[i].seq - video[first].seq > LabelFrames
    BY <1>1, <1>5, <2>3, <2>7
  <2> QED
    BY <1>1, <2>3, <2>4, <2>8
<1> QED
  BY <1>2, <1>4, <1>5 DEF EventsAreShown

\* However often the queue overflows, no event is lost with the frames that are dropped:
\* each is drawn, or on its way, until the encoder fails; and its label is on every
\* frame of its window and on no later one (write, write_packet).
THEOREM EventsAreDrawn == Spec => []EventsAreShown
<1>1. Init => TypeOK /\ ThreadInv /\ OrderInv /\ TravelInv /\ LabelInv
  BY TypeInit, ThreadInit, OrderInit, TravelInit
<1>2. TypeOK /\ ThreadInv /\ OrderInv /\ TravelInv /\ LabelInv /\ [Next]_vars
        => (TypeOK /\ ThreadInv /\ OrderInv /\ TravelInv /\ LabelInv)'
  BY TypeStep, ThreadStep, OrderStep, TravelStep, LabelStep
<1>3. TypeOK /\ OrderInv /\ TravelInv /\ LabelInv => EventsAreShown
  BY WindowsSuffice
<1> QED
  BY <1>1, <1>2, <1>3, PTL DEF Spec
=============================================================================
