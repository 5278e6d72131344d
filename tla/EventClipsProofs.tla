--------------------------- MODULE EventClipsProofs ---------------------------
(***************************************************************************)
(* Proofs about EventClips as a pool of clips: type correctness, the bound *)
(* on pending clips, that an encoding queue as large as the total capacity *)
(* never refuses a clip, the bound on a clip's frames, that no clip mixes  *)
(* two streams, and that a clip covers the windows of its events.          *)
(***************************************************************************)
EXTENDS EventClips, SequenceTheorems, FiniteSetTheorems, TLAPS

LEMMA FunctionIsSeq ==
  ASSUME NEW S, NEW n \in Nat, NEW f \in [1 .. n -> S]
  PROVE  f \in Seq(S) /\ Len(f) = n
<1>1. f \in Seq(S)
  BY SeqDef
<1>2. DOMAIN f = 1 .. n /\ DOMAIN f = 1 .. Len(f) /\ Len(f) \in Nat
  BY <1>1, LenProperties
<1> QED
  BY <1>1, <1>2

LEMMA RemoveAtFacts ==
  ASSUME NEW S, NEW s \in Seq(S), NEW i \in 1 .. Len(s)
  PROVE  /\ RemoveAt(s, i) \in Seq(S)
         /\ Len(RemoveAt(s, i)) = Len(s) - 1
         /\ \A k \in 1 .. Len(s) - 1 :
              RemoveAt(s, i)[k] = IF k < i THEN s[k] ELSE s[k + 1]
<1> DEFINE a == SubSeq(s, 1, i - 1)
           b == SubSeq(s, i + 1, Len(s))
<1>1. Len(s) \in Nat
  BY LenProperties
<1>2. a \in Seq(S) /\ Len(a) = i - 1 /\ \A k \in 1 .. i - 1 : a[k] = s[k]
  BY <1>1, SubSeqProperties
<1>3. b \in Seq(S) /\ Len(b) = Len(s) - i /\ \A k \in 1 .. Len(s) - i : b[k] = s[i + k]
  BY <1>1, SubSeqProperties
<1>4. RemoveAt(s, i) = a \o b
  BY DEF RemoveAt
<1> HIDE DEF a, b
<1>5. /\ a \o b \in Seq(S)
      /\ Len(a \o b) = Len(a) + Len(b)
      /\ \A k \in 1 .. Len(a) + Len(b) :
           (a \o b)[k] = IF k <= Len(a) THEN a[k] ELSE b[k - Len(a)]
  BY <1>2, <1>3, ConcatProperties
<1>6. Len(RemoveAt(s, i)) = Len(s) - 1
  BY <1>1, <1>2, <1>3, <1>4, <1>5
<1>7. ASSUME NEW k \in 1 .. Len(s) - 1
      PROVE  RemoveAt(s, i)[k] = IF k < i THEN s[k] ELSE s[k + 1]
  <2>1. CASE k < i
    BY <1>1, <1>2, <1>3, <1>4, <1>5, <2>1
  <2>2. CASE ~ (k < i)
    <3>1. k - (i - 1) \in 1 .. Len(s) - i /\ i + (k - (i - 1)) = k + 1
      BY <1>1, <2>2
    <3>2. b[k - (i - 1)] = s[k + 1]
      BY <1>3, <3>1
    <3>3. (a \o b)[k] = b[k - (i - 1)]
      BY <1>1, <1>2, <1>3, <1>5, <2>2
    <3> QED
      BY <1>4, <2>2, <3>2, <3>3
  <2> QED
    BY <2>1, <2>2
<1> QED
  BY <1>4, <1>5, <1>6, <1>7

LEMMA WithPathType ==
  ASSUME NEW records \in Seq(Members), NEW path \in Paths
  PROVE  /\ WithPath(records, path) \in Seq(Records)
         /\ Len(WithPath(records, path)) = Len(records)
<1>1. Len(records) \in Nat /\ DOMAIN records = 1 .. Len(records)
  BY LenProperties
<1>2. ASSUME NEW i \in 1 .. Len(records)
      PROVE  [id |-> records[i].id, path |-> path] \in Records
  <2>1. records[i] \in Members
    BY ElementOfSeq
  <2> QED
    BY <2>1 DEF Members, Records
<1>3. WithPath(records, path) \in [1 .. Len(records) -> Records]
  BY <1>1, <1>2 DEF WithPath
<1> QED
  BY <1>1, <1>3, FunctionIsSeq

LEMMA IdsType ==
  ASSUME NEW records \in Seq(Members)
  PROVE  Ids(records) \subseteq EventIds
<1>1. DOMAIN records = 1 .. Len(records)
  BY LenProperties
<1>2. ASSUME NEW i \in 1 .. Len(records)
      PROVE  records[i].id \in EventIds
  <2>1. records[i] \in Members
    BY ElementOfSeq
  <2> QED
    BY <2>1 DEF Members
<1> QED
  BY <1>1, <1>2 DEF Ids

LEMMA WindowFacts == 0 \in Windows /\ Post \in Windows /\ Windows \subseteq Nat
BY ClipAssumption DEF Windows

LEMMA AdvancedType ==
  ASSUME active \in Seq(LiveClips), Due(active) = {}, NEW f \in Frames
  PROVE  /\ Advanced(f) \in Seq(LiveClips)
         /\ Len(Advanced(f)) = Len(active)
<1>1. Len(active) \in Nat /\ DOMAIN active = 1 .. Len(active)
  BY LenProperties
<1>2. ASSUME NEW i \in 1 .. Len(active)
      PROVE  [active[i] EXCEPT !.frames = Append(@, f), !.post = @ - 1] \in LiveClips
  <2>1. active[i] \in ClipShape /\ active[i].records # << >> /\ active[i].frames # << >>
    BY ElementOfSeq DEF LiveClips
  <2>2. active[i].post - 1 \in Windows
    <3>1. active[i].post \in Windows
      BY <2>1 DEF ClipShape
    <3>2. active[i].post # 0
      BY <1>1 DEF Due
    <3> QED
      BY <3>1, <3>2, ClipAssumption DEF Windows
  <2>3. Append(active[i].frames, f) \in Seq(Frames) /\ Append(active[i].frames, f) # << >>
    BY <2>1, AppendProperties DEF ClipShape
  <2> QED
    BY <2>1, <2>2, <2>3 DEF ClipShape, LiveClips
<1>3. Advanced(f) \in [1 .. Len(active) -> LiveClips]
  BY <1>1, <1>2 DEF Advanced
<1> QED
  BY <1>1, <1>3, FunctionIsSeq

LEMMA FlushedType ==
  ASSUME active \in Seq(LiveClips)
  PROVE  /\ Flushed \in Seq(LiveClips)
         /\ Len(Flushed) = Len(active)
<1>1. Len(active) \in Nat /\ DOMAIN active = 1 .. Len(active)
  BY LenProperties
<1>2. ASSUME NEW i \in 1 .. Len(active)
      PROVE  [active[i] EXCEPT !.post = 0, !.whole = FALSE] \in LiveClips
  <2>1. active[i] \in ClipShape /\ active[i].records # << >> /\ active[i].frames # << >>
    BY ElementOfSeq DEF LiveClips
  <2> QED
    BY <2>1, WindowFacts DEF ClipShape, LiveClips
<1>3. Flushed \in [1 .. Len(active) -> LiveClips]
  BY <1>1, <1>2 DEF Flushed
<1> QED
  BY <1>1, <1>3, FunctionIsSeq

-----------------------------------------------------------------------------
(* Type correctness, action by action.                                     *)

LEMMA TypeInit == Init => TypeOK
<1> SUFFICES ASSUME Init PROVE TypeOK
  OBVIOUS
<1>1. Due(active) = {}
  BY DEF Init, Due
<1>2. job \in ClipShape
  BY WindowFacts, EmptySeq DEF Init, NoClip, ClipShape
<1>3. stats \in Stats
  BY DEF Init, Stats
<1>4. frame \in Frames
  BY DEF Init, NoFrame, Frames
<1>5. nextId \in 1 .. MaxEvents + 1
  BY ClipAssumption DEF Init
<1>6. /\ completedPaths \subseteq Records /\ files \subseteq EventIds
      /\ encodingIds \subseteq EventIds
      /\ sequence \in Nat /\ generation \in Nat
      /\ tracking \in BOOLEAN /\ workerError \in BOOLEAN
      /\ stopRequested \in BOOLEAN /\ resubmitted \in BOOLEAN
  BY DEF Init
<1>7. /\ prebuffer \in Seq(Frames) /\ Len(prebuffer) <= Pre
      /\ active \in Seq(LiveClips) /\ queue \in Seq(LiveClips)
      /\ pending \in Seq(EventIds)
      /\ returning \in Seq(Records) /\ completed \in Seq(Records)
      /\ published \in Seq(Records)
  BY ClipAssumption, EmptySeq DEF Init
<1>9. encodingJobs \in Int
  BY DEF Init
<1>8. callerPc = "idle" /\ after = "none" /\ workerPc = "wait"
  BY DEF Init
<1> QED
  BY <1>1, <1>2, <1>3, <1>4, <1>5, <1>6, <1>7, <1>8, <1>9 DEF TypeOK

LEMMA TypeProcess ==
  ASSUME TypeOK, NEW batch \in Batches, NEW skipped \in 0 .. 1,
         NEW gen \in generation .. generation + 1, Process(batch, skipped, gen)
  PROVE  TypeOK'
<1> USE DEF callerVars, sharedVars, workerVars, programVars
<1>1. CASE workerError
  BY <1>1 DEF TypeOK, Process, Due
<1>2. CASE ~ workerError
  <2> DEFINE f == [n |-> sequence + skipped + 1, gen |-> gen]
  <2>1. f \in Frames
    BY DEF TypeOK, Frames
  <2>2. batch \in Seq(EventIds)
    <3>1. \A j \in DOMAIN batch : batch[j] \in EventIds
      BY DEF Process
    <3>2. CASE \E k \in 0 .. MaxPerFrame : batch = [j \in 1 .. k |-> nextId + j - 1]
      <4>1. PICK k \in 0 .. MaxPerFrame : batch = [j \in 1 .. k |-> nextId + j - 1]
        BY <3>2
      <4>2. batch \in [1 .. k -> EventIds] /\ k \in Nat
        BY <3>1, <4>1, ClipAssumption
      <4> QED
        BY <4>2, FunctionIsSeq
    <3>3. CASE \E id \in 1 .. nextId - 1 : batch = <<id>>
      BY <3>1, <3>3
    <3> QED
      BY <3>2, <3>3 DEF Batches
  <2>3. nextId' \in 1 .. MaxEvents + 1
    <3>1. nextId' = IF batch # << >> /\ Last(batch) >= nextId
                    THEN Last(batch) + 1 ELSE nextId
      BY <1>2 DEF Process
    <3>2. ASSUME batch # << >>
          PROVE  Last(batch) \in 1 .. MaxEvents
      <4>1. Len(batch) \in 1 .. Len(batch)
        BY <2>2, <3>2, EmptySeq, LenProperties
      <4>2. batch[Len(batch)] \in EventIds
        BY <2>2, <4>1, ElementOfSeq
      <4> QED
        BY <4>2 DEF Last, EventIds
    <3>3. nextId \in 1 .. MaxEvents + 1
      BY DEF TypeOK
    <3> QED
      BY <3>1, <3>2, <3>3, ClipAssumption
  <2>4. active' \in Seq(LiveClips)
    BY <1>2, <2>1, AdvancedType, FlushedType DEF Process, TypeOK
  <2> QED
    BY <1>2, <2>1, <2>2, <2>3, <2>4 DEF TypeOK, Process, Due
<1> QED
  BY <1>1, <1>2 DEF TypeOK

LEMMA TypeSubmit ==
  ASSUME TypeOK, SubmitClip
  PROVE  TypeOK'
<1> USE DEF callerVars, sharedVars, workerVars, programVars
<1>1. PICK i \in Due(active) :
        /\ active' = RemoveAt(active, i)
        /\ IF workerError
           THEN /\ callerPc' = "failed"
                /\ UNCHANGED <<returning, queue, encodingIds, encodingJobs, stats>>
           ELSE IF Len(queue) = QueueCapacity
           THEN /\ Refuse(active[i].records)
                /\ UNCHANGED <<callerPc, queue, encodingIds, encodingJobs>>
           ELSE /\ queue' = Append(queue, active[i])
                /\ encodingIds' = encodingIds \cup Ids(active[i].records)
                /\ encodingJobs' = encodingJobs + 1
                /\ UNCHANGED <<callerPc, returning, stats>>
  BY DEF SubmitClip
<1>2. i \in 1 .. Len(active) /\ active[i] \in LiveClips
  BY DEF Due, TypeOK
<1>3. active' \in Seq(LiveClips)
  BY <1>1, <1>2, RemoveAtFacts DEF TypeOK
<1>4. active[i].records \in Seq(Members)
  BY <1>2 DEF ClipShape, LiveClips
<1>5. Ids(active[i].records) \subseteq EventIds
  BY <1>4, IdsType
<1>6. WithPath(active[i].records, 0) \in Seq(Records)
  BY <1>4, WithPathType, ClipAssumption DEF Paths
<1>u. UNCHANGED <<prebuffer, after, pending, frame, tracking, completedPaths,
                  completed, workerError, stopRequested, workerPc, job, files,
                  sequence, generation, nextId, published, resubmitted>>
      /\ callerPc = "submit"
  BY DEF SubmitClip
<1>7. CASE workerError
  BY <1>1, <1>3, <1>7, <1>u DEF TypeOK
<1>8. CASE ~ workerError /\ Len(queue) = QueueCapacity
  <2>1. returning' \in Seq(Records)
    <3>1. returning' = returning \o WithPath(active[i].records, 0)
      BY <1>1, <1>8 DEF Refuse
    <3>2. returning \in Seq(Records)
      BY DEF TypeOK
    <3> QED
      BY <1>6, <3>1, <3>2, ConcatProperties
  <2>2. stats' \in Stats
    <3>1. stats' = [stats EXCEPT !.queueFull = @ + Len(active[i].records)]
      BY <1>1, <1>8 DEF Refuse
    <3>2. Len(active[i].records) \in Nat
      BY <1>4
    <3>3. stats \in Stats
      BY DEF TypeOK
    <3>4. stats.queueFull + Len(active[i].records) \in Nat
      <4>1. stats.queueFull \in Nat
        BY <3>3 DEF Stats
      <4> QED
        BY <3>2, <4>1
    <3> QED
      BY <3>1, <3>3, <3>4 DEF Stats
  <2> QED
    BY <1>1, <1>3, <1>8, <1>u, <2>1, <2>2 DEF TypeOK
<1>9. CASE ~ workerError /\ Len(queue) # QueueCapacity
  <2>1. /\ queue' = Append(queue, active[i])
        /\ encodingIds' = encodingIds \cup Ids(active[i].records)
        /\ encodingJobs' = encodingJobs + 1
        /\ UNCHANGED <<callerPc, returning, stats>>
    BY <1>1, <1>9
  <2>2. queue' \in Seq(LiveClips)
    BY <2>1, <1>2, AppendProperties DEF TypeOK
  <2> QED
    BY <1>3, <1>5, <1>u, <2>1, <2>2 DEF TypeOK
<1> QED
  BY <1>7, <1>8, <1>9

LEMMA StatsPlus ==
  ASSUME stats \in Stats, NEW n \in Nat
  PROVE  /\ [stats EXCEPT !.reused = @ + n] \in Stats
         /\ [stats EXCEPT !.shared = @ + n] \in Stats
         /\ [stats EXCEPT !.capacity = @ + n] \in Stats
         /\ [stats EXCEPT !.workerQueue = @ + n] \in Stats
         /\ [stats EXCEPT !.events = @ + n, !.clips = @ + 1] \in Stats
<1>1. /\ stats.reused + n \in Nat /\ stats.shared + n \in Nat
      /\ stats.capacity + n \in Nat /\ stats.workerQueue + n \in Nat
      /\ stats.events + n \in Nat /\ stats.clips + 1 \in Nat
  BY DEF Stats
<1> QED
  BY <1>1 DEF Stats

LEMMA ReturnToType ==
  ASSUME TypeOK, NEW pc \in {"idle", "closed"}, ReturnTo(pc)
  PROVE  /\ callerPc' \in {pc, "failed"}
         /\ returning' \in Seq(Records) /\ completed' \in Seq(Records)
         /\ published' \in Seq(Records)
<1>1. returning \in Seq(Records) /\ completed \in Seq(Records) /\ published \in Seq(Records)
  BY DEF TypeOK
<1>2. published \o returning \in Seq(Records)
  BY <1>1, ConcatProperties
<1>3. published \o returning \o completed \in Seq(Records)
  BY <1>1, <1>2, ConcatProperties
<1>4. << >> \in Seq(Records)
  BY EmptySeq
<1> QED
  BY <1>1, <1>3, <1>4 DEF ReturnTo

LEMMA TypeEndOfCall ==
  ASSUME TypeOK, EndProcess \/ EndReset \/ Joined
  PROVE  TypeOK'
<1> USE DEF workerVars
<1>1. CASE EndProcess
  <2>1. Buffered \in Seq(Frames) /\ Len(Buffered) <= Pre
    <3>1. prebuffer \in Seq(Frames) /\ Len(prebuffer) <= Pre /\ frame \in Frames
      BY DEF TypeOK
    <3>2. /\ Append(prebuffer, frame) \in Seq(Frames)
          /\ Len(Append(prebuffer, frame)) = Len(prebuffer) + 1
          /\ Append(prebuffer, frame) # << >>
      BY <3>1, AppendProperties
    <3>3. /\ Tail(Append(prebuffer, frame)) \in Seq(Frames)
          /\ Len(Tail(Append(prebuffer, frame))) = Len(prebuffer)
      BY <3>2, <3>1, HeadTailProperties, LenProperties
    <3> QED
      BY <3>1, <3>2, <3>3, LenProperties, ClipAssumption DEF Buffered
  <2>2. /\ callerPc' \in {"idle", "failed"}
        /\ returning' \in Seq(Records) /\ completed' \in Seq(Records)
        /\ published' \in Seq(Records)
    BY <1>1, ReturnToType DEF EndProcess
  <2>3. prebuffer' \in Seq(Frames) /\ Len(prebuffer') <= Pre
    BY <1>1, <2>1 DEF EndProcess
  <2>4. Due(active') = {}
    BY <1>1 DEF EndProcess, TypeOK, Due
  <2> QED
    BY <1>1, <2>2, <2>3, <2>4 DEF EndProcess, TypeOK
<1>2. CASE EndReset
  <2>2. /\ callerPc' \in {"idle", "failed"}
        /\ returning' \in Seq(Records) /\ completed' \in Seq(Records)
        /\ published' \in Seq(Records)
    BY <1>2, ReturnToType DEF EndReset
  <2>3. prebuffer' \in Seq(Frames) /\ Len(prebuffer') <= Pre
    BY <1>2, EmptySeq, ClipAssumption DEF EndReset
  <2>4. Due(active') = {}
    BY <1>2 DEF EndReset, Submitted, Due
  <2> QED
    BY <1>2, <2>2, <2>3, <2>4 DEF EndReset, TypeOK
<1>3. CASE Joined
  <2>2. /\ callerPc' \in {"closed", "failed"}
        /\ returning' \in Seq(Records) /\ completed' \in Seq(Records)
        /\ published' \in Seq(Records)
    BY <1>3, ReturnToType DEF Joined
  <2> QED
    BY <1>3, <2>2 DEF Joined, TypeOK
<1> QED
  BY <1>1, <1>2, <1>3

LEMMA TypeCallerMoves ==
  ASSUME TypeOK, Rejoin \/ ToRecords \/ RequestStop \/ Destroy \/ Destroyed
  PROVE  TypeOK'
<1> USE DEF callerVars, sharedVars, workerVars, programVars
<1>1. CASE Rejoin
  <2>1. returning' \in Seq(Records) /\ completed' \in Seq(Records)
    <3>1. returning \in Seq(Records) /\ completed \in Seq(Records)
      BY DEF TypeOK
    <3>2. returning \o completed \in Seq(Records) /\ << >> \in Seq(Records)
      BY <3>1, ConcatProperties, EmptySeq
    <3> QED
      BY <1>1, <3>1, <3>2 DEF Rejoin
  <2>2. callerPc' \in {"records", "failed"} /\ Due(active') = {}
    BY <1>1 DEF Rejoin, Submitted, Due
  <2>3. prebuffer' \in Seq(Frames) /\ Len(prebuffer') <= Pre
    BY <1>1, EmptySeq, ClipAssumption DEF Rejoin
  <2> QED
    BY <1>1, <2>1, <2>2, <2>3 DEF Rejoin, TypeOK
<1>2. CASE ToRecords
  BY <1>2 DEF ToRecords, Submitted, TypeOK, Due
<1>3. CASE RequestStop
  <2>1. prebuffer' \in Seq(Frames) /\ Len(prebuffer') <= Pre
    BY <1>3, EmptySeq, ClipAssumption DEF RequestStop
  <2> QED
    BY <1>3, <2>1 DEF RequestStop, Submitted, TypeOK, Due
<1>4. CASE Destroy
  BY <1>4 DEF Destroy, TypeOK
<1>5. CASE Destroyed
  BY <1>5 DEF Destroyed, TypeOK
<1> QED
  BY <1>1, <1>2, <1>3, <1>4, <1>5

LEMMA TypeFlush ==
  ASSUME TypeOK, Reset \/ Finish
  PROVE  TypeOK'
<1> USE DEF callerVars, sharedVars, workerVars, programVars
<1>1. active' \in Seq(LiveClips)
  BY FlushedType DEF TypeOK, Reset, Finish
<1>2. returning' \in Seq(Records) /\ completed' \in Seq(Records)
  BY EmptySeq DEF Reset, Finish, TypeOK
<1>3. callerPc' = "submit" /\ after' \in {"reset", "finish"} /\ generation' \in Nat
  BY DEF Reset, Finish, TypeOK
<1>4. UNCHANGED <<prebuffer, pending, frame, tracking, queue, encodingIds,
                  encodingJobs, completedPaths, workerError, stopRequested,
                  stats, workerPc, job, files, sequence, nextId, published,
                  resubmitted>>
  BY DEF Reset, Finish
<1> QED
  BY <1>1, <1>2, <1>3, <1>4 DEF TypeOK

LEMMA TypeLookUp ==
  ASSUME TypeOK, LookUpCompleted
  PROVE  TypeOK'
<1> USE DEF workerVars, programVars
<1> DEFINE known == {p \in completedPaths : p.id = Head(pending)}
<1>1. /\ callerPc = "records" /\ pending # << >> /\ Due(active) = {}
      /\ pending \in Seq(EventIds) /\ returning \in Seq(Records) /\ stats \in Stats
  BY DEF LookUpCompleted, TypeOK
<1>2. UNCHANGED <<prebuffer, active, after, frame, tracking, queue,
                  encodingIds, encodingJobs, completedPaths, completed,
                  workerError, stopRequested, workerPc, job, files, sequence,
                  generation, nextId, published, resubmitted>>
  BY DEF LookUpCompleted
<1>3. Due(active') = {}
  BY <1>1, <1>2 DEF Due
<1>4. CASE known = {}
  <2>1. callerPc' = "admit" /\ UNCHANGED <<returning, pending, stats>>
    BY <1>4 DEF LookUpCompleted
  <2> QED
    BY <1>1, <1>2, <1>3, <2>1 DEF TypeOK
<1>5. CASE known # {}
  <2>1. PICK p \in known : returning' = Append(returning, p)
    BY <1>5 DEF LookUpCompleted
  <2>2. p \in Records
    BY DEF TypeOK
  <2>3. returning' \in Seq(Records)
    BY <1>1, <2>1, <2>2, AppendProperties
  <2>4. /\ pending' = Tail(pending)
        /\ stats' = [stats EXCEPT !.reused = @ + 1]
        /\ UNCHANGED callerPc
    BY <1>5 DEF LookUpCompleted
  <2>5. pending' \in Seq(EventIds)
    BY <1>1, <2>4, HeadTailProperties
  <2>6. stats' \in Stats
    BY <1>1, <2>4, StatsPlus
  <2> QED
    BY <1>1, <1>2, <1>3, <2>3, <2>4, <2>5, <2>6 DEF TypeOK
<1> QED
  BY <1>4, <1>5

LEMMA MemberType ==
  ASSUME TypeOK, NEW id \in EventIds
  PROVE  Member(id) \in Members
<1>1. frame \in Frames /\ prebuffer \in Seq(Frames)
  BY DEF TypeOK
<1>2. ASSUME prebuffer # << >>
      PROVE  Head(prebuffer) \in Frames
  BY <1>1, <1>2, HeadTailProperties
<1> QED
  BY <1>1, <1>2 DEF Member, Members, Frames

LEMMA JoinClipType ==
  ASSUME TypeOK, NEW id \in EventIds, JoinClip(id)
  PROVE  /\ active' \in Seq(LiveClips)
         /\ Len(active') = Len(active)
         /\ Due(active) = {} => Due(active') = {}
<1>1. active \in Seq(LiveClips) /\ DOMAIN active = 1 .. Len(active)
  BY LenProperties DEF TypeOK
<1>2. PICK i \in DOMAIN active :
        active' = [active EXCEPT ![i].records = Append(@, Member(id)),
                                 ![i].post = Post]
  BY DEF JoinClip
<1> DEFINE grown == [active[i] EXCEPT !.records = Append(@, Member(id)), !.post = Post]
<1>3. grown \in LiveClips
  <2>1. active[i] \in ClipShape /\ active[i].frames # << >>
    BY <1>1, ElementOfSeq DEF LiveClips
  <2>2. /\ Append(active[i].records, Member(id)) \in Seq(Members)
        /\ Append(active[i].records, Member(id)) # << >>
    BY <2>1, MemberType, AppendProperties DEF ClipShape
  <2> QED
    BY <2>1, <2>2, WindowFacts DEF ClipShape, LiveClips
<1>4. active' = [active EXCEPT ![i] = grown]
  BY <1>1, <1>2, <1>3
<1>5. grown.post = Post
  <2>1. active[i] \in ClipShape
    BY <1>1, ElementOfSeq DEF LiveClips
  <2> QED
    BY <2>1 DEF ClipShape
<1>8. ASSUME Due(active) = {}
      PROVE  Post # 0
  <2>1. active[i] \in ClipShape
    BY <1>1, ElementOfSeq DEF LiveClips
  <2>2. active[i].post # 0 /\ active[i].post \in 0 .. Post
    BY <1>8, <2>1 DEF Due, ClipShape, Windows
  <2> QED
    BY <2>2, ClipAssumption
<1> HIDE DEF grown
<1>6. /\ active' \in Seq(LiveClips)
      /\ Len(active') = Len(active)
      /\ \A j \in 1 .. Len(active) : active'[j] = IF j = i THEN grown ELSE active[j]
  BY <1>1, <1>3, <1>4, ExceptSeq
<1>7. DOMAIN active' = 1 .. Len(active)
  BY <1>6, LenProperties
<1> QED
  BY <1>1, <1>5, <1>6, <1>7, <1>8 DEF Due

LEMMA NewClipType ==
  ASSUME TypeOK, NEW id \in EventIds
  PROVE  NewClip(id) \in LiveClips
<1>1. Member(id) \in Members
  BY MemberType
<1>2. <<Member(id)>> \in Seq(Members) /\ <<Member(id)>> # << >>
  BY <1>1
<1>3. Append(prebuffer, frame) \in Seq(Frames) /\ Append(prebuffer, frame) # << >>
  <2>1. prebuffer \in Seq(Frames) /\ frame \in Frames
    BY DEF TypeOK
  <2> QED
    BY <2>1, AppendProperties
<1> QED
  BY <1>2, <1>3, WindowFacts DEF NewClip, ClipShape, LiveClips

LEMMA TypeAdmit ==
  ASSUME TypeOK, encodingJobs >= 0, Admit
  PROVE  TypeOK'
<1> USE DEF workerVars, programVars
<1>1. PICK id \in EventIds : Admitting(id)
  BY DEF Admit, AdmitDuplicate, AdmitShared, AdmitRefused, AdmitOnDisk, AdmitNew
<1>2. /\ Due(active) = {} /\ pending \in Seq(EventIds) /\ pending # << >>
      /\ returning \in Seq(Records) /\ stats \in Stats /\ active \in Seq(LiveClips)
  BY <1>1 DEF Admitting, TypeOK
<1>3. pending' \in Seq(EventIds) /\ after' = "records"
  BY <1>1, <1>2, HeadTailProperties DEF Admitting
<1>4. UNCHANGED <<prebuffer, frame, tracking, queue, encodingIds, encodingJobs,
                  completed, workerError, stopRequested, workerPc, job, files,
                  sequence, generation, nextId, published, resubmitted>>
  BY <1>1 DEF Admitting
<1> DEFINE
      Goal == /\ active' \in Seq(LiveClips)
              /\ callerPc' \in {"records", "submit"}
              /\ callerPc' = "records" => Due(active') = {}
              /\ returning' \in Seq(Records)
              /\ stats' \in Stats
              /\ completedPaths' \subseteq Records
<1>5. Goal => TypeOK'
  BY <1>2, <1>3, <1>4 DEF TypeOK
<1>6. completedPaths \subseteq Records
  BY DEF TypeOK
<1>7. CASE AdmitDuplicate
  <2>1. stats' \in Stats
    BY <1>2, <1>7, StatsPlus DEF AdmitDuplicate
  <2> QED
    BY <1>2, <1>5, <1>6, <1>7, <2>1 DEF AdmitDuplicate, Due
<1>8. CASE AdmitShared
  <2>1. PICK e \in EventIds : JoinClip(e)
    BY <1>8 DEF AdmitShared
  <2>2. active' \in Seq(LiveClips) /\ Due(active') = {}
    BY <1>2, <2>1, JoinClipType
  <2>3. stats' \in Stats
    BY <1>2, <1>8, StatsPlus DEF AdmitShared
  <2> QED
    BY <1>2, <1>5, <1>6, <1>8, <2>2, <2>3 DEF AdmitShared
<1>9. CASE AdmitRefused
  <2>1. PICK e \in EventIds : returning' = Append(returning, [id |-> e, path |-> 0])
    BY <1>9 DEF AdmitRefused
  <2>2. [id |-> e, path |-> 0] \in Records
    BY ClipAssumption DEF Records, Paths
  <2>3. returning' \in Seq(Records)
    BY <1>2, <2>1, <2>2, AppendProperties
  <2>4. stats' \in Stats
    BY <1>2, <1>9, StatsPlus DEF AdmitRefused
  <2> QED
    BY <1>2, <1>5, <1>6, <1>9, <2>3, <2>4 DEF AdmitRefused, Due
<1>10. CASE AdmitOnDisk
  <2>1. PICK e \in EventIds :
          /\ returning' = Append(returning, [id |-> e, path |-> e])
          /\ completedPaths' = completedPaths \cup {[id |-> e, path |-> e]}
    BY <1>10 DEF AdmitOnDisk
  <2>2. [id |-> e, path |-> e] \in Records
    BY ClipAssumption DEF Records, Paths, EventIds
  <2>3. returning' \in Seq(Records)
    BY <1>2, <2>1, <2>2, AppendProperties
  <2>4. stats' \in Stats
    BY <1>2, <1>10, StatsPlus DEF AdmitOnDisk
  <2> QED
    BY <1>2, <1>5, <1>6, <1>10, <2>1, <2>2, <2>3, <2>4 DEF AdmitOnDisk, Due
<1>11. CASE AdmitNew
  <2> DEFINE depth == Len(active) + encodingJobs + 1
             high == IF depth > stats.pendingHigh THEN depth ELSE stats.pendingHigh
  <2>1. PICK e \in EventIds : active' = Append(active, NewClip(e))
    BY <1>11 DEF AdmitNew
  <2>2. NewClip(e) \in LiveClips /\ NewClip(e).post = Post
    BY NewClipType DEF NewClip
  <2>3. /\ active' \in Seq(LiveClips)
        /\ Len(active') = Len(active) + 1
        /\ \A j \in 1 .. Len(active) : active'[j] = active[j]
        /\ active'[Len(active) + 1] = NewClip(e)
    BY <1>2, <2>1, <2>2, AppendProperties
  <2>4. ASSUME Post # 0
        PROVE  Due(active') = {}
    BY <1>2, <2>2, <2>3, <2>4, LenProperties DEF Due
  <2>5. stats' \in Stats
    <3>1. stats.started + 1 \in Nat /\ stats.pendingHigh \in Nat
      BY <1>2 DEF Stats
    <3>2. depth \in Nat
      BY <1>2, LenProperties DEF TypeOK
    <3>3. high \in Nat
      BY <3>1, <3>2
    <3>4. stats' = [stats EXCEPT !.started = @ + 1, !.pendingHigh = high]
      BY <1>11 DEF AdmitNew
    <3> HIDE DEF high
    <3> QED
      BY <1>2, <3>1, <3>3, <3>4 DEF Stats
  <2>6. /\ callerPc' = IF Post = 0 THEN "submit" ELSE "records"
        /\ UNCHANGED <<returning, completedPaths>>
    BY <1>11 DEF AdmitNew
  <2> HIDE DEF high, depth
  <2> QED
    BY <1>2, <1>5, <1>6, <2>3, <2>4, <2>5, <2>6
<1> QED
  BY <1>7, <1>8, <1>9, <1>10, <1>11 DEF Admit

LEMMA FiniteInterval ==
  ASSUME NEW n \in Nat
  PROVE  IsFiniteSet(1 .. n)
BY FS_Interval

\* The events of a list of clips, one by one.
Slots(clips) == UNION {{i} \X DOMAIN clips[i].records : i \in DOMAIN clips}

LEMMA SlotsFinite ==
  ASSUME NEW clips \in Seq(LiveClips)
  PROVE  IsFiniteSet(Slots(clips))
<1> DEFINE slots == [i \in 1 .. Len(clips) |-> {i} \X DOMAIN clips[i].records]
           all == {slots[i] : i \in 1 .. Len(clips)}
<1>1. Len(clips) \in Nat /\ DOMAIN clips = 1 .. Len(clips)
  BY LenProperties
<1>2. IsFiniteSet(1 .. Len(clips))
  BY <1>1, FiniteInterval
<1>3. slots \in Surjection(1 .. Len(clips), all)
  BY DEF Surjection
<1>4. IsFiniteSet(all)
  <2> HIDE DEF slots, all
  <2> QED
    BY <1>2, <1>3, FS_Surjection
<1>5. ASSUME NEW i \in 1 .. Len(clips)
      PROVE  IsFiniteSet(slots[i])
  <2>1. clips[i].records \in Seq(Members)
    BY ElementOfSeq DEF LiveClips, ClipShape
  <2>2. DOMAIN clips[i].records = 1 .. Len(clips[i].records) /\ Len(clips[i].records) \in Nat
    BY <2>1, LenProperties
  <2>3. IsFiniteSet(DOMAIN clips[i].records)
    BY <2>2, FiniteInterval
  <2>4. IsFiniteSet({i})
    BY FS_Singleton
  <2>5. IsFiniteSet({i} \X DOMAIN clips[i].records)
    BY <2>3, <2>4, FS_Product
  <2> QED
    BY <2>5
<1>6. IsFiniteSet(UNION all)
  <2> HIDE DEF slots
  <2> QED
    BY <1>4, <1>5, FS_UNION
<1>7. UNION all = UNION {{i} \X DOMAIN clips[i].records : i \in DOMAIN clips}
  BY <1>1
<1> QED
  BY <1>6, <1>7 DEF Slots

LEMMA EventsInType ==
  ASSUME NEW clips \in Seq(LiveClips)
  PROVE  EventsIn(clips) \in Nat
BY SlotsFinite, FS_CardinalityType DEF EventsIn, Slots

LEMMA TypeWorker ==
  ASSUME TypeOK, Worker
  PROVE  TypeOK'
<1> USE DEF callerVars, sharedVars, programVars
<1>1. CASE TakeJob
  <2>1. queue \in Seq(LiveClips) /\ queue # << >>
    BY <1>1 DEF TakeJob, TypeOK
  <2>2. /\ Head(queue) \in LiveClips /\ Head(queue) \in ClipShape
        /\ Tail(queue) \in Seq(LiveClips)
    BY <2>1, HeadTailProperties DEF LiveClips
  <2>3. Due(active') = Due(active)
    BY <1>1 DEF TakeJob, Due
  <2> QED
    BY <1>1, <2>2, <2>3 DEF TakeJob, TypeOK
<1>2. CASE WorkerStops
  BY <1>2 DEF WorkerStops, TypeOK, Due
<1>3. CASE RemoveFinal
  BY <1>3 DEF RemoveFinal, TypeOK, Due
<1>4. CASE RenameToFinal
  <2>1. job \in ClipShape /\ job.records # << >>
    BY <1>4 DEF RenameToFinal, TypeOK, LiveClips
  <2>2. Head(job.records) \in Members
    BY <2>1, HeadTailProperties DEF ClipShape
  <2>3. FinalPath \in EventIds
    BY <2>2 DEF FinalPath, Members
  <2> QED
    BY <1>4, <2>3 DEF RenameToFinal, TypeOK, Due
<1>5. CASE ReportJob
  <2> DEFINE done == WithPath(job.records, FinalPath)
  <2>1. job \in ClipShape /\ job.records # << >>
    BY <1>5 DEF ReportJob, TypeOK, LiveClips
  <2>2. Head(job.records) \in Members /\ job.records \in Seq(Members)
    BY <2>1, HeadTailProperties DEF ClipShape
  <2>3. FinalPath \in Paths
    BY <2>2, ClipAssumption DEF FinalPath, Members, Paths, EventIds
  <2>4. done \in Seq(Records) /\ Len(done) \in Nat
    BY <2>2, <2>3, WithPathType, LenProperties
  <2> HIDE DEF done
  <2>5. completed' \in Seq(Records)
    BY <1>5, <2>4, ConcatProperties DEF ReportJob, TypeOK, done
  <2>6. \A k \in DOMAIN done : done[k] \in Records
    BY <2>4, ElementOfSeq, LenProperties
  <2>7. completedPaths' \subseteq Records
    BY <1>5, <2>6 DEF ReportJob, TypeOK, done
  <2>8. stats' \in Stats
    <3>1. stats' = [stats EXCEPT !.events = @ + Len(done), !.clips = @ + 1]
      BY <1>5 DEF ReportJob, done
    <3> QED
      BY <2>4, <3>1, StatsPlus DEF TypeOK
  <2>9. job' \in ClipShape
    BY <1>5, WindowFacts, EmptySeq DEF ReportJob, NoClip, ClipShape
  <2>10. workerPc' = "wait" /\ encodingIds' \subseteq EventIds
    BY <1>5 DEF ReportJob, TypeOK
  <2> QED
    BY <1>5, <2>5, <2>7, <2>8, <2>9, <2>10, SMTT(30) DEF ReportJob, TypeOK, Due
<1>6. CASE EncodeFails
  <2>1. EventsIn(queue) \in Nat
    BY EventsInType DEF TypeOK
  <2>2. stats' = [stats EXCEPT !.workerQueue = @ + EventsIn(queue)]
    BY <1>6 DEF EncodeFails
  <2>3. stats' \in Stats
    BY <2>1, <2>2, StatsPlus DEF TypeOK
  <2>4. /\ queue' \in Seq(LiveClips) /\ encodingIds' \subseteq EventIds
        /\ workerError' \in BOOLEAN /\ stopRequested' \in BOOLEAN
        /\ workerPc' = "done"
    BY <1>6, EmptySeq DEF EncodeFails, TypeOK
  <2>5. Due(active') = Due(active)
    BY <1>6 DEF EncodeFails, Due
  <2>6. UNCHANGED <<callerPc, prebuffer, active, after, pending, returning,
                    frame, tracking, encodingJobs, completedPaths, completed,
                    job, files, sequence, generation, nextId, published, resubmitted>>
    BY <1>6 DEF EncodeFails
  <2> QED
    BY <2>3, <2>4, <2>5, <2>6 DEF TypeOK
<1> QED
  BY <1>1, <1>2, <1>3, <1>4, <1>5, <1>6 DEF Worker

-----------------------------------------------------------------------------
(* Capacity.  PendingBounded is inductive, given the types: the caller      *)
(* admits a clip only below the total, a submitted clip moves from one      *)
(* summand to the other, and the encoder only ever lowers the sum.          *)

LEMMA CapacityInit == Init => PendingBounded
BY ClipAssumption, EmptySeq DEF Init, PendingBounded, Encoding

LEMMA CapacityProcess ==
  ASSUME TypeOK, PendingBounded, NEW batch \in Batches, NEW skipped \in 0 .. 1,
         NEW gen \in generation .. generation + 1, Process(batch, skipped, gen)
  PROVE  PendingBounded'
<1>1. Len(active') = Len(active)
  <2>1. CASE workerError
    BY <2>1 DEF Process, callerVars
  <2>2. CASE ~ workerError
    <3>1. [n |-> sequence + skipped + 1, gen |-> gen] \in Frames
      BY DEF TypeOK, Frames
    <3>2. Due(active) = {} /\ active \in Seq(LiveClips)
      BY DEF Process, TypeOK
    <3> QED
      BY <2>2, <3>1, <3>2, AdvancedType, FlushedType DEF Process
  <2> QED
    BY <2>1, <2>2 DEF TypeOK
<1>2. UNCHANGED <<encodingJobs, queue, workerPc>>
  BY DEF Process, workerVars
<1> QED
  BY <1>1, <1>2 DEF PendingBounded, Encoding

LEMMA CapacitySubmit ==
  ASSUME TypeOK, PendingBounded, SubmitClip
  PROVE  PendingBounded'
<1>1. PICK i \in Due(active) :
        /\ active' = RemoveAt(active, i)
        /\ \/ UNCHANGED <<queue, encodingJobs>>
           \/ /\ queue' = Append(queue, active[i])
              /\ encodingJobs' = encodingJobs + 1
  BY DEF SubmitClip
<1>2. /\ i \in 1 .. Len(active) /\ active \in Seq(LiveClips)
      /\ queue \in Seq(LiveClips) /\ active[i] \in LiveClips
      /\ encodingJobs \in Int
  BY DEF Due, TypeOK
<1>3. Len(active') = Len(active) - 1 /\ Len(active) \in Nat
  BY <1>1, <1>2, RemoveAtFacts, LenProperties
<1>4. \/ UNCHANGED <<queue, encodingJobs>>
      \/ Len(queue') = Len(queue) + 1 /\ encodingJobs' = encodingJobs + 1
  BY <1>1, <1>2, AppendProperties
<1>5. Len(queue) \in Nat /\ UNCHANGED workerPc
  BY <1>2, LenProperties DEF SubmitClip, workerVars
<1> QED
  BY <1>2, <1>3, <1>4, <1>5, ClipAssumption DEF PendingBounded, Encoding

LEMMA CapacityAdmit ==
  ASSUME TypeOK, PendingBounded, Admit
  PROVE  PendingBounded'
<1>1. UNCHANGED <<queue, encodingJobs, workerPc>>
  BY DEF Admit, AdmitDuplicate, AdmitShared, AdmitRefused, AdmitOnDisk, AdmitNew,
         Admitting, workerVars
<1>2. CASE AdmitNew
  <2>1. PICK id \in EventIds : active' = Append(active, NewClip(id))
    BY <1>2 DEF AdmitNew
  <2>2. Len(active') = Len(active) + 1 /\ Len(active) \in Nat
    BY <2>1, NewClipType, AppendProperties, LenProperties DEF TypeOK
  <2>3. Len(active) + encodingJobs < MaxActive
    <3>1. encodingJobs \in Int
      BY DEF TypeOK
    <3>2. ~ (Len(active) + encodingJobs >= MaxActive)
      BY <1>2 DEF AdmitNew, AtCapacity
    <3> QED
      BY <2>2, <3>1, <3>2, ClipAssumption
  <2> QED
    BY <1>1, <2>2, <2>3, ClipAssumption DEF PendingBounded, Encoding, TypeOK
<1>3. CASE AdmitShared
  <2>1. Len(active') = Len(active)
    BY <1>3, JoinClipType DEF AdmitShared
  <2> QED
    BY <1>1, <2>1 DEF PendingBounded, Encoding
<1>4. CASE AdmitDuplicate \/ AdmitRefused \/ AdmitOnDisk
  BY <1>1, <1>4 DEF AdmitDuplicate, AdmitRefused, AdmitOnDisk, PendingBounded, Encoding
<1> QED
  BY <1>2, <1>3, <1>4 DEF Admit

LEMMA CapacityCallerMoves ==
  ASSUME TypeOK, PendingBounded,
         \/ Rejoin \/ ToRecords \/ LookUpCompleted \/ EndProcess \/ EndReset
         \/ RequestStop \/ Joined \/ Destroyed \/ Reset \/ Finish \/ Destroy
  PROVE  PendingBounded'
<1>1. Len(active') = Len(active)
  BY FlushedType DEF TypeOK, Rejoin, ToRecords, LookUpCompleted, EndProcess,
     EndReset, RequestStop, Joined, Destroyed, Reset, Finish, Destroy, callerVars
<1>2. UNCHANGED <<queue, encodingJobs, workerPc>>
  BY DEF Rejoin, ToRecords, LookUpCompleted, EndProcess, EndReset, RequestStop,
     Joined, Destroyed, Reset, Finish, Destroy, workerVars, sharedVars
<1> QED
  BY <1>1, <1>2 DEF PendingBounded, Encoding

LEMMA CapacityWorker ==
  ASSUME TypeOK, PendingBounded, Worker
  PROVE  PendingBounded'
<1>1. /\ UNCHANGED active /\ Len(active) \in Nat /\ Len(queue) \in Nat
      /\ encodingJobs \in Int /\ queue \in Seq(LiveClips)
  BY LenProperties DEF Worker, TakeJob, WorkerStops, RemoveFinal, RenameToFinal,
     ReportJob, EncodeFails, callerVars, TypeOK
<1>2. CASE TakeJob
  <2>1. Len(queue') = Len(queue) - 1
    BY <1>1, <1>2, HeadTailProperties DEF TakeJob
  <2> QED
    BY <1>1, <1>2, <2>1 DEF TakeJob, PendingBounded, Encoding
<1>3. CASE ReportJob
  BY <1>1, <1>3, ClipAssumption, SMTT(30) DEF ReportJob, PendingBounded, Encoding
<1>4. CASE EncodeFails
  <2>1. Len(queue') = 0 /\ workerPc' = "done" /\ UNCHANGED encodingJobs
    BY <1>4, EmptySeq DEF EncodeFails
  <2> QED
    BY <1>1, <2>1 DEF PendingBounded, Encoding
<1>5. CASE WorkerStops \/ RemoveFinal \/ RenameToFinal
  BY <1>1, <1>5 DEF WorkerStops, RemoveFinal, RenameToFinal, PendingBounded,
     Encoding, sharedVars
<1> QED
  BY <1>2, <1>3, <1>4, <1>5 DEF Worker

LEMMA CapacityStep == TypeOK /\ PendingBounded /\ [Next]_vars => PendingBounded'
<1> SUFFICES ASSUME TypeOK, PendingBounded, [Next]_vars PROVE PendingBounded'
  OBVIOUS
<1>1. CASE Worker
  BY <1>1, CapacityWorker
<1>2. CASE InCall
  BY <1>2, CapacitySubmit, CapacityCallerMoves, CapacityAdmit DEF InCall
<1>3. CASE Call
  BY <1>3, CapacityProcess, CapacityCallerMoves DEF Call
<1>4. CASE UNCHANGED vars
  BY <1>4 DEF vars, callerVars, sharedVars, workerVars, PendingBounded, Encoding
<1> QED
  BY <1>1, <1>2, <1>3, <1>4 DEF Next, Over

LEMMA TypeStep == TypeOK /\ PendingBounded /\ [Next]_vars => TypeOK'
<1> SUFFICES ASSUME TypeOK, PendingBounded, [Next]_vars PROVE TypeOK'
  OBVIOUS
<1>1. CASE Worker
  BY <1>1, TypeWorker
<1>2. CASE InCall
  <2>1. encodingJobs >= 0
    <3>1. encodingJobs \in Int /\ Len(queue) \in Nat
      BY LenProperties DEF TypeOK
    <3> QED
      BY <3>1 DEF PendingBounded
  <2> QED
    BY <1>2, <2>1, TypeSubmit, TypeCallerMoves, TypeLookUp, TypeAdmit,
       TypeEndOfCall DEF InCall
<1>3. CASE Call
  BY <1>3, TypeProcess, TypeFlush, TypeCallerMoves DEF Call
<1>4. CASE UNCHANGED vars
  BY <1>4 DEF vars, callerVars, sharedVars, workerVars, programVars, TypeOK, Due
<1> QED
  BY <1>1, <1>2, <1>3, <1>4 DEF Next, Over

\* In every reachable state every variable has its type, the prebuffer is
\* within its bound, and no clip is overdue between two calls.
THEOREM TypeCorrect == Spec => []TypeOK
<1>1. Init => TypeOK /\ PendingBounded
  BY TypeInit, CapacityInit
<1>2. TypeOK /\ PendingBounded /\ [Next]_vars => (TypeOK /\ PendingBounded)'
  BY TypeStep, CapacityStep
<1> QED
  BY <1>1, <1>2, PTL DEF Spec

\* The clips collecting, due, queued and being encoded never exceed
\* max_active_clips, however the encoder thread interleaves with process(),
\* reset() and finish(), and encoding_jobs_ never wraps around.
THEOREM ClipsBounded == Spec => []PendingBounded
<1>1. Init => TypeOK /\ PendingBounded
  BY TypeInit, CapacityInit
<1>2. TypeOK /\ PendingBounded /\ [Next]_vars => (TypeOK /\ PendingBounded)'
  BY TypeStep, CapacityStep
<1> QED
  BY <1>1, <1>2, PTL DEF Spec

-----------------------------------------------------------------------------
(* The encoding queue.  With one clip due and the total bounded, the queue  *)
(* is shorter than the total capacity.                                      *)

CapacityInv == TypeOK /\ PendingBounded /\ QueueNeverRefuses

LEMMA SubmitFindsRoom ==
  ASSUME TypeOK, PendingBounded, QueueCapacity >= MaxActive, SubmitClip
  PROVE  UNCHANGED stats
<1>1. Len(active) >= 1 /\ Len(queue) \in Nat /\ encodingJobs \in Int
  <2>1. PICK i \in Due(active) : TRUE
    BY DEF SubmitClip
  <2>2. Len(active) \in Nat /\ i \in 1 .. Len(active)
    BY <2>1, LenProperties DEF Due, TypeOK
  <2> QED
    BY <2>2, LenProperties DEF TypeOK
<1>2. Len(queue) < QueueCapacity
  BY <1>1, ClipAssumption DEF PendingBounded, TypeOK
<1> QED
  BY <1>1, <1>2 DEF SubmitClip

LEMMA RefusalStep ==
  ASSUME TypeOK, PendingBounded, QueueNeverRefuses, [Next]_vars
  PROVE  QueueNeverRefuses'
<1> SUFFICES ASSUME QueueCapacity >= MaxActive
             PROVE  stats'.queueFull = stats.queueFull
  BY DEF QueueNeverRefuses
<1>1. stats \in Stats
  BY DEF TypeOK
<1>2. CASE SubmitClip
  BY <1>2, SubmitFindsRoom
<1>3. CASE Admit
  BY <1>1, <1>3 DEF Admit, AdmitDuplicate, AdmitShared, AdmitRefused,
     AdmitOnDisk, AdmitNew, Stats
<1>4. CASE LookUpCompleted
  BY <1>1, <1>4 DEF LookUpCompleted, Stats
<1>5. CASE Rejoin \/ ToRecords \/ EndProcess \/ EndReset \/ RequestStop \/ Joined
             \/ Destroyed
  BY <1>5 DEF Rejoin, ToRecords, EndProcess, EndReset, RequestStop, Joined,
     Destroyed, sharedVars
<1>6. CASE Call
  BY <1>6 DEF Call, Process, Reset, Finish, Destroy
<1>7. CASE Worker
  BY <1>1, <1>7 DEF Worker, TakeJob, WorkerStops, RemoveFinal, RenameToFinal,
     ReportJob, EncodeFails, sharedVars, Stats
<1>8. CASE UNCHANGED vars
  BY <1>8 DEF vars, sharedVars
<1> QED
  BY <1>2, <1>3, <1>4, <1>5, <1>6, <1>7, <1>8 DEF Next, InCall, Over

\* With the encoding queue as large as the total capacity, as the program sets
\* it, submit() never finds the queue full: no admitted clip is ever dropped.
THEOREM NoAdmittedClipIsRefused == Spec => []QueueNeverRefuses
<1>1. Init => CapacityInv
  <2>1. Init => stats.queueFull = 0
    BY DEF Init
  <2> QED
    BY <2>1, TypeInit, CapacityInit DEF CapacityInv, QueueNeverRefuses
<1>2. CapacityInv /\ [Next]_vars => CapacityInv'
  BY TypeStep, CapacityStep, RefusalStep DEF CapacityInv
<1>3. CapacityInv => QueueNeverRefuses
  BY DEF CapacityInv
<1> QED
  BY <1>1, <1>2, <1>3, PTL DEF Spec

\* The capacity test covers every clip: the total is bounded, and a queue as
\* large as the total never refuses an admitted one.
THEOREM CapacityIsEnough == Spec => []CapacityCovers
<1>1. PendingBounded /\ QueueNeverRefuses => CapacityCovers
  BY DEF CapacityCovers
<1> QED
  BY <1>1, ClipsBounded, NoAdmittedClipIsRefused, PTL

-----------------------------------------------------------------------------
(* Where a clip comes from.  Every step leaves the clips it does not name; *)
(* what it makes of one is one of the six things below.                    *)

Collecting == {active[i] : i \in DOMAIN active}
Held == Collecting \cup {queue[i] : i \in DOMAIN queue} \cup {job}

\* process() appends the frame of the call.
Extended(c) ==
  \E a \in Collecting :
    /\ callerPc = "idle" /\ callerPc' = "submit" /\ after' = "records"
    /\ frame' \in Frames /\ frame'.n = sequence' /\ sequence' > sequence
    /\ Share /\ tracking => frame'.n = sequence + 1
    /\ a.post # 0 /\ c = [a EXCEPT !.frames = Append(@, frame'), !.post = @ - 1]

\* submit_all_active cuts it short.
CutShort(c) ==
  \E a \in Collecting : c = [a EXCEPT !.post = 0, !.whole = FALSE]

\* start_clip lets an event of this frame join, or starts a clip for it.
Widened(c) ==
  \E a \in Collecting, id \in EventIds :
    /\ callerPc = "admit" /\ UNCHANGED <<frame, sequence>>
    /\ Joinable(a)
    /\ c = [a EXCEPT !.records = Append(@, Member(id)), !.post = Post]

Begun(c) ==
  \E id \in EventIds :
    /\ callerPc = "admit" /\ UNCHANGED <<frame, sequence>>
    /\ c = NewClip(id)

LEMMA CollectingType ==
  ASSUME TypeOK
  PROVE  /\ Collecting \subseteq LiveClips
         /\ DOMAIN active = 1 .. Len(active) /\ Len(active) \in Nat
         /\ \A c \in Held : c \in ClipShape
         /\ DOMAIN queue = 1 .. Len(queue) /\ Len(queue) \in Nat
<1>1. /\ active \in Seq(LiveClips) /\ queue \in Seq(LiveClips) /\ job \in ClipShape
      /\ LiveClips \subseteq ClipShape
  BY DEF TypeOK, LiveClips
<1>2. /\ DOMAIN active = 1 .. Len(active) /\ Len(active) \in Nat
      /\ DOMAIN queue = 1 .. Len(queue) /\ Len(queue) \in Nat
  BY <1>1, LenProperties
<1>3. /\ \A i \in DOMAIN active : active[i] \in LiveClips
      /\ \A i \in DOMAIN queue : queue[i] \in LiveClips
  BY <1>1, <1>2, ElementOfSeq
<1> QED
  BY <1>1, <1>2, <1>3 DEF Collecting, Held

LEMMA ExtendedOrigin ==
  ASSUME TypeOK, NEW batch \in Batches, NEW skipped \in 0 .. 1,
         NEW gen \in generation .. generation + 1, Process(batch, skipped, gen),
         NEW c \in Collecting'
  PROVE  \/ callerPc' = "failed" /\ c \in Collecting
         \/ Extended(c)
         \/ callerPc' = "submit" /\ after' = "rejoin" /\ CutShort(c)
<1> DEFINE f == [n |-> sequence + skipped + 1, gen |-> gen]
<1>1. callerPc = "idle" /\ Due(active) = {} /\ sequence \in Nat /\ generation \in Nat
  BY DEF Process, TypeOK
<1>2. CASE workerError
  BY <1>2 DEF Process, callerVars, Collecting
<1>3. CASE ~ workerError /\ Share /\ Discontinuous(f)
  <2>1. active' = Flushed /\ callerPc' = "submit" /\ after' = "rejoin"
    BY <1>3 DEF Process
  <2>2. PICK i \in DOMAIN active : c = [active[i] EXCEPT !.post = 0, !.whole = FALSE]
    BY <2>1 DEF Collecting, Flushed
  <2> QED
    BY <2>1, <2>2 DEF CutShort, Collecting
<1>4. CASE ~ workerError /\ ~ (Share /\ Discontinuous(f))
  <2>1. /\ active' = Advanced(f) /\ after' = "records" /\ callerPc' = "submit"
        /\ frame' = f /\ sequence' = f.n
    BY <1>4 DEF Process
  <2>2. PICK i \in DOMAIN active :
          c = [active[i] EXCEPT !.frames = Append(@, f), !.post = @ - 1]
    BY <2>1 DEF Collecting, Advanced
  <2>3. active[i].post # 0
    BY <1>1 DEF Due
  <2>4. f \in Frames /\ f.n > sequence
    BY <1>1 DEF Frames
  <2>5. Share /\ tracking => f.n = sequence + 1
    BY <1>4 DEF Discontinuous
  <2>6. active[i] \in Collecting
    BY DEF Collecting
  <2> QED
    BY <1>1, <2>1, <2>2, <2>3, <2>4, <2>5, <2>6 DEF Extended
<1> QED
  BY <1>2, <1>3, <1>4

LEMMA AdmittedOrigin ==
  ASSUME TypeOK, Admit, NEW c \in Collecting'
  PROVE  c \in Collecting \/ Widened(c) \/ Begun(c)
<1>1. callerPc = "admit" /\ UNCHANGED <<frame, sequence>>
  BY DEF Admit, AdmitDuplicate, AdmitShared, AdmitRefused, AdmitOnDisk, AdmitNew,
     Admitting, programVars
<1>2. CASE AdmitShared
  <2>1. PICK id \in EventIds : JoinClip(id)
    BY <1>2 DEF AdmitShared
  <2>2. PICK i \in DOMAIN active :
          /\ Joinable(active[i])
          /\ active' = [active EXCEPT ![i].records = Append(@, Member(id)),
                                      ![i].post = Post]
    BY <2>1 DEF JoinClip
  <2> DEFINE joined == [active[i] EXCEPT !.records = Append(@, Member(id)), !.post = Post]
  <2>3. active[i] \in ClipShape
    BY CollectingType DEF Collecting, LiveClips
  <2>4. active' = [active EXCEPT ![i] = joined]
    BY <2>2, <2>3
  <2>5. c \in Collecting \/ c = joined
    BY <2>4 DEF Collecting
  <2> QED
    BY <1>1, <2>2, <2>5 DEF Widened, Collecting
<1>3. CASE AdmitNew
  <2>1. PICK id \in EventIds : active' = Append(active, NewClip(id))
    BY <1>3 DEF AdmitNew
  <2>2. /\ DOMAIN active' = 1 .. Len(active) + 1
        /\ \A k \in 1 .. Len(active) : active'[k] = active[k]
        /\ active'[Len(active) + 1] = NewClip(id)
    BY <2>1, NewClipType, AppendProperties, LenProperties DEF TypeOK
  <2>3. c \in Collecting \/ c = NewClip(id)
    BY <2>2, CollectingType DEF Collecting
  <2> QED
    BY <1>1, <2>3 DEF Begun
<1>4. CASE AdmitDuplicate \/ AdmitRefused \/ AdmitOnDisk
  BY <1>4 DEF AdmitDuplicate, AdmitRefused, AdmitOnDisk, Collecting
<1> QED
  BY <1>2, <1>3, <1>4 DEF Admit

LEMMA SubmittedOrigin ==
  ASSUME TypeOK, SubmitClip, NEW c \in Held'
  PROVE  /\ c \in Held
         /\ c \in Collecting' => c \in Collecting
<1>1. PICK i \in Due(active) :
        /\ active' = RemoveAt(active, i)
        /\ UNCHANGED queue \/ queue' = Append(queue, active[i])
  BY DEF SubmitClip
<1>2. /\ active \in Seq(LiveClips) /\ queue \in Seq(LiveClips)
      /\ i \in 1 .. Len(active) /\ Len(active) \in Nat /\ Len(queue) \in Nat
      /\ active[i] \in LiveClips /\ UNCHANGED job
  BY CollectingType DEF Due, TypeOK, Collecting, SubmitClip, workerVars
<1>3. Collecting' \subseteq Collecting
  <2>1. /\ active' \in Seq(LiveClips) /\ Len(active') = Len(active) - 1
        /\ \A k \in 1 .. Len(active) - 1 :
             active'[k] = IF k < i THEN active[k] ELSE active[k + 1]
    BY <1>1, <1>2, RemoveAtFacts
  <2>2. DOMAIN active' = 1 .. Len(active) - 1
    BY <2>1, LenProperties
  <2>3. ASSUME NEW k \in 1 .. Len(active) - 1
        PROVE  active'[k] \in Collecting
    <3>1. k \in DOMAIN active /\ k + 1 \in DOMAIN active
      BY <1>2, CollectingType
    <3>2. active'[k] = active[k] \/ active'[k] = active[k + 1]
      BY <2>1
    <3> QED
      BY <3>1, <3>2 DEF Collecting
  <2> QED
    BY <2>2, <2>3 DEF Collecting
<1>4. \A k \in DOMAIN queue' : queue'[k] \in Held
  <2>1. CASE UNCHANGED queue
    BY <2>1 DEF Held
  <2>2. CASE queue' = Append(queue, active[i])
    <3>1. /\ DOMAIN queue' = 1 .. Len(queue) + 1
          /\ \A k \in 1 .. Len(queue) : queue'[k] = queue[k]
          /\ queue'[Len(queue) + 1] = active[i]
      BY <1>2, <2>2, AppendProperties, LenProperties
    <3>2. active[i] \in Held /\ \A k \in 1 .. Len(queue) : queue[k] \in Held
      BY <1>2, CollectingType DEF Held, Collecting
    <3> QED
      BY <1>2, <3>1, <3>2
  <2> QED
    BY <1>1, <2>1, <2>2
<1> QED
  BY <1>2, <1>3, <1>4 DEF Held

LEMMA WorkerOrigin ==
  ASSUME TypeOK, Worker, NEW c \in Held'
  PROVE  (c \in Held \/ c = NoClip) /\ Collecting' = Collecting
<1> USE DEF sharedVars
<1>1. UNCHANGED active
  BY DEF Worker, TakeJob, WorkerStops, RemoveFinal, RenameToFinal, ReportJob,
     EncodeFails, callerVars
<1>2. \A k \in DOMAIN queue' : queue'[k] \in Held
  <2>1. CASE TakeJob
    <3>1. queue \in Seq(LiveClips) /\ queue # << >> /\ queue' = Tail(queue)
      BY <2>1 DEF TakeJob, TypeOK
    <3>2. /\ DOMAIN queue' = 1 .. Len(queue) - 1
          /\ \A k \in 1 .. Len(queue) - 1 : queue'[k] = queue[k + 1]
      BY <3>1, HeadTailProperties, LenProperties
    <3>3. \A k \in 1 .. Len(queue) - 1 : k + 1 \in DOMAIN queue
      BY CollectingType
    <3> QED
      BY <3>2, <3>3 DEF Held
  <2>2. CASE EncodeFails
    BY <2>2 DEF EncodeFails
  <2>3. CASE WorkerStops \/ RemoveFinal \/ RenameToFinal \/ ReportJob
    BY <2>3 DEF WorkerStops, RemoveFinal, RenameToFinal, ReportJob, Held
  <2> QED
    BY <2>1, <2>2, <2>3 DEF Worker
<1>3. job' \in Held \/ job' = NoClip
  <2>1. CASE TakeJob
    <3>1. queue \in Seq(LiveClips) /\ queue # << >> /\ job' = Head(queue)
      BY <2>1 DEF TakeJob, TypeOK
    <3>2. job' = queue[1] /\ 1 \in DOMAIN queue
      BY <3>1, HeadTailProperties, LenProperties, EmptySeq
    <3> QED
      BY <3>2 DEF Held
  <2>2. CASE ReportJob
    BY <2>2 DEF ReportJob
  <2>3. CASE WorkerStops \/ RemoveFinal \/ RenameToFinal \/ EncodeFails
    BY <2>3 DEF WorkerStops, RemoveFinal, RenameToFinal, EncodeFails, Held
  <2> QED
    BY <2>1, <2>2, <2>3 DEF Worker
<1> QED
  BY <1>1, <1>2, <1>3 DEF Held, Collecting

LEMMA FlushedOrigin ==
  ASSUME active' = Flushed, NEW c \in Collecting'
  PROVE  CutShort(c)
<1>1. PICK i \in DOMAIN active : c = [active[i] EXCEPT !.post = 0, !.whole = FALSE]
  BY DEF Collecting, Flushed
<1> QED
  BY <1>1 DEF CutShort, Collecting

LEMMA ClipOrigins ==
  ASSUME TypeOK, [Next]_vars, NEW c \in Held'
  PROVE  /\ c \in Held \/ c = NoClip \/ Extended(c) \/ CutShort(c) \/ Widened(c)
              \/ Begun(c)
         /\ c \in Collecting' =>
              c \in Collecting \/ Extended(c) \/ CutShort(c) \/ Widened(c) \/ Begun(c)
<1> DEFINE made == Extended(c) \/ CutShort(c) \/ Widened(c) \/ Begun(c)
<1> SUFFICES \/ (c \in Held \/ c = NoClip) /\ (c \in Collecting' => c \in Collecting)
             \/ UNCHANGED <<queue, job>> /\ (c \in Collecting' => c \in Collecting \/ made)
  BY DEF Held
<1> HIDE DEF made
<1>1. CASE Worker
  BY <1>1, WorkerOrigin
<1>2. CASE SubmitClip
  BY <1>2, SubmittedOrigin
<1>3. CASE Admit
  <2>1. UNCHANGED <<queue, job>>
    BY <1>3 DEF Admit, AdmitDuplicate, AdmitShared, AdmitRefused, AdmitOnDisk,
       AdmitNew, Admitting, workerVars
  <2> QED
    BY <1>3, <2>1, AdmittedOrigin DEF made
<1>4. CASE Reset \/ Finish
  <2>1. active' = Flushed /\ UNCHANGED <<queue, job>>
    BY <1>4 DEF Reset, Finish, workerVars
  <2> QED
    BY <2>1, FlushedOrigin DEF made
<1>5. CASE \E batch \in Batches, skipped \in 0 .. 1,
              gen \in generation .. generation + 1 : Process(batch, skipped, gen)
  <2>1. PICK batch \in Batches, skipped \in 0 .. 1,
             gen \in generation .. generation + 1 : Process(batch, skipped, gen)
    BY <1>5
  <2>2. UNCHANGED <<queue, job>>
    BY <2>1 DEF Process, workerVars
  <2> QED
    BY <2>1, <2>2, ExtendedOrigin DEF made
<1>6. CASE \/ Rejoin \/ ToRecords \/ LookUpCompleted \/ EndProcess \/ EndReset
           \/ RequestStop \/ Joined \/ Destroyed \/ Destroy \/ Over \/ UNCHANGED vars
  <2>1. UNCHANGED <<active, queue, job>>
    BY <1>6 DEF Rejoin, ToRecords, LookUpCompleted, EndProcess, EndReset,
       RequestStop, Joined, Destroyed, Destroy, Over, vars, callerVars, sharedVars,
       workerVars
  <2> QED
    BY <2>1 DEF Held, Collecting
<1> QED
  BY <1>1, <1>2, <1>3, <1>4, <1>5, <1>6 DEF Next, InCall, Call

-----------------------------------------------------------------------------
(* The frames of a clip.  Whatever a step makes of a clip, its frames and   *)
(* those it still waits for stay within the budget of one clip.             *)

Budget == IF Share THEN MaxSharedFrames ELSE Pre + 1 + Post
WithinBudget(c) == Len(c.frames) + c.post <= Budget
BudgetInv == \A c \in Held : WithinBudget(c)

LEMMA BudgetFacts == Budget \in Nat /\ Pre + 1 + Post <= Budget
BY ClipAssumption DEF Budget

LEMMA BudgetStep == TypeOK /\ BudgetInv /\ [Next]_vars => BudgetInv'
<1> SUFFICES ASSUME TypeOK, BudgetInv, [Next]_vars, NEW c \in Held'
             PROVE  WithinBudget(c)
  BY DEF BudgetInv, WithinBudget
<1>1. \A a \in Collecting :
        /\ a \in ClipShape /\ Len(a.frames) \in Nat /\ a.post \in Nat
        /\ a.frames \in Seq(Frames) /\ Len(a.frames) + a.post <= Budget
  BY CollectingType, LenProperties, WindowFacts
     DEF LiveClips, ClipShape, Held, BudgetInv, WithinBudget
<1>2. CASE c \in Held
  BY <1>2 DEF BudgetInv
<1>3. CASE c = NoClip
  BY <1>3, BudgetFacts, EmptySeq DEF NoClip, WithinBudget
<1>4. CASE Extended(c)
  <2>1. PICK a \in Collecting :
          /\ frame' \in Frames
          /\ c = [a EXCEPT !.frames = Append(@, frame'), !.post = @ - 1]
    BY <1>4 DEF Extended
  <2>2. c.frames = Append(a.frames, frame') /\ c.post = a.post - 1
    BY <1>1, <2>1 DEF ClipShape
  <2>3. Len(c.frames) = Len(a.frames) + 1
    BY <1>1, <2>1, <2>2, AppendProperties
  <2> QED
    BY <1>1, <2>2, <2>3, BudgetFacts DEF WithinBudget
<1>5. CASE CutShort(c)
  <2>1. PICK a \in Collecting : c = [a EXCEPT !.post = 0, !.whole = FALSE]
    BY <1>5 DEF CutShort
  <2>2. c.frames = a.frames /\ c.post = 0
    BY <1>1, <2>1 DEF ClipShape
  <2> QED
    BY <1>1, <2>2, BudgetFacts DEF WithinBudget
<1>6. CASE Widened(c)
  <2>1. PICK a \in Collecting, id \in EventIds :
          /\ Joinable(a)
          /\ c = [a EXCEPT !.records = Append(@, Member(id)), !.post = Post]
    BY <1>6 DEF Widened
  <2>2. c.frames = a.frames /\ c.post = Post
    BY <1>1, <2>1 DEF ClipShape
  <2> QED
    BY <2>1, <2>2 DEF Joinable, WithinBudget, Budget
<1>7. CASE Begun(c)
  <2>1. PICK id \in EventIds : c = NewClip(id)
    BY <1>7 DEF Begun
  <2>2. c.frames = Append(prebuffer, frame) /\ c.post = Post
    BY <2>1 DEF NewClip
  <2>3. Len(c.frames) = Len(prebuffer) + 1 /\ Len(prebuffer) <= Pre
        /\ Len(prebuffer) \in Nat
    BY <2>2, AppendProperties, LenProperties DEF TypeOK
  <2> QED
    BY <2>2, <2>3, BudgetFacts, ClipAssumption DEF WithinBudget
<1> QED
  BY <1>2, <1>3, <1>4, <1>5, <1>6, <1>7, ClipOrigins

LEMMA ClipsAreHeld == Clips \subseteq Held
BY DEF Clips, Held, Collecting

\* The frames of a clip, with those it still waits for, never exceed the window of
\* one event, or the limit of a shared clip: an event that joins late is refused
\* the extension that would take the clip beyond it (start_clip).
THEOREM FramesAreBudgeted == Spec => []FrameBudget
<1>1. Init => TypeOK /\ PendingBounded /\ BudgetInv
  <2>1. Init => Held = {NoClip}
    BY DEF Init, Held, Collecting
  <2>2. WithinBudget(NoClip)
    BY BudgetFacts, EmptySeq DEF NoClip, WithinBudget
  <2> QED
    BY <2>1, <2>2, TypeInit, CapacityInit DEF BudgetInv
<1>2. TypeOK /\ PendingBounded /\ BudgetInv /\ [Next]_vars
        => (TypeOK /\ PendingBounded /\ BudgetInv)'
  BY TypeStep, CapacityStep, BudgetStep
<1>3. BudgetInv => FrameBudget
  BY ClipsAreHeld DEF BudgetInv, FrameBudget, WithinBudget, Budget
<1> QED
  BY <1>1, <1>2, <1>3, PTL DEF Spec

-----------------------------------------------------------------------------
(* One stream per clip.  The property speaks of finished clips only; what  *)
(* makes it inductive is what holds while frames are still being handed    *)
(* in: inside a call that uses a frame, the prebuffer and the collecting   *)
(* clips are all of the generation handed in, and a change of generation   *)
(* finds them emptied.                                                     *)

AllOf(frames, g) == \A k \in DOMAIN frames : frames[k].gen = g
StreamOf(c, g) == AllOf(c.frames, g) /\ AllOf(c.records, g)
OneStream(c) == \E g \in Nat : StreamOf(c, g)

\* The caller is using, or may next use, what it has buffered and collected.
Using ==
  \/ callerPc \in {"idle", "records", "admit"}
  \/ callerPc = "submit" /\ after = "records"

Flushing == callerPc = "submit" /\ after \in {"rejoin", "reset", "finish"}

\* A frame of the present generation is in the call's hands.
InProcess ==
  \/ callerPc \in {"records", "admit"}
  \/ callerPc = "submit" /\ after \in {"records", "rejoin"}

StreamInv ==
  /\ \A i \in DOMAIN active : OneStream(active[i])
  /\ \A i \in DOMAIN queue : OneStream(queue[i])
  /\ OneStream(job)
  /\ Using => /\ AllOf(prebuffer, generation)
              /\ \A i \in DOMAIN active : StreamOf(active[i], generation)
  /\ InProcess => tracking /\ frame.gen = generation
  /\ Flushing => \A i \in DOMAIN active : active[i].post = 0
  /\ callerPc = "idle" /\ ~ tracking => prebuffer = << >> /\ active = << >>

LEMMA StreamInvImplies == StreamInv => OneStreamPerClip
<1> SUFFICES ASSUME StreamInv, NEW c \in Clips
             PROVE  /\ \A i, k \in DOMAIN c.frames : c.frames[i].gen = c.frames[k].gen
                    /\ \A i \in DOMAIN c.records, k \in DOMAIN c.frames :
                         c.records[i].gen = c.frames[k].gen
  BY DEF OneStreamPerClip
<1>1. OneStream(c)
  BY DEF StreamInv, Clips
<1> QED
  BY <1>1 DEF OneStream, StreamOf, AllOf

LEMMA StreamInit == Init => StreamInv
<1> SUFFICES ASSUME Init PROVE StreamInv
  OBVIOUS
<1>1. OneStream(job)
  BY DEF Init, NoClip, OneStream, StreamOf, AllOf
<1> QED
  BY <1>1 DEF Init, StreamInv, AllOf, InProcess, Flushing

LEMMA AppendAllOf ==
  ASSUME NEW S, NEW s \in Seq(S), NEW x \in S, NEW g, AllOf(s, g), x.gen = g
  PROVE  AllOf(Append(s, x), g)
<1>1. /\ Len(s) \in Nat
      /\ DOMAIN s = 1 .. Len(s)
      /\ DOMAIN Append(s, x) = 1 .. Len(s) + 1
      /\ \A i \in 1 .. Len(s) : Append(s, x)[i] = s[i]
      /\ Append(s, x)[Len(s) + 1] = x
  BY AppendProperties, LenProperties
<1> QED
  BY <1>1 DEF AllOf

LEMMA AdvancedStreams ==
  ASSUME active \in Seq(LiveClips), NEW f \in Frames, NEW i \in DOMAIN active,
         NEW g, StreamOf(active[i], g), f.gen = g
  PROVE  StreamOf(Advanced(f)[i], g)
<1>1. active[i] \in ClipShape
  BY LenProperties, ElementOfSeq DEF LiveClips
<1>2. /\ Advanced(f)[i].frames = Append(active[i].frames, f)
      /\ Advanced(f)[i].records = active[i].records
  BY <1>1 DEF Advanced, ClipShape
<1>3. active[i].frames \in Seq(Frames)
  BY <1>1 DEF ClipShape
<1> QED
  BY <1>2, <1>3, AppendAllOf DEF StreamOf

LEMMA FlushedStreams ==
  ASSUME active \in Seq(LiveClips), NEW i \in DOMAIN active
  PROVE  /\ Flushed[i].frames = active[i].frames
         /\ Flushed[i].records = active[i].records
         /\ Flushed[i].post = 0
<1>1. active[i] \in ClipShape
  BY LenProperties, ElementOfSeq DEF LiveClips
<1> QED
  BY <1>1 DEF Flushed, ClipShape

LEMMA FlushKeepsStreams ==
  ASSUME TypeOK, StreamInv, active' = Flushed
  PROVE  /\ \A i \in DOMAIN active' : OneStream(active'[i])
         /\ \A i \in DOMAIN active' : active'[i].post = 0
<1>1. active \in Seq(LiveClips) /\ DOMAIN Flushed = DOMAIN active
  BY DEF TypeOK, Flushed
<1>2. ASSUME NEW i \in DOMAIN active
      PROVE  OneStream(Flushed[i]) /\ Flushed[i].post = 0
  <2>1. OneStream(active[i])
    BY DEF StreamInv
  <2>2. /\ Flushed[i].frames = active[i].frames
        /\ Flushed[i].records = active[i].records
        /\ Flushed[i].post = 0
    BY <1>1, FlushedStreams
  <2> QED
    BY <2>1, <2>2 DEF OneStream, StreamOf
<1> QED
  BY <1>1, <1>2

LEMMA StreamProcess ==
  ASSUME TypeOK, StreamInv, NEW batch \in Batches, NEW skipped \in 0 .. 1,
         NEW gen \in generation .. generation + 1, Process(batch, skipped, gen)
  PROVE  StreamInv'
<1> USE DEF callerVars, workerVars, programVars
<1> DEFINE f == [n |-> sequence + skipped + 1, gen |-> gen]
<1>1. /\ callerPc = "idle" /\ UNCHANGED <<queue, job>>
      /\ Using /\ gen \in Nat /\ generation \in Nat /\ sequence \in Nat
      /\ active \in Seq(LiveClips) /\ Due(active) = {}
  BY DEF Process, Using, TypeOK
<1>2. CASE workerError
  BY <1>1, <1>2 DEF Process, StreamInv, Using, InProcess, Flushing
<1>3. CASE ~ workerError
  <2>1. /\ frame' = f /\ generation' = gen /\ tracking' = TRUE
        /\ callerPc' = "submit" /\ UNCHANGED prebuffer
    BY <1>3 DEF Process
  <2>2. CASE Share /\ Discontinuous(f)
    <3>1. active' = Flushed /\ after' = "rejoin"
      BY <1>3, <2>2 DEF Process
    <3>2. /\ \A i \in DOMAIN active' : OneStream(active'[i])
          /\ \A i \in DOMAIN active' : active'[i].post = 0
      BY <3>1, FlushKeepsStreams
    <3> QED
      BY <1>1, <2>1, <3>1, <3>2 DEF StreamInv, Using, InProcess, Flushing
  <2>3. CASE ~ (Share /\ Discontinuous(f))
    <3>1. active' = Advanced(f) /\ after' = "records"
      BY <1>3, <2>3 DEF Process
    <3>2. f \in Frames /\ f.gen = gen
      BY <1>1 DEF Frames
    <3>3. /\ AllOf(prebuffer, gen)
          /\ \A i \in DOMAIN active : StreamOf(active[i], gen)
      <4>1. CASE gen = generation
        BY <1>1, <4>1 DEF StreamInv
      <4>2. CASE gen # generation
        <5>1. Share
          BY <4>2 DEF Process
        <5>2. ~ tracking
          BY <2>3, <3>2, <4>2, <5>1 DEF Discontinuous
        <5>3. prebuffer = << >> /\ active = << >>
          BY <1>1, <5>2 DEF StreamInv
        <5> QED
          BY <5>3 DEF AllOf
      <4> QED
        BY <4>1, <4>2
    <3>4. DOMAIN Advanced(f) = DOMAIN active
      BY DEF Advanced
    <3>5. \A i \in DOMAIN active : StreamOf(Advanced(f)[i], gen)
      BY <1>1, <3>2, <3>3, AdvancedStreams
    <3>6. \A i \in DOMAIN active' : StreamOf(active'[i], gen) /\ OneStream(active'[i])
      BY <1>1, <3>1, <3>4, <3>5 DEF OneStream
    <3> QED
      BY <1>1, <2>1, <3>1, <3>2, <3>3, <3>6 DEF StreamInv, Using, InProcess, Flushing
  <2> QED
    BY <2>2, <2>3
<1> QED
  BY <1>2, <1>3 DEF TypeOK

LEMMA StreamSubmit ==
  ASSUME TypeOK, StreamInv, SubmitClip
  PROVE  StreamInv'
<1>1. PICK i \in Due(active) :
        /\ active' = RemoveAt(active, i)
        /\ \/ callerPc' \in {"submit", "failed"} /\ UNCHANGED queue
           \/ UNCHANGED callerPc /\ queue' = Append(queue, active[i])
  BY DEF SubmitClip
<1>2. /\ callerPc = "submit"
      /\ UNCHANGED <<prebuffer, after, frame, tracking, job, generation>>
  BY DEF SubmitClip, workerVars, programVars
<1>3. /\ i \in 1 .. Len(active) /\ active \in Seq(LiveClips)
      /\ queue \in Seq(LiveClips) /\ active[i] \in LiveClips
      /\ Len(active) \in Nat /\ DOMAIN active = 1 .. Len(active)
  BY LenProperties DEF Due, TypeOK
<1>4. /\ DOMAIN active' = 1 .. Len(active) - 1
      /\ \A k \in DOMAIN active' : \E j \in DOMAIN active : active'[k] = active[j]
  <2>1. /\ active' \in Seq(LiveClips)
        /\ Len(active') = Len(active) - 1
        /\ \A k \in 1 .. Len(active) - 1 :
             active'[k] = IF k < i THEN active[k] ELSE active[k + 1]
    BY <1>1, <1>3, RemoveAtFacts
  <2>2. DOMAIN active' = 1 .. Len(active) - 1
    BY <2>1, LenProperties
  <2>3. ASSUME NEW k \in 1 .. Len(active) - 1
        PROVE  \E j \in DOMAIN active : active'[k] = active[j]
    <3>1. k \in 1 .. Len(active) /\ k + 1 \in 1 .. Len(active)
      BY <1>3
    <3>2. CASE k < i
      BY <1>3, <2>1, <3>1, <3>2
    <3>3. CASE ~ k < i
      BY <1>3, <2>1, <3>1, <3>3
    <3> QED
      BY <3>2, <3>3
  <2> QED
    BY <2>2, <2>3
<1>5. \A k \in DOMAIN queue' : OneStream(queue'[k])
  <2>1. CASE queue' = Append(queue, active[i])
    <3>1. /\ DOMAIN queue' = 1 .. Len(queue) + 1 /\ DOMAIN queue = 1 .. Len(queue)
          /\ \A k \in 1 .. Len(queue) : queue'[k] = queue[k]
          /\ queue'[Len(queue) + 1] = active[i]
          /\ Len(queue) \in Nat
      BY <1>3, <2>1, AppendProperties, LenProperties
    <3> QED
      BY <1>3, <3>1 DEF StreamInv
  <2> QED
    BY <1>1, <2>1 DEF StreamInv
<1>6. callerPc' \in {"submit", "failed"}
  BY <1>1, <1>2
<1> QED
  BY <1>2, <1>4, <1>5, <1>6 DEF StreamInv, Using, InProcess, Flushing

\* Nothing is left to submit after a flush.
LEMMA FlushedIsEmpty ==
  ASSUME TypeOK, StreamInv, Flushing, Due(active) = {}
  PROVE  active = << >>
<1>1. \A i \in DOMAIN active : active[i].post = 0
  BY DEF StreamInv
<1>2. DOMAIN active = {}
  BY <1>1 DEF Due
<1> QED
  BY <1>2, EmptySeq, LenProperties DEF TypeOK

LEMMA StreamAfterSubmit ==
  ASSUME TypeOK, StreamInv, Rejoin \/ ToRecords \/ EndReset \/ RequestStop
  PROVE  StreamInv'
<1> USE DEF callerVars, sharedVars, workerVars, programVars
<1>1. CASE Rejoin
  <2>1. active = << >>
    BY <1>1, FlushedIsEmpty DEF Rejoin, Submitted, Flushing
  <2> QED
    BY <1>1, <2>1 DEF Rejoin, Submitted, StreamInv, AllOf, Using, InProcess, Flushing
<1>2. CASE ToRecords
  BY <1>2 DEF ToRecords, Submitted, StreamInv, Using, InProcess, Flushing
<1>3. CASE EndReset
  <2>1. active = << >>
    BY <1>3, FlushedIsEmpty DEF EndReset, Submitted, Flushing
  <2>2. callerPc' \in {"idle", "failed"}
    BY <1>3 DEF EndReset, ReturnTo
  <2> QED
    BY <1>3, <2>1, <2>2 DEF EndReset, StreamInv, AllOf, Using, InProcess, Flushing
<1>4. CASE RequestStop
  BY <1>4 DEF RequestStop, StreamInv, Using, InProcess, Flushing
<1> QED
  BY <1>1, <1>2, <1>3, <1>4

LEMMA StreamLookUp ==
  ASSUME TypeOK, StreamInv, LookUpCompleted
  PROVE  StreamInv'
<1>1. /\ callerPc = "records" /\ callerPc' \in {"records", "admit"}
      /\ UNCHANGED <<prebuffer, active, queue, job, frame, tracking, generation,
                     after>>
  BY DEF LookUpCompleted, workerVars, programVars
<1> QED
  BY <1>1 DEF StreamInv, Using, InProcess, Flushing

\* The records of a frame join clips of that frame's generation.
LEMMA StreamAdmit ==
  ASSUME TypeOK, StreamInv, Admit
  PROVE  StreamInv'
<1>1. /\ callerPc = "admit" /\ callerPc' \in {"records", "submit"}
      /\ after' = "records"
      /\ UNCHANGED <<prebuffer, queue, job, frame, tracking, generation>>
  BY DEF Admit, AdmitDuplicate, AdmitShared, AdmitRefused, AdmitOnDisk, AdmitNew,
         Admitting, workerVars, programVars
<1>2. /\ tracking /\ frame.gen = generation
      /\ AllOf(prebuffer, generation)
      /\ \A i \in DOMAIN active : StreamOf(active[i], generation)
      /\ generation \in Nat /\ frame \in Frames
      /\ active \in Seq(LiveClips) /\ prebuffer \in Seq(Frames)
      /\ Len(active) \in Nat /\ DOMAIN active = 1 .. Len(active)
  BY <1>1, LenProperties DEF StreamInv, InProcess, Using, TypeOK
<1>3. \A i \in DOMAIN active' : StreamOf(active'[i], generation)
  <2>1. CASE UNCHANGED active
    BY <1>2, <2>1
  <2>2. CASE AdmitShared
    <3>1. PICK id \in EventIds : JoinClip(id)
      BY <2>2 DEF AdmitShared
    <3>2. PICK i \in DOMAIN active :
            active' = [active EXCEPT ![i].records = Append(@, Member(id)),
                                     ![i].post = Post]
      BY <3>1 DEF JoinClip
    <3>3. active[i] \in ClipShape
      BY <1>2, ElementOfSeq DEF LiveClips
    <3>4. Member(id) \in Members /\ Member(id).gen = generation
      <4>1. CASE prebuffer = << >>
        BY <1>2, <4>1 DEF Member, Members, Frames
      <4>2. CASE prebuffer # << >>
        <5>1. Head(prebuffer) \in Frames
          BY <1>2, <4>2, HeadTailProperties
        <5> QED
          BY <1>2, <4>2, <5>1 DEF Member, Members, Frames
      <4> QED
        BY <4>1, <4>2
    <3>5. active[i].records \in Seq(Members)
      BY <3>3 DEF ClipShape
    <3>6. /\ active'[i].records = Append(active[i].records, Member(id))
          /\ active'[i].frames = active[i].frames
          /\ DOMAIN active' = DOMAIN active
          /\ \A k \in DOMAIN active \ {i} : active'[k] = active[k]
      BY <1>2, <3>2, <3>3 DEF ClipShape
    <3>7. AllOf(active'[i].records, generation)
      BY <1>2, <3>4, <3>5, <3>6, AppendAllOf DEF StreamOf
    <3> QED
      BY <1>2, <3>6, <3>7 DEF StreamOf
  <2>3. CASE AdmitNew
    <3>1. PICK id \in EventIds : active' = Append(active, NewClip(id))
      BY <2>3 DEF AdmitNew
    <3>2. AllOf(Append(prebuffer, frame), generation)
      BY <1>2, AppendAllOf
    <3>3. AllOf(<<Member(id)>>, generation)
      BY <1>2 DEF AllOf, Member
    <3>4. StreamOf(NewClip(id), generation)
      BY <3>2, <3>3 DEF StreamOf, NewClip
    <3>5. /\ DOMAIN active' = 1 .. Len(active) + 1
          /\ \A k \in 1 .. Len(active) : active'[k] = active[k]
          /\ active'[Len(active) + 1] = NewClip(id)
      BY <1>2, <3>1, AppendProperties
    <3> QED
      BY <1>2, <3>4, <3>5
  <2> QED
    BY <2>1, <2>2, <2>3 DEF Admit, AdmitDuplicate, AdmitRefused, AdmitOnDisk
<1>4. \A i \in DOMAIN active' : OneStream(active'[i])
  BY <1>2, <1>3 DEF OneStream
<1> QED
  BY <1>1, <1>2, <1>3, <1>4 DEF StreamInv, Using, InProcess, Flushing

LEMMA StreamEndProcess ==
  ASSUME TypeOK, StreamInv, EndProcess
  PROVE  StreamInv'
<1>1. /\ callerPc = "records" /\ callerPc' \in {"idle", "failed"}
      /\ prebuffer' = Buffered
      /\ UNCHANGED <<active, queue, job, frame, tracking, generation, after>>
  BY DEF EndProcess, ReturnTo, workerVars
<1>2. /\ tracking /\ frame.gen = generation
      /\ AllOf(prebuffer, generation)
      /\ frame \in Frames /\ prebuffer \in Seq(Frames)
  BY <1>1 DEF StreamInv, InProcess, Using, TypeOK
<1>3. AllOf(Append(prebuffer, frame), generation)
  BY <1>2, AppendAllOf
<1>4. AllOf(Buffered, generation)
  <2>1. Append(prebuffer, frame) \in Seq(Frames) /\ Append(prebuffer, frame) # << >>
    BY <1>2, AppendProperties
  <2>2. AllOf(Tail(Append(prebuffer, frame)), generation)
    <3>1. DEFINE s == Append(prebuffer, frame)
    <3>2. /\ DOMAIN s = 1 .. Len(s) /\ Len(s) \in Nat
          /\ DOMAIN Tail(s) = 1 .. Len(s) - 1
          /\ \A k \in 1 .. Len(s) - 1 : Tail(s)[k] = s[k + 1]
      BY <2>1, HeadTailProperties, LenProperties
    <3> QED
      BY <1>3, <3>2 DEF AllOf
  <2> QED
    BY <1>3, <2>2 DEF Buffered
<1> QED
  BY <1>1, <1>2, <1>4 DEF StreamInv, Using, InProcess, Flushing

\* Both calls flush what is collected before anything else.
LEMMA StreamFlush ==
  ASSUME TypeOK, StreamInv, Reset \/ Finish
  PROVE  StreamInv'
<1>1. /\ active' = Flushed
      /\ callerPc' = "submit" /\ after' \in {"reset", "finish"}
      /\ UNCHANGED <<queue, job>>
  BY DEF Reset, Finish, workerVars
<1>2. /\ \A i \in DOMAIN active' : OneStream(active'[i])
      /\ \A i \in DOMAIN active' : active'[i].post = 0
  BY <1>1, FlushKeepsStreams
<1> QED
  BY <1>1, <1>2 DEF StreamInv, Using, InProcess, Flushing

LEMMA StreamClose ==
  ASSUME TypeOK, StreamInv, Joined \/ Destroy \/ Destroyed
  PROVE  StreamInv'
<1>1. /\ callerPc' \in {"closed", "failed", "destroying", "destroyed"}
      /\ UNCHANGED <<active, queue, job>>
  BY DEF Joined, Destroy, Destroyed, ReturnTo, callerVars, sharedVars, workerVars
<1> QED
  BY <1>1 DEF StreamInv, Using, InProcess, Flushing

LEMMA StreamWorker ==
  ASSUME TypeOK, StreamInv, Worker
  PROVE  StreamInv'
<1> USE DEF callerVars, sharedVars, programVars
<1>1. UNCHANGED <<callerPc, prebuffer, active, after, frame, tracking, generation>>
  BY DEF Worker, TakeJob, WorkerStops, RemoveFinal, RenameToFinal, ReportJob,
         EncodeFails
<1>2. OneStream(job') /\ \A i \in DOMAIN queue' : OneStream(queue'[i])
  <2>1. CASE TakeJob
    <3>1. /\ queue # << >> /\ queue \in Seq(LiveClips)
          /\ job' = Head(queue) /\ queue' = Tail(queue)
      BY <2>1 DEF TakeJob, TypeOK
    <3>2. /\ DOMAIN queue = 1 .. Len(queue) /\ Len(queue) \in Nat /\ Len(queue) > 0
          /\ Head(queue) = queue[1]
          /\ DOMAIN Tail(queue) = 1 .. Len(queue) - 1
          /\ \A k \in 1 .. Len(queue) - 1 : Tail(queue)[k] = queue[k + 1]
      BY <3>1, HeadTailProperties, LenProperties, EmptySeq
    <3>3. OneStream(job')
      BY <3>1, <3>2 DEF StreamInv
    <3> QED
      BY <3>1, <3>2, <3>3 DEF StreamInv
  <2>2. CASE ReportJob
    <3>1. OneStream(NoClip)
      BY DEF NoClip, OneStream, StreamOf, AllOf
    <3> QED
      BY <2>2, <3>1 DEF ReportJob, StreamInv
  <2>3. CASE EncodeFails
    BY <2>3 DEF EncodeFails, StreamInv
  <2>4. CASE WorkerStops \/ RemoveFinal \/ RenameToFinal
    BY <2>4 DEF WorkerStops, RemoveFinal, RenameToFinal, StreamInv
  <2> QED
    BY <2>1, <2>2, <2>3, <2>4 DEF Worker
<1> QED
  BY <1>1, <1>2 DEF StreamInv, Using, InProcess, Flushing

LEMMA StreamStep == TypeOK /\ StreamInv /\ [Next]_vars => StreamInv'
<1> SUFFICES ASSUME TypeOK, StreamInv, [Next]_vars PROVE StreamInv'
  OBVIOUS
<1>1. CASE Worker
  BY <1>1, StreamWorker
<1>2. CASE InCall
  BY <1>2, StreamSubmit, StreamAfterSubmit, StreamLookUp, StreamAdmit,
     StreamEndProcess, StreamClose DEF InCall
<1>3. CASE Call
  BY <1>3, StreamProcess, StreamFlush, StreamClose DEF Call
<1>4. CASE UNCHANGED vars
  BY <1>4 DEF vars, callerVars, sharedVars, workerVars, programVars, StreamInv,
     Using, InProcess, Flushing
<1> QED
  BY <1>1, <1>2, <1>3, <1>4 DEF Next, Over

\* A clip never mixes the frames or events of two stream generations, whether
\* the program resets the writer between them or, in share mode, hands in the
\* first frame of the new one.
THEOREM ClipsAreOfOneStream == Spec => []OneStreamPerClip
<1>1. Init => TypeOK /\ PendingBounded /\ StreamInv
  BY TypeInit, CapacityInit, StreamInit
<1>2. TypeOK /\ PendingBounded /\ StreamInv /\ [Next]_vars
        => (TypeOK /\ PendingBounded /\ StreamInv)'
  BY TypeStep, CapacityStep, StreamStep
<1>3. StreamInv => OneStreamPerClip
  BY StreamInvImplies
<1> QED
  BY <1>1, <1>2, <1>3, PTL DEF Spec

-----------------------------------------------------------------------------
(* The window of an event.  What a collecting clip lacks of it is still to *)
(* come: the frames that follow are later than its events, and in share    *)
(* mode they continue the prebuffer and every collecting clip.             *)

Consecutive(s) == \A k \in DOMAIN s : s[k].n = s[1].n + k - 1

Later(c, r) == {k \in DOMAIN c.frames : c.frames[k].n > r.n}

CoversEvent(c, r) ==
  /\ c.frames[1].n <= r.from
  /\ c.whole => Cardinality(Later(c, r)) + c.post >= Post

Covers(c) ==
  /\ Share => Consecutive(c.frames)
  /\ \A i \in DOMAIN c.records : CoversEvent(c, c.records[i])

\* The last frame used: of a call in progress it is the one in its hands, and the
\* prebuffer ends before it.
EndsAt(s, n) == s # << >> => s[Len(s)].n = n

WindowInv ==
  /\ \A c \in Held : Covers(c)
  /\ \A c \in Collecting : \A i \in DOMAIN c.records : c.records[i].n <= sequence
  /\ InProcess => frame.n = sequence
  /\ Share /\ Using =>
       /\ Consecutive(prebuffer)
       /\ EndsAt(prebuffer, IF callerPc = "idle" THEN sequence ELSE sequence - 1)
       /\ \A c \in Collecting : EndsAt(c.frames, sequence)

LEMMA LaterType ==
  ASSUME NEW c \in ClipShape, NEW r
  PROVE  /\ IsFiniteSet(Later(c, r)) /\ Cardinality(Later(c, r)) \in Nat
         /\ Later(c, r) \subseteq 1 .. Len(c.frames) /\ Len(c.frames) \in Nat
<1>1. DOMAIN c.frames = 1 .. Len(c.frames) /\ Len(c.frames) \in Nat
  BY LenProperties DEF ClipShape
<1>2. IsFiniteSet(1 .. Len(c.frames)) /\ Later(c, r) \subseteq 1 .. Len(c.frames)
  BY <1>1, FiniteInterval DEF Later
<1>3. IsFiniteSet(Later(c, r))
  BY <1>2, FS_Subset
<1> QED
  BY <1>1, <1>2, <1>3, FS_CardinalityType

\* A frame that follows continues what was consecutive.
LEMMA AppendConsecutive ==
  ASSUME NEW s \in Seq(Frames), NEW f \in Frames,
         Consecutive(s), EndsAt(s, f.n - 1)
  PROVE  /\ Append(s, f) \in Seq(Frames) /\ Append(s, f) # << >>
         /\ Consecutive(Append(s, f)) /\ EndsAt(Append(s, f), f.n)
<1> DEFINE t == Append(s, f)
<1>1. /\ t \in Seq(Frames) /\ t # << >>
      /\ Len(s) \in Nat /\ DOMAIN s = 1 .. Len(s) /\ Len(t) = Len(s) + 1
      /\ DOMAIN t = 1 .. Len(s) + 1
      /\ \A k \in 1 .. Len(s) : t[k] = s[k]
      /\ t[Len(s) + 1] = f
  BY AppendProperties, LenProperties
<1>2. f.n \in Nat /\ \A k \in 1 .. Len(s) : s[k].n \in Nat
  <2>1. \A k \in 1 .. Len(s) : s[k] \in Frames
    BY ElementOfSeq
  <2> QED
    BY <2>1 DEF Frames
<1> HIDE DEF t
<1>3. Consecutive(t)
  <2>1. CASE Len(s) = 0
    BY <1>1, <1>2, <2>1 DEF Consecutive
  <2>2. CASE Len(s) # 0
    <3>1. s # << >> /\ 1 \in 1 .. Len(s) /\ Len(s) \in 1 .. Len(s)
      BY <1>1, <2>2, EmptySeq
    <3>2. s[Len(s)].n = f.n - 1 /\ s[Len(s)].n = s[1].n + Len(s) - 1
      BY <1>1, <3>1 DEF EndsAt, Consecutive
    <3>3. ASSUME NEW k \in 1 .. Len(s) + 1
          PROVE  t[k].n = t[1].n + k - 1
      <4>1. CASE k = Len(s) + 1
        <5>1. t[k].n = f.n /\ t[1].n = s[1].n /\ s[1].n \in Nat
          BY <1>1, <1>2, <3>1, <4>1
        <5>2. f.n = s[1].n + Len(s) - 1 + 1
          BY <1>1, <1>2, <3>1, <3>2
        <5> QED
          BY <1>1, <4>1, <5>1, <5>2
      <4>2. CASE k \in 1 .. Len(s)
        <5>1. s[k].n = s[1].n + k - 1
          BY <1>1, <4>2 DEF Consecutive
        <5> QED
          BY <1>1, <3>1, <4>2, <5>1
      <4> QED
        BY <1>1, <4>1, <4>2
    <3> QED
      BY <1>1, <3>3 DEF Consecutive
  <2> QED
    BY <2>1, <2>2
<1>4. EndsAt(t, f.n)
  BY <1>1 DEF EndsAt
<1> QED
  BY <1>1, <1>3, <1>4 DEF t

LEMMA TailConsecutive ==
  ASSUME NEW s \in Seq(Frames), s # << >>, Consecutive(s), NEW n, EndsAt(s, n)
  PROVE  Consecutive(Tail(s)) /\ EndsAt(Tail(s), n)
<1>1. /\ Len(s) \in Nat /\ Len(s) > 0 /\ DOMAIN s = 1 .. Len(s)
      /\ Tail(s) \in Seq(Frames) /\ Len(Tail(s)) = Len(s) - 1
      /\ \A k \in 1 .. Len(s) - 1 : Tail(s)[k] = s[k + 1]
  BY HeadTailProperties, LenProperties, EmptySeq
<1>2. DOMAIN Tail(s) = 1 .. Len(s) - 1
  BY <1>1, LenProperties
<1>3. \A k \in 1 .. Len(s) : s[k].n = s[1].n + k - 1 /\ s[k].n \in Nat
  <2>1. \A k \in 1 .. Len(s) : s[k] \in Frames
    BY ElementOfSeq
  <2> QED
    BY <1>1, <2>1 DEF Consecutive, Frames
<1>4. ASSUME NEW k \in 1 .. Len(s) - 1
      PROVE  Tail(s)[k].n = Tail(s)[1].n + k - 1
  <2>1. 1 \in 1 .. Len(s) - 1 /\ k + 1 \in 1 .. Len(s) /\ 2 \in 1 .. Len(s)
    BY <1>1
  <2>2. Tail(s)[k].n = s[k + 1].n /\ Tail(s)[1].n = s[2].n
    BY <1>1, <2>1
  <2>3. /\ s[k + 1].n = s[1].n + (k + 1) - 1 /\ s[2].n = s[1].n + 2 - 1
        /\ s[1].n \in Nat
    BY <1>3, <2>1, <1>1
  <2> QED
    BY <2>2, <2>3
<1>5. ASSUME Tail(s) # << >>
      PROVE  Tail(s)[Len(Tail(s))].n = n
  <2>1. Len(s) - 1 \in 1 .. Len(s) - 1
    <3>1. Len(Tail(s)) # 0
      BY <1>1, <1>5, EmptySeq
    <3> QED
      BY <1>1, <3>1
  <2> QED
    BY <1>1, <2>1 DEF EndsAt
<1> QED
  BY <1>2, <1>4, <1>5 DEF Consecutive, EndsAt

-----------------------------------------------------------------------------
(* Each thing a step can make of a clip.                                   *)

LEMMA ExtendedCovers ==
  ASSUME TypeOK, StreamInv, WindowInv, NEW c, Extended(c)
  PROVE  /\ Covers(c) /\ \A i \in DOMAIN c.records : c.records[i].n <= sequence'
         /\ Share => EndsAt(c.frames, sequence')
<1>1. PICK a \in Collecting :
        /\ callerPc = "idle" /\ frame' \in Frames
        /\ frame'.n = sequence' /\ sequence' > sequence
        /\ Share /\ tracking => frame'.n = sequence + 1
        /\ a.post # 0 /\ c = [a EXCEPT !.frames = Append(@, frame'), !.post = @ - 1]
  BY DEF Extended
<1> DEFINE f == frame'
           L == Len(a.frames)
<1>2. /\ a \in ClipShape /\ a \in Held /\ a.records \in Seq(Members)
      /\ a.frames \in Seq(Frames) /\ a.frames # << >> /\ a.post \in Nat
      /\ L \in Nat /\ sequence \in Nat
  BY <1>1, CollectingType, WindowFacts, LenProperties
     DEF LiveClips, ClipShape, Held, TypeOK
<1>3. /\ c.frames = Append(a.frames, f) /\ c.post = a.post - 1
      /\ c.records = a.records /\ c.whole = a.whole
  BY <1>1, <1>2 DEF ClipShape
<1>4. /\ DOMAIN a.frames = 1 .. L /\ DOMAIN c.frames = 1 .. L + 1
      /\ \A k \in 1 .. L : c.frames[k] = a.frames[k]
      /\ c.frames[L + 1] = f /\ 1 \in 1 .. L
  BY <1>1, <1>2, <1>3, AppendProperties, LenProperties, EmptySeq
<1>5. ASSUME Share
      PROVE  Consecutive(c.frames) /\ EndsAt(c.frames, sequence')
  <2>1. tracking
    <3>1. active # << >>
      BY <1>1 DEF Collecting
    <3> QED
      BY <1>1, <3>1 DEF StreamInv
  <2>2. Consecutive(a.frames) /\ EndsAt(a.frames, sequence)
    BY <1>1, <1>2, <1>5 DEF WindowInv, Covers, Using
  <2>3. EndsAt(a.frames, f.n - 1)
    BY <1>1, <1>2, <1>5, <2>1, <2>2
  <2> QED
    BY <1>1, <1>2, <1>3, <2>2, <2>3, AppendConsecutive
<1>6. ASSUME NEW i \in DOMAIN c.records
      PROVE  CoversEvent(c, c.records[i]) /\ c.records[i].n <= sequence'
  <2> DEFINE r == a.records[i]
  <2>1. r \in Members /\ r.n <= sequence /\ r.n \in Nat /\ CoversEvent(a, r)
    <3>1. i \in DOMAIN a.records
      BY <1>3
    <3>2. r \in Members
      BY <1>2, <3>1, ElementOfSeq, LenProperties
    <3> QED
      BY <1>1, <1>2, <3>1, <3>2 DEF WindowInv, Covers, Members
  <2>2. Later(c, r) = Later(a, r) \cup {L + 1}
    <3>1. f.n > r.n
      BY <1>1, <1>2, <2>1 DEF Frames
    <3> QED
      BY <1>2, <1>4, <3>1 DEF Later
  <2>3. /\ IsFiniteSet(Later(a, r)) /\ L + 1 \notin Later(a, r)
        /\ Cardinality(Later(a, r)) \in Nat
    BY <1>2, LaterType
  <2>4. Cardinality(Later(c, r)) = Cardinality(Later(a, r)) + 1
    BY <2>2, <2>3, FS_AddElement
  <2>5. c.whole => Cardinality(Later(c, r)) + c.post >= Post
    BY <1>2, <1>3, <2>1, <2>3, <2>4, ClipAssumption DEF CoversEvent
  <2>6. c.frames[1].n <= r.from
    BY <1>4, <2>1 DEF CoversEvent
  <2>7. r.n <= sequence'
    BY <1>1, <1>2, <2>1 DEF Frames
  <2> QED
    BY <1>3, <2>5, <2>6, <2>7 DEF CoversEvent
<1> QED
  BY <1>5, <1>6 DEF Covers

LEMMA CutShortCovers ==
  ASSUME TypeOK, WindowInv, NEW c, CutShort(c)
  PROVE  Covers(c) /\ \A i \in DOMAIN c.records : c.records[i].n <= sequence
<1>1. PICK a \in Collecting : c = [a EXCEPT !.post = 0, !.whole = FALSE]
  BY DEF CutShort
<1>2. a \in ClipShape /\ a \in Held
  BY CollectingType DEF LiveClips, Held
<1>3. c.frames = a.frames /\ c.records = a.records /\ ~ c.whole
  BY <1>1, <1>2 DEF ClipShape
<1> QED
  BY <1>2, <1>3 DEF WindowInv, Covers, CoversEvent

LEMMA WidenedCovers ==
  ASSUME TypeOK, WindowInv, NEW c, Widened(c)
  PROVE  /\ Covers(c) /\ \A i \in DOMAIN c.records : c.records[i].n <= sequence
         /\ Share /\ Using => EndsAt(c.frames, sequence)
<1>1. PICK a \in Collecting, id \in EventIds :
        /\ callerPc = "admit" /\ Joinable(a)
        /\ c = [a EXCEPT !.records = Append(@, Member(id)), !.post = Post]
  BY DEF Widened
<1>2. /\ a \in ClipShape /\ a \in Held /\ a.records \in Seq(Members)
      /\ a.frames \in Seq(Frames) /\ a.frames # << >>
      /\ Member(id) \in Members /\ frame \in Frames
  BY CollectingType, MemberType DEF LiveClips, ClipShape, Held, TypeOK
<1>3. /\ c.frames = a.frames /\ c.post = Post /\ c.whole = a.whole
      /\ c.records = Append(a.records, Member(id))
  BY <1>1, <1>2 DEF ClipShape
<1>4. /\ DOMAIN a.records = 1 .. Len(a.records) /\ Len(a.records) \in Nat
      /\ DOMAIN c.records = 1 .. Len(a.records) + 1
      /\ \A i \in 1 .. Len(a.records) : c.records[i] = a.records[i]
      /\ c.records[Len(a.records) + 1] = Member(id)
  BY <1>2, <1>3, AppendProperties, LenProperties
<1>5. \A r : Cardinality(Later(c, r)) \in Nat
  BY <1>2, <1>3, LaterType DEF Later
<1>6. \A r : Cardinality(Later(c, r)) + c.post >= Post
  BY <1>3, <1>5, ClipAssumption
<1>7. ASSUME NEW i \in 1 .. Len(a.records)
      PROVE  CoversEvent(c, c.records[i]) /\ c.records[i].n <= sequence
  BY <1>2, <1>3, <1>4, <1>6 DEF WindowInv, Covers, CoversEvent
<1>8. CoversEvent(c, Member(id)) /\ Member(id).n <= sequence
  <2>1. Member(id).n = frame.n /\ frame.n = sequence /\ sequence \in Nat
    BY <1>1 DEF Member, WindowInv, InProcess, TypeOK
  <2>2. a.frames[1].n <= Member(id).from
    <3>1. Head(a.frames) = a.frames[1]
      BY <1>2, HeadTailProperties
    <3> QED
      BY <1>1, <3>1 DEF Joinable, Member
  <2> QED
    BY <1>3, <1>6, <2>1, <2>2 DEF CoversEvent
<1>9. \A i \in DOMAIN c.records : CoversEvent(c, c.records[i]) /\ c.records[i].n <= sequence
  BY <1>4, <1>7, <1>8
<1> QED
  BY <1>1, <1>2, <1>3, <1>9 DEF WindowInv, Covers

LEMMA BegunCovers ==
  ASSUME TypeOK, WindowInv, NEW c, Begun(c)
  PROVE  /\ Covers(c) /\ \A i \in DOMAIN c.records : c.records[i].n <= sequence
         /\ Share => EndsAt(c.frames, sequence)
<1>1. PICK id \in EventIds : callerPc = "admit" /\ c = NewClip(id)
  BY DEF Begun
<1>2. /\ c.frames = Append(prebuffer, frame) /\ c.post = Post
      /\ c.records = <<Member(id)>> /\ c \in ClipShape
      /\ prebuffer \in Seq(Frames) /\ frame \in Frames
  BY <1>1, NewClipType DEF NewClip, LiveClips, TypeOK
<1>3. frame.n = sequence /\ sequence \in Nat /\ InProcess /\ Using /\ callerPc # "idle"
  BY <1>1 DEF WindowInv, InProcess, Using, TypeOK
<1>4. ASSUME Share
      PROVE  Consecutive(c.frames) /\ EndsAt(c.frames, sequence)
  <2>1. Consecutive(prebuffer) /\ EndsAt(prebuffer, frame.n - 1)
    BY <1>3, <1>4 DEF WindowInv
  <2> QED
    BY <1>2, <1>3, <2>1, AppendConsecutive
<1>5. c.frames[1].n = Member(id).from
  <2>1. /\ Len(prebuffer) \in Nat
        /\ \A k \in 1 .. Len(prebuffer) : c.frames[k] = prebuffer[k]
        /\ c.frames[Len(prebuffer) + 1] = frame
    BY <1>2, AppendProperties, LenProperties
  <2>2. CASE prebuffer = << >>
    BY <2>1, <2>2, EmptySeq DEF Member
  <2>3. CASE prebuffer # << >>
    <3>1. 1 \in 1 .. Len(prebuffer) /\ Head(prebuffer) = prebuffer[1]
      BY <1>2, <2>1, <2>3, EmptySeq, HeadTailProperties
    <3> QED
      BY <2>1, <2>3, <3>1 DEF Member
  <2> QED
    BY <2>2, <2>3
<1>6. Member(id) \in Members
  BY MemberType
<1>7. Cardinality(Later(c, Member(id))) + c.post >= Post
  BY <1>2, LaterType, ClipAssumption
<1>8. CoversEvent(c, Member(id)) /\ Member(id).n <= sequence
  BY <1>3, <1>5, <1>6, <1>7 DEF CoversEvent, Member, Members
<1>9. \A i \in DOMAIN c.records : c.records[i] = Member(id)
  BY <1>2
<1> QED
  BY <1>4, <1>8, <1>9 DEF Covers

-----------------------------------------------------------------------------
(* The steps.                                                              *)

LEMMA HeldCovers ==
  ASSUME TypeOK, TypeOK', StreamInv, WindowInv, [Next]_vars
  PROVE  /\ \A c \in Held' : Covers(c)
         /\ \A c \in Collecting' : \A i \in DOMAIN c.records : c.records[i].n <= sequence'
<1>1. Covers(NoClip)
  BY DEF NoClip, Covers, Consecutive
<1>2. sequence \in Nat /\ sequence' \in Nat /\ sequence' >= sequence
  <2>1. CASE \E batch \in Batches, skipped \in 0 .. 1,
                gen \in generation .. generation + 1 : Process(batch, skipped, gen)
    BY <2>1 DEF Process, TypeOK, programVars
  <2>2. CASE UNCHANGED sequence
    BY <2>2 DEF TypeOK
  <2> QED
    BY <2>1, <2>2 DEF Next, InCall, Call, Over, Worker, TakeJob, WorkerStops,
       RemoveFinal, RenameToFinal, ReportJob, EncodeFails, SubmitClip, Rejoin,
       ToRecords, LookUpCompleted, Admit, AdmitDuplicate, AdmitShared, AdmitRefused,
       AdmitOnDisk, AdmitNew, Admitting, EndProcess, EndReset, RequestStop, Joined,
       Destroyed, Reset, Finish, Destroy, vars, programVars
<1>3. ASSUME NEW c \in Collecting', NEW i \in DOMAIN c.records
      PROVE  c.records[i].n <= sequence'
  <2>1. c.records[i].n \in Nat
    <3>1. active' \in Seq(LiveClips)
      BY DEF TypeOK
    <3>2. c \in LiveClips
      BY <3>1, ElementOfSeq, LenProperties DEF Collecting
    <3>3. c.records[i] \in Members
      BY <3>2, ElementOfSeq, LenProperties DEF LiveClips, ClipShape
    <3> QED
      BY <3>3 DEF Members
  <2>2. CASE Extended(c)
    BY <2>2, ExtendedCovers
  <2>3. CASE c \in Collecting
    <3>1. c.records[i].n <= sequence
      BY <2>3 DEF WindowInv
    <3> QED
      BY <1>2, <2>1, <3>1
  <2>4. CASE CutShort(c) \/ Widened(c) \/ Begun(c)
    <3>1. c.records[i].n <= sequence
      BY <2>4, CutShortCovers, WidenedCovers, BegunCovers
    <3> QED
      BY <1>2, <2>1, <3>1
  <2>5. c \in Held'
    BY DEF Held
  <2> QED
    BY <2>2, <2>3, <2>4, <2>5, ClipOrigins
<1>4. ASSUME NEW c \in Held'
      PROVE  Covers(c)
  <2>1. CASE c \in Held
    BY <2>1 DEF WindowInv
  <2> QED
    BY <1>1, <2>1, ClipOrigins, ExtendedCovers, CutShortCovers, WidenedCovers,
       BegunCovers
<1> QED
  BY <1>3, <1>4

\* Whatever the caller holds of a frame is of the last one handed in.
LEMMA FrameStep ==
  ASSUME TypeOK, WindowInv, [Next]_vars
  PROVE  InProcess' => frame'.n = sequence'
<1>1. CASE \E batch \in Batches, skipped \in 0 .. 1,
              gen \in generation .. generation + 1 : Process(batch, skipped, gen)
  <2>1. PICK batch \in Batches, skipped \in 0 .. 1,
             gen \in generation .. generation + 1 : Process(batch, skipped, gen)
    BY <1>1
  <2>2. callerPc' = "failed" \/ frame'.n = sequence'
    BY <2>1 DEF Process
  <2> QED
    BY <2>2 DEF InProcess
<1>2. CASE Reset \/ Finish
  BY <1>2 DEF Reset, Finish, InProcess
<1>3. CASE \/ EndProcess \/ EndReset \/ RequestStop \/ Joined \/ Destroyed \/ Destroy
           \/ Over
  BY <1>3 DEF EndProcess, EndReset, RequestStop, Joined, Destroyed, Destroy, Over,
     ReturnTo, InProcess, vars
<1>4. CASE SubmitClip
  BY <1>4 DEF SubmitClip, InProcess, WindowInv, programVars
<1>5. CASE Rejoin \/ ToRecords \/ LookUpCompleted
  BY <1>5 DEF Rejoin, ToRecords, LookUpCompleted, Submitted, InProcess, WindowInv,
     callerVars, programVars
<1>6. CASE Admit
  <2>1. callerPc = "admit" /\ UNCHANGED <<frame, sequence>>
    BY <1>6 DEF Admit, AdmitDuplicate, AdmitShared, AdmitRefused, AdmitOnDisk,
       AdmitNew, Admitting, programVars
  <2> QED
    BY <2>1 DEF InProcess, WindowInv
<1>7. CASE Worker \/ UNCHANGED vars
  <2>1. UNCHANGED <<callerPc, after, frame, sequence>>
    BY <1>7 DEF Worker, TakeJob, WorkerStops, RemoveFinal, RenameToFinal, ReportJob,
       EncodeFails, vars, callerVars, programVars
  <2> QED
    BY <2>1 DEF InProcess, WindowInv
<1> QED
  BY <1>1, <1>2, <1>3, <1>4, <1>5, <1>6, <1>7 DEF Next, InCall, Call, Over

\* What is buffered and collected in share mode has no hole and ends at the last
\* frame: a discontinuity has emptied both.
Unbroken ==
  /\ Consecutive(prebuffer)
  /\ EndsAt(prebuffer, IF callerPc = "idle" THEN sequence ELSE sequence - 1)
  /\ \A c \in Collecting : EndsAt(c.frames, sequence)

LEMMA UnbrokenStep ==
  ASSUME TypeOK, StreamInv, WindowInv, [Next]_vars, Share, Using'
  PROVE  Unbroken'
<1>0. Using => Unbroken
  BY DEF WindowInv, Unbroken
<1>1. CASE \E batch \in Batches, skipped \in 0 .. 1,
              gen \in generation .. generation + 1 : Process(batch, skipped, gen)
  <2>1. PICK batch \in Batches, skipped \in 0 .. 1,
             gen \in generation .. generation + 1 : Process(batch, skipped, gen)
    BY <1>1
  <2>2. /\ callerPc = "idle" /\ callerPc' = "submit" /\ after' = "records"
        /\ UNCHANGED prebuffer /\ sequence \in Nat
    BY <2>1 DEF Process, Using, TypeOK
  <2>3. \A c \in Collecting' : Extended(c)
    BY <2>1, <2>2, ExtendedOrigin
  <2>4. \A c \in Collecting' : EndsAt(c.frames, sequence')
    BY <2>3, ExtendedCovers
  <2>5. EndsAt(prebuffer, sequence' - 1)
    <3> DEFINE f == [n |-> sequence + skipped + 1, gen |-> gen]
    <3>1. sequence' = f.n /\ ~ Discontinuous(f)
      BY <2>1, <2>2 DEF Process
    <3>2. CASE tracking
      <4>1. f.n = sequence + 1
        BY <3>1, <3>2 DEF Discontinuous
      <4>2. EndsAt(prebuffer, sequence)
        BY <1>0, <2>2 DEF Using, Unbroken
      <4> QED
        BY <2>2, <3>1, <4>1, <4>2
    <3>3. CASE ~ tracking
      BY <2>2, <3>3 DEF StreamInv, EndsAt
    <3> QED
      BY <3>2, <3>3
  <2> QED
    BY <1>0, <2>2, <2>4, <2>5 DEF Unbroken, Using
<1>2. CASE SubmitClip
  <2>1. /\ callerPc = "submit" /\ callerPc' \in {"submit", "failed"}
        /\ UNCHANGED <<prebuffer, after, sequence>>
    BY <1>2 DEF SubmitClip, programVars
  <2>2. Using /\ callerPc' = "submit"
    BY <2>1 DEF Using
  <2>3. \A c \in Collecting' : c \in Collecting
    BY <1>2, SubmittedOrigin DEF Held
  <2> QED
    BY <1>0, <2>1, <2>2, <2>3 DEF Unbroken
<1>3. CASE Rejoin \/ EndReset
  <2>1. active = << >>
    BY <1>3, FlushedIsEmpty DEF Rejoin, EndReset, Submitted, Flushing
  <2>2. prebuffer' = << >> /\ Collecting' = {}
    BY <1>3, <2>1 DEF Rejoin, EndReset, Collecting
  <2> QED
    BY <2>2 DEF Unbroken, Consecutive, EndsAt
<1>4. CASE ToRecords \/ LookUpCompleted
  <2>1. /\ Using /\ callerPc # "idle" /\ callerPc' # "idle"
        /\ UNCHANGED <<prebuffer, active, sequence>>
    BY <1>4 DEF ToRecords, LookUpCompleted, Submitted, Using, callerVars, programVars
  <2> QED
    BY <1>0, <2>1 DEF Unbroken, Collecting
<1>5. CASE Admit
  <2>1. /\ callerPc = "admit" /\ callerPc' # "idle" /\ Using
        /\ UNCHANGED <<prebuffer, sequence>>
    BY <1>5 DEF Admit, AdmitDuplicate, AdmitShared, AdmitRefused, AdmitOnDisk,
       AdmitNew, Admitting, programVars, Using
  <2>2. \A c \in Collecting' : EndsAt(c.frames, sequence)
    BY <1>0, <1>5, <2>1, AdmittedOrigin, WidenedCovers, BegunCovers DEF Unbroken
  <2> QED
    BY <1>0, <2>1, <2>2 DEF Unbroken
<1>6. CASE EndProcess
  <2>1. /\ callerPc = "records" /\ callerPc' = "idle" /\ prebuffer' = Buffered
        /\ UNCHANGED <<active, sequence>> /\ Using /\ InProcess
    BY <1>6 DEF EndProcess, ReturnTo, Using, InProcess
  <2>2. frame.n = sequence /\ prebuffer \in Seq(Frames) /\ frame \in Frames
    BY <2>1 DEF WindowInv, TypeOK
  <2> DEFINE longer == Append(prebuffer, frame)
  <2>3. /\ longer \in Seq(Frames) /\ longer # << >>
        /\ Consecutive(longer) /\ EndsAt(longer, sequence)
    BY <1>0, <2>1, <2>2, AppendConsecutive DEF Unbroken
  <2>4. Consecutive(Tail(longer)) /\ EndsAt(Tail(longer), sequence)
    BY <2>3, TailConsecutive
  <2>5. Consecutive(prebuffer') /\ EndsAt(prebuffer', sequence)
    BY <2>1, <2>3, <2>4 DEF Buffered
  <2> QED
    BY <1>0, <2>1, <2>5 DEF Unbroken, Collecting
<1>7. CASE Reset \/ Finish
  BY <1>7 DEF Reset, Finish, Using
<1>8. CASE RequestStop \/ Joined \/ Destroyed \/ Destroy
  BY <1>8 DEF RequestStop, Joined, Destroyed, Destroy, ReturnTo, Using
<1>9. CASE Worker \/ Over \/ UNCHANGED vars
  <2>1. UNCHANGED <<callerPc, after, prebuffer, active, sequence>>
    BY <1>9 DEF Worker, TakeJob, WorkerStops, RemoveFinal, RenameToFinal, ReportJob,
       EncodeFails, Over, vars, callerVars, programVars
  <2> QED
    BY <1>0, <2>1 DEF Unbroken, Using, Collecting
<1> QED
  BY <1>1, <1>2, <1>3, <1>4, <1>5, <1>6, <1>7, <1>8, <1>9 DEF Next, InCall, Call

LEMMA WindowStep ==
  ASSUME TypeOK, TypeOK', StreamInv, WindowInv, [Next]_vars
  PROVE  WindowInv'
<1>1. Share /\ Using' => Unbroken'
  BY UnbrokenStep
<1> QED
  BY <1>1, HeldCovers, FrameStep DEF WindowInv, Unbroken

LEMMA WindowInit == Init => WindowInv
<1> SUFFICES ASSUME Init PROVE WindowInv
  OBVIOUS
<1>1. Held = {NoClip} /\ Collecting = {}
  BY DEF Init, Held, Collecting
<1>2. Covers(NoClip)
  BY DEF NoClip, Covers, Consecutive
<1>3. ~ InProcess /\ prebuffer = << >>
  BY DEF Init, InProcess
<1> QED
  BY <1>1, <1>2, <1>3 DEF WindowInv, Consecutive, EndsAt

\* A clip shows what was asked for: it reaches back to the oldest frame that was
\* buffered before each of its events and, unless it is cut short, as far beyond
\* them as the post window, whichever events join it and in whichever order; a
\* shared clip has no hole (advance_active, start_clip).
THEOREM WindowsAreCovered == Spec => []WindowCovered
<1>1. Init => TypeOK /\ PendingBounded /\ StreamInv /\ WindowInv
  BY TypeInit, CapacityInit, StreamInit, WindowInit
<1>2. TypeOK /\ PendingBounded /\ StreamInv /\ WindowInv /\ [Next]_vars
        => (TypeOK /\ PendingBounded /\ StreamInv /\ WindowInv)'
  BY TypeStep, CapacityStep, StreamStep, WindowStep
<1>3. TypeOK /\ WindowInv => WindowCovered
  <2> SUFFICES ASSUME TypeOK, WindowInv, NEW c \in Clips
               PROVE  /\ Share => \A i \in DOMAIN c.frames :
                                    c.frames[i].n = Head(c.frames).n + i - 1
                      /\ \A i \in DOMAIN c.records :
                           /\ Head(c.frames).n <= c.records[i].from
                           /\ c.whole =>
                                Cardinality(Later(c, c.records[i])) + c.post >= Post
    BY DEF WindowCovered, Later
  <2>1. c \in Held /\ c \in ClipShape /\ Covers(c)
    BY ClipsAreHeld, CollectingType DEF WindowInv
  <2>2. Head(c.frames) = c.frames[1]
    BY DEF Head
  <2> QED
    BY <2>1, <2>2 DEF Covers, Consecutive, CoversEvent
<1> QED
  BY <1>1, <1>2, <1>3, PTL DEF Spec
=============================================================================
