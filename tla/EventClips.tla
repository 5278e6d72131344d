----------------------------- MODULE EventClips -----------------------------
(***************************************************************************)
(* EventClipWriter (src/event_clip_writer.cpp): the inference loop's       *)
(* thread hands in one frame at a time with the events found in it; a clip *)
(* collects the frames around an event and is then queued for the encoder  *)
(* thread, and an event's record is published (returned, for the journal)  *)
(* only when its clip is on disk, or when it was refused one.              *)
(*                                                                         *)
(* callerPc is the position of the caller inside process, reset, finish or *)
(* the destructor; the encoder thread steps between any two of its         *)
(* critical sections.  Steps that touch only the caller's own members are  *)
(* folded into the critical section they follow.  A clip of active_ whose  *)
(* post window is over is due: the caller's loop submits the due clips one *)
(* at a time, in their order, before it goes on.                           *)
(***************************************************************************)
EXTENDS Integers, Sequences, FiniteSets, SequencesExt

CONSTANTS
  Pre, Post,           \* pre_event_frames_, post_event_frames_
  MaxActive,           \* max_active_clips
  QueueCapacity,       \* encoding_queue_capacity
  Share,               \* share_overlapping
  MaxSharedFrames,     \* max_shared_frames_
  MaxEventsPerClip,    \* max_events_per_clip
  EncoderFails,        \* may an encode throw
  Resubmit,            \* may one event be handed in a second time
  MaxFrames,           \* bound: the last frame's sequence number
  MaxEvents,           \* bound: distinct events
  MaxPerFrame,         \* bound: events in one frame
  MaxStreams           \* bound: stream generations after the first

ASSUME ClipAssumption ==
  /\ Pre \in Nat /\ Post \in Nat
  /\ MaxActive \in Nat \ {0} /\ QueueCapacity \in Nat \ {0}
  /\ Share \in BOOLEAN /\ EncoderFails \in BOOLEAN /\ Resubmit \in BOOLEAN
  /\ MaxSharedFrames \in Nat /\ MaxEventsPerClip \in Nat \ {0}
  /\ Share => MaxSharedFrames >= Pre + Post + 1
  /\ MaxFrames \in Nat /\ MaxEvents \in Nat
  /\ MaxPerFrame \in Nat /\ MaxStreams \in Nat

EventIds == 1 .. MaxEvents

\* A clip's file is named after its first event; 0 is the null clip path.
Paths == 0 .. MaxEvents

\* The caller's thread.
VARIABLES
  callerPc,
  prebuffer,        \* prebuffer_: the newest Pre frames since the last break
  active,           \* active_: clips still collecting frames, or due
  after,            \* what follows once no clip is due
  pending,          \* records of this call not yet given to start_clip
  returning,        \* the local vector `completed`, to be returned
  frame,            \* the frame of this call
  tracking          \* last_sequence_ has a value

\* Shared with the encoder thread, under mutex_.
VARIABLES
  queue,            \* queue_
  encodingIds,      \* encoding_ids_
  encodingJobs,     \* encoding_jobs_
  completedPaths,   \* completed_paths_
  completed,        \* completed_
  workerError,      \* worker_error_ is set
  stopRequested,    \* stop_requested_
  stats             \* stats_

\* The encoder thread, and the clip directory.
VARIABLES
  workerPc,
  job,              \* the job in the encoder's hands
  files             \* the final paths at which a verified clip exists

\* The program around the writer.
VARIABLES
  sequence,         \* the last frame's sequence number
  generation,       \* stream generation of the frames handed in
  nextId,           \* events made so far, plus one
  published,        \* the records returned so far: what the journal receives
  resubmitted       \* an event has been handed in again

callerVars == <<prebuffer, active, after, pending, returning, frame,
                tracking>>
sharedVars == <<queue, encodingIds, encodingJobs, completedPaths, completed,
                workerError, stopRequested, stats>>
workerVars == <<workerPc, job, files>>
programVars == <<sequence, generation, nextId, published, resubmitted>>
vars == <<callerPc, callerVars, sharedVars, workerVars, programVars>>

NoFrame == [n |-> 0, gen |-> 0]
NoClip == [records |-> <<>>, frames |-> <<>>, post |-> 0, whole |-> TRUE]

Init ==
  /\ callerPc = "idle"
  /\ prebuffer = <<>> /\ active = <<>> /\ after = "none"
  /\ pending = <<>> /\ returning = <<>> /\ frame = NoFrame /\ tracking = FALSE
  /\ queue = <<>> /\ encodingIds = {} /\ encodingJobs = 0
  /\ completedPaths = {} /\ completed = <<>>
  /\ workerError = FALSE /\ stopRequested = FALSE
  /\ stats = [started |-> 0, shared |-> 0, reused |-> 0, capacity |-> 0,
              queueFull |-> 0, workerQueue |-> 0, events |-> 0, clips |-> 0,
              pendingHigh |-> 0]
  /\ workerPc = "wait" /\ job = NoClip
  /\ files \in {{}, EventIds \cap {1}}   \* a clip of an earlier run may exist
  /\ sequence = 0 /\ generation = 0 /\ nextId = 1
  /\ published = <<>> /\ resubmitted = FALSE

-----------------------------------------------------------------------------
Ids(records) == {records[i].id : i \in DOMAIN records}
AllIds(clips) == UNION {Ids(clips[i].records) : i \in DOMAIN clips}
EventsIn(clips) ==
  Cardinality(UNION {{i} \X DOMAIN clips[i].records : i \in DOMAIN clips})

\* A record as it is published: its event and its clip's path.
WithPath(records, path) ==
  [i \in DOMAIN records |-> [id |-> records[i].id, path |-> path]]

\* Mutated: what the encoder completed during the call is dropped.
ReturnTo_DropsLate(pc) ==
  IF workerError
  THEN /\ callerPc' = "failed"
       /\ completed' = <<>> /\ returning' = <<>>
       /\ UNCHANGED published
  ELSE /\ callerPc' = pc
       /\ published' = published \o returning
       /\ completed' = <<>> /\ returning' = <<>>

\* A call ends: by an exception, losing the local vector, if the encoder has
\* failed, and else by returning the vector and what is completed by now.
ReturnTo(pc) ==
  IF workerError
  THEN /\ callerPc' = "failed"
       /\ completed' = <<>> /\ returning' = <<>>
       /\ UNCHANGED published
  ELSE /\ callerPc' = pc
       /\ published' = published \o returning \o completed
       /\ completed' = <<>> /\ returning' = <<>>

-----------------------------------------------------------------------------
(* process()                                                               *)

Due(clips) == {i \in DOMAIN clips : clips[i].post = 0}

\* advance_active: every collecting clip receives the frame, which may be the
\* last of its post window.
Advanced(f) ==
  [i \in DOMAIN active |->
    [active[i] EXCEPT !.frames = Append(@, f), !.post = @ - 1]]

\* submit_all_active: every clip is finished early.
Flushed ==
  [i \in DOMAIN active |-> [active[i] EXCEPT !.post = 0, !.whole = FALSE]]

\* In share mode a frame that does not continue the last one ends the stream.
Discontinuous(f) ==
  tracking /\ (f.n # sequence + 1 \/ f.gen # generation)

\* The records of a call: new events, or one that was handed in before.
Batches ==
  {[i \in 1 .. k |-> nextId + i - 1] : k \in 0 .. MaxPerFrame}
    \cup (IF Resubmit /\ ~ resubmitted THEN {<<id>> : id \in 1 .. nextId - 1}
                                        ELSE {})

\* The call's first critical sections: an earlier encoder failure is thrown,
\* and in share mode a discontinuity of sequence, time, generation or size
\* finishes every clip before the frame is used.
Process(batch, skipped, gen) ==
  /\ callerPc = "idle"
  /\ sequence + skipped < MaxFrames
  /\ \A i \in DOMAIN batch : batch[i] \in EventIds
  /\ gen <= MaxStreams
  /\ gen # generation => Share
  /\ LET f == [n |-> sequence + skipped + 1, gen |-> gen]
     IN  IF workerError
         THEN /\ callerPc' = "failed"
              /\ UNCHANGED <<callerVars, completed, programVars>>
         ELSE /\ frame' = f
              /\ sequence' = f.n
              /\ generation' = gen
              /\ tracking' = TRUE
              /\ pending' = batch
              /\ nextId' = IF batch # <<>> /\ Last(batch) >= nextId
                           THEN Last(batch) + 1 ELSE nextId
              /\ resubmitted' = (resubmitted \/ \E i \in DOMAIN batch : batch[i] < nextId)
              /\ returning' = completed
              /\ completed' = <<>>
              /\ IF Share /\ Discontinuous(f)
                 THEN active' = Flushed /\ after' = "rejoin"
                 ELSE active' = Advanced(f) /\ after' = "records"
              /\ callerPc' = "submit"
              /\ UNCHANGED <<prebuffer, published>>
  /\ UNCHANGED <<queue, encodingIds, encodingJobs, completedPaths, workerError,
                 stopRequested, stats, workerVars>>

\* The encoding queue is full: the records are returned without a clip.
Refuse(lost) ==
  /\ returning' = returning \o WithPath(lost, 0)
  /\ stats' = [stats EXCEPT !.queueFull = @ + Len(lost)]

\* submit(): one clip is handed to the encoder, or refused when the queue is
\* full; its events are then published without a clip.
SubmitClip ==
  /\ callerPc = "submit"
  /\ \E i \in Due(active) :
       /\ \A k \in Due(active) : i <= k
       /\ active' = RemoveAt(active, i)
       /\ IF workerError
          THEN /\ callerPc' = "failed"
               /\ UNCHANGED <<returning, queue, encodingIds, encodingJobs, stats>>
          ELSE IF Len(queue) = QueueCapacity
          THEN /\ Refuse(active[i].records)
               /\ UNCHANGED <<callerPc, queue, encodingIds, encodingJobs>>
          ELSE /\ queue' = Append(queue, active[i])
               /\ encodingIds' = encodingIds \cup Ids(active[i].records)
               /\ encodingJobs' = encodingJobs + 1
               /\ UNCHANGED <<callerPc, returning, stats>>
  /\ UNCHANGED <<prebuffer, after, pending, frame, tracking, completedPaths,
                 completed, workerError, stopRequested, workerVars,
                 programVars>>

\* The caller's loop has submitted what was due in this phase of the call.
Submitted(phase) ==
  callerPc = "submit" /\ after = phase /\ Due(active) = {}

\* reset() inside process() is done; the frame then starts from nothing.
Rejoin ==
  /\ Submitted("rejoin")
  /\ prebuffer' = <<>>
  /\ IF workerError
     THEN callerPc' = "failed" /\ UNCHANGED <<returning, completed>>
     ELSE /\ callerPc' = "records"
          /\ returning' = returning \o completed
          /\ completed' = <<>>
  /\ UNCHANGED <<active, after, pending, frame, tracking, queue,
                 encodingIds, encodingJobs, completedPaths, workerError,
                 stopRequested, stats, workerVars, programVars>>

ToRecords ==
  /\ Submitted("records")
  /\ callerPc' = "records"
  /\ UNCHANGED <<callerVars, sharedVars, workerVars, programVars>>

\* start_clip, first look-up: the event's clip may be complete already.
LookUpCompleted ==
  /\ callerPc = "records"
  /\ pending # <<>>
  /\ LET known == {p \in completedPaths : p.id = Head(pending)}
     IN  IF known = {}
         THEN /\ callerPc' = "admit"
              /\ UNCHANGED <<returning, pending, stats>>
         ELSE /\ \E p \in known : returning' = Append(returning, p)
              /\ pending' = Tail(pending)
              /\ stats' = [stats EXCEPT !.reused = @ + 1]
              /\ UNCHANGED callerPc
  /\ UNCHANGED <<prebuffer, active, after, frame, tracking, queue,
                 encodingIds, encodingJobs, completedPaths, completed,
                 workerError, stopRequested, workerVars, programVars>>

\* Mutated: the length limit of a shared clip is not checked.
Joinable_Unbounded(clip) ==
  /\ Share
  /\ Len(clip.records) < MaxEventsPerClip
  /\ Head(clip.records).gen = frame.gen
  /\ Head(clip.frames).n <= frame.n
  /\ prebuffer # <<>> => Head(clip.frames).n <= Head(prebuffer).n

\* May the event join this collecting clip and extend its post window?
Joinable(clip) ==
  /\ Share
  /\ Len(clip.records) < MaxEventsPerClip
  /\ Len(clip.frames) + Post <= MaxSharedFrames
  /\ Head(clip.records).gen = frame.gen
  /\ Head(clip.frames).n <= frame.n
  /\ prebuffer # <<>> => Head(clip.frames).n <= Head(prebuffer).n

\* The record kept with a clip: the event, its frame, and the oldest frame
\* its own clip would have had.
Member(id) ==
  [id |-> id, n |-> frame.n, gen |-> frame.gen,
   from |-> IF prebuffer = <<>> THEN frame.n ELSE Head(prebuffer).n]

\* Mutated: the clips handed to the encoder are not looked at.
AlreadyRecording_OnlyActive(id) == id \in AllIds(active)

\* The event is in a collecting clip, or in one with the encoder.
AlreadyRecording(id) == id \in AllIds(active) \/ id \in encodingIds

\* Mutated: a shared clip's post window is not extended.
JoinClip_KeepsWindow(id) ==
  \E i \in DOMAIN active :
    /\ Joinable(active[i])
    /\ \A k \in 1 .. i - 1 : ~ Joinable(active[k])
    /\ active' = [active EXCEPT ![i].records = Append(@, Member(id))]

\* The event joins the first clip it may join.
JoinClip(id) ==
  \E i \in DOMAIN active :
    /\ Joinable(active[i])
    /\ \A k \in 1 .. i - 1 : ~ Joinable(active[k])
    /\ active' = [active EXCEPT ![i].records = Append(@, Member(id)),
                                ![i].post = Post]

\* Mutated: clips with the encoder do not count.
AtCapacity_OnlyActive == Len(active) >= MaxActive

\* Collecting, queued and encoding clips together use up the capacity.
AtCapacity == Len(active) + encodingJobs >= MaxActive

\* start_clip after its first look-up: one of the five alternatives below,
\* each of which takes the event from the call's list.
Admitting(id) ==
  /\ callerPc = "admit"
  /\ id = Head(pending)
  /\ pending' = Tail(pending)
  /\ after' = "records"
  /\ UNCHANGED <<prebuffer, frame, tracking, queue, encodingIds, encodingJobs,
                 completed, workerError, stopRequested, workerVars, programVars>>

CanJoin == \E i \in DOMAIN active : Joinable(active[i])

\* The event is being recorded: this one is dropped.
AdmitDuplicate ==
  \E id \in EventIds :
    /\ Admitting(id)
    /\ AlreadyRecording(id)
    /\ stats' = [stats EXCEPT !.reused = @ + 1]
    /\ callerPc' = "records"
    /\ UNCHANGED <<active, returning, completedPaths>>

AdmitShared ==
  \E id \in EventIds :
    /\ Admitting(id)
    /\ ~ AlreadyRecording(id)
    /\ JoinClip(id)
    /\ stats' = [stats EXCEPT !.shared = @ + 1]
    /\ callerPc' = "records"
    /\ UNCHANGED <<returning, completedPaths>>

\* No capacity: the record is returned without a clip.
AdmitRefused ==
  \E id \in EventIds :
    /\ Admitting(id)
    /\ ~ AlreadyRecording(id) /\ ~ CanJoin
    /\ AtCapacity
    /\ stats' = [stats EXCEPT !.capacity = @ + 1]
    /\ returning' = Append(returning, [id |-> id, path |-> 0])
    /\ callerPc' = "records"
    /\ UNCHANGED <<active, completedPaths>>

\* A verified clip of this event is on disk already.
AdmitOnDisk ==
  \E id \in EventIds :
    /\ Admitting(id)
    /\ ~ AlreadyRecording(id) /\ ~ CanJoin /\ ~ AtCapacity
    /\ id \in files
    /\ stats' = [stats EXCEPT !.reused = @ + 1]
    /\ completedPaths' = completedPaths \cup {[id |-> id, path |-> id]}
    /\ returning' = Append(returning, [id |-> id, path |-> id])
    /\ callerPc' = "records"
    /\ UNCHANGED active

NewClip(id) ==
  [records |-> <<Member(id)>>,
   frames |-> Append(prebuffer, frame),
   post |-> Post,
   whole |-> TRUE]

\* A new clip, with the frames buffered before the event; without a post
\* window it is submitted at once.
AdmitNew ==
  \E id \in EventIds :
    /\ Admitting(id)
    /\ ~ AlreadyRecording(id) /\ ~ CanJoin /\ ~ AtCapacity
    /\ id \notin files
    /\ active' = Append(active, NewClip(id))
    /\ LET depth == Len(active) + encodingJobs + 1
       IN  stats' = [stats EXCEPT !.started = @ + 1,
                       !.pendingHigh = IF depth > @ THEN depth ELSE @]
    /\ callerPc' = IF Post = 0 THEN "submit" ELSE "records"
    /\ UNCHANGED <<returning, completedPaths>>

Admit ==
  AdmitDuplicate \/ AdmitShared \/ AdmitRefused \/ AdmitOnDisk \/ AdmitNew

\* Mutated: the prebuffer is not trimmed.
Buffered_Untrimmed == Append(prebuffer, frame)

\* push_prebuffer
Buffered ==
  LET longer == Append(prebuffer, frame)
  IN  IF Len(longer) > Pre THEN Tail(longer) ELSE longer

\* The frame is buffered and the call returns.
EndProcess ==
  /\ callerPc = "records"
  /\ pending = <<>>
  /\ prebuffer' = Buffered
  /\ ReturnTo("idle")
  /\ UNCHANGED <<active, after, pending, frame, tracking, queue,
                 encodingIds, encodingJobs, completedPaths, workerError,
                 stopRequested, stats, workerVars, sequence, generation, nextId,
                 resubmitted>>

-----------------------------------------------------------------------------
(* reset(), finish() and the destructor                                    *)

\* reset(): the program calls it when a frame of a new generation arrives.
Reset ==
  /\ callerPc = "idle"
  /\ generation < MaxStreams
  /\ generation' = generation + 1
  /\ returning' = completed /\ completed' = <<>>
  /\ active' = Flushed
  /\ after' = "reset"
  /\ callerPc' = "submit"
  /\ UNCHANGED <<prebuffer, pending, frame, tracking, queue, encodingIds,
                 encodingJobs, completedPaths, workerError, stopRequested,
                 stats, workerVars, sequence, nextId, published, resubmitted>>

\* Mutated: the prebuffer survives a reset.
EndReset_KeepsPrebuffer ==
  /\ Submitted("reset")
  /\ tracking' = FALSE
  /\ ReturnTo("idle")
  /\ UNCHANGED <<prebuffer, active, after, pending, frame, queue, encodingIds,
                 encodingJobs, completedPaths, workerError, stopRequested,
                 stats, workerVars, sequence, generation, nextId, resubmitted>>

\* The prebuffer is emptied and the call returns.
EndReset ==
  /\ Submitted("reset")
  /\ prebuffer' = <<>>
  /\ tracking' = FALSE
  /\ ReturnTo("idle")
  /\ UNCHANGED <<active, after, pending, frame, queue, encodingIds,
                 encodingJobs, completedPaths, workerError, stopRequested,
                 stats, workerVars, sequence, generation, nextId, resubmitted>>

Finish ==
  /\ callerPc = "idle"
  /\ returning' = completed /\ completed' = <<>>
  /\ active' = Flushed
  /\ after' = "finish"
  /\ callerPc' = "submit"
  /\ UNCHANGED <<prebuffer, pending, frame, tracking, queue, encodingIds,
                 encodingJobs, completedPaths, workerError, stopRequested,
                 stats, workerVars, programVars>>

RequestStop ==
  /\ Submitted("finish")
  /\ prebuffer' = <<>>
  /\ stopRequested' = TRUE
  /\ callerPc' = "join"
  /\ UNCHANGED <<active, after, pending, returning, frame, tracking,
                 queue, encodingIds, encodingJobs, completedPaths, completed,
                 workerError, stats, workerVars, programVars>>

\* The encoder thread has ended: what it completed is returned.
Joined ==
  /\ callerPc = "join"
  /\ workerPc = "done"
  /\ ReturnTo("closed")
  /\ UNCHANGED <<prebuffer, active, after, pending, frame, tracking,
                 queue, encodingIds, encodingJobs, completedPaths, workerError,
                 stopRequested, stats, workerVars, sequence, generation, nextId,
                 resubmitted>>

\* The destructor, after an exception of the writer or of another component:
\* the encoder thread is stopped and joined, and nothing more is published.
Destroy ==
  /\ callerPc \in {"idle", "failed"}
  /\ stopRequested' = TRUE
  /\ callerPc' = "destroying"
  /\ UNCHANGED <<callerVars, queue, encodingIds, encodingJobs, completedPaths,
                 completed, workerError, stats, workerVars, programVars>>

Destroyed ==
  /\ callerPc = "destroying"
  /\ workerPc = "done"
  /\ callerPc' = "destroyed"
  /\ UNCHANGED <<callerVars, sharedVars, workerVars, programVars>>

Over == callerPc \in {"closed", "destroyed"} /\ UNCHANGED vars

-----------------------------------------------------------------------------
(* run(): the encoder thread                                               *)

TakeJob ==
  /\ workerPc = "wait"
  /\ queue # <<>>
  /\ job' = Head(queue)
  /\ queue' = Tail(queue)
  /\ workerPc' = "encode"
  /\ UNCHANGED <<callerPc, callerVars, encodingIds, encodingJobs,
                 completedPaths, completed, workerError, stopRequested, stats,
                 files, programVars>>

\* Mutated: a stop is obeyed at once.
WorkerStops_LeavesQueue ==
  /\ workerPc = "wait"
  /\ stopRequested
  /\ workerPc' = "done"
  /\ UNCHANGED <<callerPc, callerVars, sharedVars, job, files, programVars>>

\* A stop is obeyed only when the queue is empty: queued clips are encoded.
WorkerStops ==
  /\ workerPc = "wait"
  /\ queue = <<>>
  /\ stopRequested
  /\ workerPc' = "done"
  /\ UNCHANGED <<callerPc, callerVars, sharedVars, job, files, programVars>>

FinalPath == Head(job.records).id

\* Mutated: the temporary file is never renamed.
RemoveFinal_IsLast ==
  /\ workerPc = "encode"
  /\ files' = files \ {FinalPath}
  /\ workerPc' = "report"
  /\ UNCHANGED <<callerPc, callerVars, sharedVars, job, programVars>>

\* encode(): the frames go to a temporary file, which is verified; then an
\* older file at the final path is removed and the new one renamed into place.
RemoveFinal ==
  /\ workerPc = "encode"
  /\ files' = files \ {FinalPath}
  /\ workerPc' = "rename"
  /\ UNCHANGED <<callerPc, callerVars, sharedVars, job, programVars>>

RenameToFinal ==
  /\ workerPc = "rename"
  /\ files' = files \cup {FinalPath}
  /\ workerPc' = "report"
  /\ UNCHANGED <<callerPc, callerVars, sharedVars, job, programVars>>

\* The critical section after a successful encode.
ReportJob ==
  /\ workerPc = "report"
  /\ LET done == WithPath(job.records, FinalPath)
     IN  /\ encodingJobs' = encodingJobs - 1
         /\ encodingIds' = encodingIds \ Ids(job.records)
         /\ completedPaths' =
              {p \in completedPaths : p.id \notin Ids(job.records)}
                \cup {done[i] : i \in DOMAIN done}
         /\ completed' = completed \o done
         /\ stats' = [stats EXCEPT !.events = @ + Len(done), !.clips = @ + 1]
  /\ job' = NoClip
  /\ workerPc' = "wait"
  /\ UNCHANGED <<callerPc, callerVars, queue, workerError, stopRequested, files,
                 programVars>>

\* Mutated: a failed encode is tried again.
EncodeFails_Retries ==
  /\ workerPc \in {"encode", "rename"}
  /\ EncoderFails
  /\ workerPc' = "encode"
  /\ UNCHANGED <<callerPc, callerVars, sharedVars, job, files, programVars>>

\* Mutated: the jobs dropped with the failure are not counted.
EncodeFails_Uncounted ==
  /\ workerPc \in {"encode", "rename"}
  /\ EncoderFails
  /\ workerError' = TRUE
  /\ encodingIds' = encodingIds \ AllIds(queue)
  /\ queue' = <<>>
  /\ stopRequested' = TRUE
  /\ workerPc' = "done"
  /\ UNCHANGED <<callerPc, callerVars, encodingJobs, completedPaths, completed,
                 stats, job, files, programVars>>

\* An encode throws: the waiting jobs are counted and dropped with it, and the
\* error waits for the caller.
EncodeFails ==
  /\ workerPc \in {"encode", "rename"}
  /\ EncoderFails
  /\ workerError' = TRUE
  /\ stats' = [stats EXCEPT !.workerQueue = @ + EventsIn(queue)]
  /\ encodingIds' = encodingIds \ AllIds(queue)
  /\ queue' = <<>>
  /\ stopRequested' = TRUE
  /\ workerPc' = "done"
  /\ UNCHANGED <<callerPc, callerVars, encodingJobs, completedPaths, completed,
                 job, files, programVars>>

-----------------------------------------------------------------------------
Worker ==
  TakeJob \/ WorkerStops \/ RemoveFinal \/ RenameToFinal \/ ReportJob
    \/ EncodeFails

\* What the caller does inside a call.
InCall ==
  \/ SubmitClip \/ Rejoin \/ ToRecords \/ LookUpCompleted \/ Admit \/ EndProcess
  \/ EndReset \/ RequestStop \/ Joined \/ Destroyed

\* The calls the program makes.
Call ==
  \/ \E batch \in Batches, skipped \in 0 .. 1,
        gen \in generation .. generation + 1 : Process(batch, skipped, gen)
  \/ Reset \/ Finish \/ Destroy

Next == Worker \/ InCall \/ Call \/ Over

\* Both threads are scheduled and an encode ends; the program may stay idle.
Fairness == WF_vars(Worker) /\ WF_vars(InCall)

Spec == Init /\ [][Next]_vars /\ Fairness

-----------------------------------------------------------------------------
(* Properties                                                              *)

\* Every clip that exists, wherever it is.
Clips == {active[i] : i \in DOMAIN active} \cup {queue[i] : i \in DOMAIN queue}
           \cup ({job} \ {NoClip})

Frames == [n : Nat, gen : Nat]
Windows == 0 .. Post
Members == [id : EventIds, n : Nat, gen : Nat, from : Nat]
Records == [id : EventIds, path : Paths]
ClipShape == [records : Seq(Members), frames : Seq(Frames), post : Windows,
              whole : BOOLEAN]

\* A clip of the caller's or the encoder's has an event and a frame.
LiveClips == {c \in ClipShape : c.records # <<>> /\ c.frames # <<>>}

Stats == [started : Nat, shared : Nat, reused : Nat, capacity : Nat,
          queueFull : Nat, workerQueue : Nat, events : Nat, clips : Nat,
          pendingHigh : Nat]

\* Types, the prebuffer's bound, and: between calls no clip is overdue.
TypeOK ==
  /\ callerPc \in {"idle", "submit", "records", "admit", "join", "closed",
                   "failed", "destroying", "destroyed"}
  /\ after \in {"none", "rejoin", "records", "reset", "finish"}
  /\ prebuffer \in Seq(Frames) /\ Len(prebuffer) <= Pre
  /\ active \in Seq(LiveClips) /\ queue \in Seq(LiveClips) /\ job \in ClipShape
  /\ callerPc \in {"idle", "records", "admit", "join"} => Due(active) = {}
  /\ pending \in Seq(EventIds) /\ (callerPc = "admit" => pending # <<>>)
  /\ returning \in Seq(Records) /\ completed \in Seq(Records)
  /\ published \in Seq(Records)
  /\ frame \in Frames /\ tracking \in BOOLEAN
  /\ encodingIds \subseteq EventIds /\ encodingJobs \in Int
  /\ completedPaths \subseteq Records /\ files \subseteq EventIds
  /\ workerError \in BOOLEAN /\ stopRequested \in BOOLEAN
  /\ stats \in Stats
  /\ workerPc \in {"wait", "encode", "rename", "report", "done"}
  /\ workerPc \in {"encode", "rename", "report"} => job \in LiveClips
  /\ sequence \in Nat /\ generation \in Nat /\ nextId \in 1 .. MaxEvents + 1
  /\ resubmitted \in BOOLEAN

\* The encoder has a clip in its hands.
Encoding == workerPc \in {"encode", "rename", "report"}

\* The clips collecting, due, queued and being encoded never exceed the
\* configured total, which bounds the raw frames held in memory; the counter
\* the capacity test reads covers every clip with the encoder, so it cannot
\* wrap around below zero.
PendingBounded ==
  /\ Len(active) + encodingJobs <= MaxActive
  /\ Len(queue) + (IF Encoding THEN 1 ELSE 0) <= encodingJobs

\* With the queue as large as the total capacity, as the program configures it,
\* a clip that was admitted is never refused by the encoding queue.
QueueNeverRefuses == QueueCapacity >= MaxActive => stats.queueFull = 0

\* Both: the capacity test covers every clip that needs room anywhere.
CapacityCovers == PendingBounded /\ QueueNeverRefuses

\* Every admitted clip's frames stay within the documented bound: the window of
\* one event, or the shared-clip limit.
FrameBudget ==
  \A c \in Clips : Len(c.frames) + c.post <= IF Share THEN MaxSharedFrames
                                             ELSE Pre + 1 + Post

\* No clip mixes two streams: all its frames and events have one generation.
OneStreamPerClip ==
  \A c \in Clips :
    /\ \A i, k \in DOMAIN c.frames : c.frames[i].gen = c.frames[k].gen
    /\ \A i \in DOMAIN c.records, k \in DOMAIN c.frames :
         c.records[i].gen = c.frames[k].gen

\* Every clip reaches back to the oldest frame buffered before each of its
\* events and, unless it is cut short, has Post frames after each of them; in
\* share mode it has no hole, because a discontinuity ends it.
WindowCovered ==
  \A c \in Clips :
    /\ Share => \A i \in DOMAIN c.frames :
                 c.frames[i].n = Head(c.frames).n + i - 1
    /\ \A i \in DOMAIN c.records :
         LET r == c.records[i]
             later == {k \in DOMAIN c.frames : c.frames[k].n > r.n}
         IN  /\ Head(c.frames).n <= r.from
             /\ c.whole => Cardinality(later) + c.post >= Post

\* The positions of an event in a list of records.
At(id, records) == {k \in DOMAIN records : records[k].id = id}

\* Where an event occurs among the things the writer holds or has returned.
Places(id) ==
  LET listed(name, records) == {<<name, 0, k>> : k \in At(id, records)}
      clipped(name, clips) ==
        UNION {{<<name, i, k>> : k \in At(id, clips[i].records)} : i \in DOMAIN clips}
  IN  {<<"pending", 0, k>> : k \in {j \in DOMAIN pending : pending[j] = id}}
        \cup clipped("active", active) \cup clipped("queue", queue)
        \cup listed("job", job.records) \cup listed("completed", completed)
        \cup listed("returning", returning) \cup listed("published", published)

\* Until an encode fails, and unless one is handed in again, every event is in
\* exactly one place: it is neither lost nor published twice by a reset, a full
\* house or a slow encoder; and finish() leaves none unpublished.
EveryEventOnce ==
  /\ ~ workerError /\ ~ resubmitted =>
       \A id \in 1 .. nextId - 1 : Cardinality(Places(id)) = 1
  /\ callerPc = "closed" => 1 .. nextId - 1 \subseteq Ids(published)

\* A published clip path names a verified file, also while other clips are
\* being finalized.
PublishedClipExists ==
  \A i \in DOMAIN published :
    published[i].path # 0 => published[i].path \in files

\* The records of a list that were published without a clip.
Clipless(records) == {k \in DOMAIN records : records[k].path = 0}

\* The counters balance until the caller is thrown the encoder's failure: an
\* event given a clip is being recorded, was encoded, or is counted under one
\* of the two queue losses, the failing clip's own events aside; and the records
\* published without a clip are exactly those the capacity and queue counters
\* have counted.
CountersBalance ==
  callerPc \notin {"failed", "destroying", "destroyed"} =>
    /\ stats.started + stats.shared =
         stats.events + stats.queueFull + stats.workerQueue
           + EventsIn(active) + EventsIn(queue) + Len(job.records)
    /\ stats.capacity + stats.queueFull =
         Cardinality(Clipless(published)) + Cardinality(Clipless(returning))

\* An event handed in twice is not recorded twice: the second reuses the clip
\* of the first or is dropped, whether that clip is collecting, queued, being
\* encoded or complete.
NoSecondMembership ==
  /\ \A id \in EventIds :
       Cardinality({c \in Clips : id \in Ids(c.records)}) <= 1
  /\ \A p \in completedPaths : p.id \notin AllIds(active \o queue)

\* finish() and the destructor return, whatever the encoder was doing.
StopReturns ==
  /\ callerPc = "join" ~> callerPc \in {"closed", "failed"}
  /\ callerPc = "destroying" ~> callerPc = "destroyed"
=============================================================================
