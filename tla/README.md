# Verification of the edge vision runtime

The repository is a C++17 video analytics service for a Jetson board: one video
source, a detector, ByteTrack, three kinds of safety event rules, and the
evidence (JSONL journal, snapshots, clips) those events leave behind.  This
directory holds TLA+ models of the parts whose correctness depends on the order
in which things happen, the TLC runs that check them on small instances, and
proofs for every value of the constants.  Paths below are relative to the
repository.

## 1. The system

`apps/realtime_detect.cpp` (`main`) builds everything and runs one loop in one
thread; four components own a second thread or a process.  systemd starts it, watches it
and stops it.

```
 GStreamer source --read--> capture thread --push--> bounded queue
                                                        | wait_pop_for
                                                        v
   detector -> tracker -> event rules -> snapshots -> clip writer -> journal
                  (inference loop: one thread)          |    ^
                                                   jobs v    | completed records
                                                    encoder thread
   annotated video writer (own thread)   telemetry sampler (child process, reader thread)
   shutdown signals, systemd notifications and watchdog (inference loop)
```

| Component | Source | State | Operations | Interacts with |
| --- | --- | --- | --- | --- |
| Frame capture | `src/frame_capture_worker.cpp`, `src/gstreamer_frame_source.cpp`, `include/edge_vision/bounded_frame_queue.hpp` | pipeline, `opened_`, stop flag, restart budget, stream generation, drop-oldest queue | `open`, `read`, `close`; `start`, `stop`, `capture_loop`, `restart_source`; `push`, `wait_pop_for`, `close` | owned by `main`; its thread and `main` share the queue, the flags and the pipeline |
| Event clips | `src/event_clip_writer.cpp` | prebuffer, collecting clips, encoding queue, ids being encoded, completed paths, counters | `process`, `reset`, `finish`, destructor; `run`, `encode` on the encoder thread | `main` calls it per frame and journals what it returns |
| Safety event rules | `src/event_analytics.cpp` | per rule and track: occupancy, line side, dwell; the timeline of the last frame | `update`, `reset` | `main` calls `update` per frame, `reset` on a new stream generation and at the end of the warm-up |
| Event journal | `src/event_journal.cpp` | append-only file, set of event ids | load on start, `append` | records from the clip writer or straight from the rules |
| Snapshots | `src/event_evidence.cpp` | files | `write_snapshot` | before a record is handed to the clip writer |
| Annotated video | `src/annotated_video_writer.cpp` | drop-oldest packet queue, worker error, labels on screen | `write`, `finish`, `close`; `run` | `main` per frame |
| Encoder sinks | `src/gstreamer_x264_video_encoder_sink.cpp`, `src/opencv_mp4v_video_encoder_sink.cpp` | one open file or pipeline | `open`, `write`, `finish` | clip writer and video writer |
| Telemetry sampler | `src/jetson_telemetry.cpp` | child process, pipe, reader thread, samples | `start`, `stop`, reader thread | `main` |
| Service runtime | `src/service_runtime.cpp` | shutdown flag, watchdog interval | signal handler, notifications | systemd |
| Inference loop | `apps/realtime_detect.cpp` | options, stream generation, gaps, warm-up, watchdog times, exit code | the command line, the frame loop, the shutdown sequence | everything |
| Tracker | `src/byte_tracker.cpp`, `third_party/bytetrack` | a tracker per class, one series of track numbers | `update`, `reset` | inference loop |
| Detectors | `src/yolo*.cpp`, `src/tensorrt_engine.cpp` | none between frames | `infer_profiled` | inference loop |
| Metrics report | `src/runtime_metrics.cpp` | the file, and a temporary one beside it | `write_runtime_metrics_json` | at the end of `main` |
| Annotation, MOT writer | `src/frame_annotator.cpp`, `src/mot_challenge_writer.cpp` | none worth a state machine | one pass each | inference loop |
| Scripts | `scripts/` | spool files, benchmark results | offline | - |

### What is hard here, and what makes each part correct

* **Frame capture.** `stop()` runs in one thread while the other is anywhere in
  open, read, restart delay or push; `close()` clears a flag and removes the
  pipeline in two steps.  Correct means: every frame is popped, counted as
  dropped or still queued; the queue holds the newest frames in order; the
  stream generation changes exactly when the pipeline does; restarts are bounded;
  a stop always returns and releases everything.
* **Event clips.** Each event must end in exactly one published record, with a
  finished file or an explicit null path; memory is bounded by the number of
  clips; no clip mixes two streams; look-ups of duplicates take the lock twice
  with the encoder free to run between them.
* **Rules.** Long sequences of frames with gaps, repeated time stamps and stream
  changes; an event must rest on observations that really were continuous.
* **Journal.** A crash between a file's rename and the append, or in the append.
  An event has at most one record, a record has its snapshot, and what `append()`
  answered for stays.
* **Annotated video.** Frames may be dropped, an event's label may not: it moves
  to the frame that replaces its own, while the encoder thread takes frames from
  the other end of the queue, or dies with one in hand.
* **Frame loop and tracker.** Three collaborators hold state of the stream, and
  each has to lose it before a new stream's first frame; missing frames have to
  age tracks as if they had been seen; one counter numbers the tracks of several
  trackers.
* **The process.** A signal may arrive at any step and in any thread, also in the
  child between fork and exec.  The watchdog is fed by frames and not by being
  alive.  Normal return, a failed start and an exception each end child, threads
  and files in an order of their own, and `stop()` of the sampler may run twice.
* **The command line.** The parser and the constructors check the same limits in
  different units.

## 2. The modules

| Module | Models | State and actions |
| --- | --- | --- |
| `BoundedFrameQueue` | `bounded_frame_queue.hpp` | `queue`, `dropped`, `highWatermark`, `closed`; `Push`, `PopFront`, `Close`, each one critical section |
| `FrameCapture` | `frame_capture_worker.cpp`, `gstreamer_frame_source.cpp`, the frame loop as owner | `capturePc` and `ownerPc` are the two threads' positions; every access to shared memory is a step: the two halves of `close()`, the flag tests, `open()`, the pull, the push, the join |
| `FrameStream` | what the capture side promises | abstract: `Emit`, `Take`, `End`, `SeeEnd`; `FrameCapture` implements it (`StreamSpec`) |
| `EventClips` | `event_clip_writer.cpp` | the caller (`process`, `reset`, `finish`, destructor) and the encoder thread, one step per critical section |
| `EventTimeline` | what the rules share: frames, order of frames, pruning | `frame`, `active`, `states`, `events` |
| `Occupancy` | `update_occupancy` | operators on one track's state |
| `RoiIntrusion`, `Dwell`, `LineCrossing` | `update_roi`, `update_dwell`, `update_lines` with `update_confirmed_line` | an engine with one rule; `Update` is a whole `update()`, `Reset` a `reset()` |
| `Geometry` | `point_in_polygon`, `signed_line_distance`, `segments_intersect` | operators on integer points |
| `SafetyRules` | a `SafetyEventEngine` with one rule of any kind | instantiates the three rules on shared variables; a fourth kind sweeps the geometry against half-plane definitions |
| `EventJournal` | `event_journal.cpp`, `event_evidence.cpp` | files, memory and position of a process that writes snapshots and appends records, crashes and is started again |
| `AnnotatedVideo` | `annotated_video_writer.cpp` and both encoder sinks | the caller (`Write`, `Finish`, `Destroy`) and the encoder thread, whose position also says where in the sink it is |
| `ByteTracker` | `byte_tracker.cpp`, the track states of `BYTETracker.cpp` | operators: `ClassUpdated` is the set of outcomes of one class's turn in `update()`, over every matching |
| `FrameLoop` | the frame loop of `realtime_detect.cpp` up to the recording | `InvalidFrame`; `WarmupFrame`, `MeasuredFrame` with the resets a frame causes; then its updates, those made up for missing frames first, class by class (`UpdateClass`, `NextUpdate`); `WarmupTracked`, `MeasuredTracked` when they have returned |
| `RunOptions` | `parse_options` and the constructors' checks | operators: `Read` takes one argument in, `Accepted` is the checks of the whole, `Built` the constructors' |
| `Service` | `main`, `service_runtime.cpp`, `jetson_telemetry.cpp`, `runtime_metrics.cpp` | `pc` is where `main` is, from `parse` to the exit code; the child, the reader thread, the clock of the watchdog, the report's file |
| `MCSafetyRules`, `MCService` | - | the rules' settings and bounds, the command lines, for TLC |
| `FrameCaptureProofs`, `EventClipsProofs`, `EventClipsEventProofs`, `SafetyRulesProofs`, `EventJournalProofs`, `AnnotatedVideoProofs`, `FrameLoopProofs`, `ServiceProofs` | - | theorems |

Definitions named `X_Something` and marked "Mutated" are plausible bugs, one for
each property: with `X` replaced by one of them the property must fail.

How they compose: `FrameCapture` contains the queue and the loop's side of it;
`FrameLoop` takes what `FrameStream` lets through (numbers that run on, with
holes, and generations that grow) and contains the trackers; the rules' frames
are those the loop hands on; `EventClips` and `AnnotatedVideo` have the loop as
their caller; `EventJournal` takes records in any order, as the clip writer
returns them.  `Service` is the frame around all of them: it reads the
configuration whose limits the others assume (`ConfiguredAsVerified`), and for it
a frame takes time, may be invalid and may fail.

Names follow the source.  What is folded or abstracted:

* **Capture.** Frames are numbers; pixels and time stamps are left out.  The
  source's `sequence_` and the worker's `produced_` advance together, so
  `produced` stands for both; `restart_successes_` moves with
  `stream_generation_`.  `stop()` is called by the owner's thread only, as in the
  program.  Camera and file reads have no deadline of their own: a silent source
  blocks a read until `close()`.  After a failed `start()` the queue stays open and
  the restart budget is spent; the program destroys the worker then.
* **Clips.** A frame is its sequence number and its generation; a clip is its
  events, its frames and its remaining window.  `Skip` of sequence numbers stands
  for every discontinuity share mode looks for (sequence, time stamp, size).  The
  program resets the writer on a new generation; in share mode `Process` may see a
  new generation first, because the writer defends itself against it.  `Resubmit`
  hands in events a second time, which the program never does but the API
  promises to handle.  Not modelled: a failure between rename and verification,
  temporary files, the sink's work.  An event whose clip is destroyed when
  `submit()` throws is in no counter, so `CountersBalance` stops at the throw.
* **Rules.** Floats become integers and divisions are cleared; the tolerance of
  `1e-6` becomes zero.  An anchor is `in`, `near` (outside, within the exit
  margin) or `out`; the distance itself is not modelled.  `Tracks` are those the
  class filter accepts.  The confirmation count stops at its target, the only
  value it is compared with.  A rule's settings are a variable chosen in `Init`
  and never changed, so one run covers all of them.
* **Journal.** The file is the sequence of pieces written to it: a whole record
  (its id), a torn one, a line end.  A record waits between snapshot and append,
  in any order; that covers the plain loop and the clip writer.  An exception out
  of the frame loop and a crash look alike: the process is gone.  Without a
  snapshot directory a record carries a null path and there is nothing to check.
  The constructor of the evidence writer, and a final snapshot that fails its
  last check, are left out.
* **Video.** A frame is its sequence number and its new events, a label its event
  and the last frame it is shown on.  The pipeline's elements, the colour
  conversion and the box drawing are left out; each sink's call succeeds or fails.
* **Tracker.** Boxes are left out: which detection a track is matched with, and
  which tracked and lost track are found to be the same, is any choice.  A
  detection's score is a band between the thresholds.  A tracker's
  `removed_stracks` grows for ever; the model keeps of it the tracks an update can
  still meet.
* **Service.** Time is counted in ticks, and only while the loop waits or works.
  A signal comes once, since a second one changes nothing.  systemd is what the
  unit file says of it: a watchdog, which strikes when its interval is over, and a
  time limit on stopping.  What the tegrastats lines say, and the figures of
  the report, are left out; when the report is written, what has come to its end by
  then, and the temporary file it is renamed from are not.
* **Options.** A duration is a number of steps that are closer together than in
  the code, but in the same order, so that a test succeeds or fails beside each
  limit.  Integers of 64 bits and the text of numbers are left out.  The theorem about
  the options holds for steps of any length.

## 3. The runs

| Run | Instance | What it shows |
| --- | --- | --- |
| `capture` | 2 queue places, 2 restarts, 3 frames | `QueueContract`, `GenerationMarksPipeline`, `RestartBudget`, `StopContract`; `Progress` (liveness); `StreamSpec` (refinement) |
| `clips` | 1 frame before, 1 after, 2 clips, 3 events, one of them handed in again | one clip per event: `CapacityCovers`, `EveryEventOnce`, `NoSecondMembership`, `PublishedClipExists` |
| `clips_shared` | 1 before, 2 after, a queue of 1, clips of at most 4 frames and 2 events, failing encoder | shared clips: `FrameBudget`, `WindowCovered`, `OneStreamPerClip`; failure: `CountersBalance`, `StopReturns` (liveness) |
| `clips_shared_resubmit` | shared clips, an event handed in again | `NoSecondMembership` is **violated** (finding 1) |
| `rules` | one track; every combination of the ROI rule's guards; dwell with and without rearming; a timed and an untimed line; quadrilaterals on a 3x3 grid and points on a 5x5 grid | `IntrusionIsObserved`, `NoReentryWithoutDeparture`, `RearmedDwellIsWatched`, `OneDwellPerVisit`; `CrossingIsObserved` in both directions: raised if and only if the observed trail crossed; `InsideIsInATriangle`, `IntersectionSeparates` |
| `dwell_watched` | the dwell rule alone | `DwellIsWatched` is **violated** without rearming (finding 2) |
| `journal` | 3 events | `EvidenceBeforeRecord`, `RecordIsKept` under any number of crashes |
| `journal_reopen` | 2 events | `ReopenSucceeds` is **violated** (finding 3) |
| `video` | 2 queue places, 6 frame numbers, 2 events, labels for 2 frames, both encoders, failing sink | `PacketsAccounted`, `EventsAreShown`; `StopContract` (with liveness) |
| `frame_loop` | 2 classes with 1 detection each, `track_buffer` 1, 1 warm-up frame, 6 frame numbers, holes of 3, 2 generations | `OneStreamEach`, `IdentityIsContinuous` |
| `frame_loop_gap` | 1 class, 7 frame numbers | `GapsAgeTracks` is **violated** (finding 4) |
| `service` | a watchdog of 6 ticks, waits of 1, a frame limit of 0 or 1, five complete command lines with up to two further options out of 99, in one order unless it is the same option twice | `ConfiguredAsVerified`, `WatchdogContract`, `EndsClean`; `StopReturns` (liveness) |

`capture`, `clips`, `rules`, `journal`, `video`, `frame_loop` and `service` also check
the `TypeOK` of their module.

**Bounds.** Three frames overflow a queue of two and leave one for a second
pipeline; two restarts let a budget be used up, refilled by a frame and used up
again.  Three events and four or five frames fill both clip places, refuse a third
event, join and overrun a shared clip and cross a stream change.  `MaxFrames`,
`MaxEvents`, `MaxPerFrame`, `MaxStreams`, `MaxSeq`, `MaxJump`, `Jumps`, `MaxPtsStep` and
`MaxGeneration` bound the environment, not the program.  One track is enough for
the rules, which keep a state per track and never relate two; a jump of
`StaleAfter + 1` or more reaches every gap, stale and prune test, and there are
frames for two full visits.  The line's points are next to it, on it, and past its
end.  The journal's run is complete: nothing in it is bounded but the number of
events.  Six frames fill a video queue of two while one is in hand, drop two in a
row, and outlast a label.  Two classes share the track counter; a jump of 4 is a
hole longer than the `track_buffer + 1` updates made up for it, and six numbers leave
room for a track to be confirmed, lost and found before and after it and for a
stream change.  In a watchdog interval of 6 ticks with waits of 1, stalls differ
that are tolerated, that cost a heartbeat, and that cost the process.  Options
beside their limits, two at a time, meet every conjunct of the checks.

**Fairness.** `FrameCapture` assumes that both threads are scheduled and that
what they call returns: the capture thread's steps (a pull polls every 200 ms and
so notices `close()`) and the owner's.  It assumes nothing of the media, and not
that the owner ever leaves its loop.  `Progress` includes that an outage ends, on
the condition that a silent read ends by itself, which the RTSP source's timeout
sees to and the camera's does not; a silent camera is the watchdog's business.
`EventClips` assumes that the encoder thread is scheduled, that an encode ends,
and that a call goes on once it has begun; the program may stay idle for ever.
`AnnotatedVideo` assumes as much of its two threads and that the wait for the
bus ends, which has a limit of 30 seconds; that the pipeline takes the frames it is
given is nowhere bounded, and a condition of `StopContract`.  `Service` assumes
that `main` goes on, that time passes, that the child gets from fork to exec, and
that a reader whose pipe has lost its last writer reads the end; it does not
assume that a child that runs ever ends.  The other modules have no liveness
property.

**Stopping.** No configuration turns deadlock checking off: a finished program
stutters in an explicit step, which is also how a system that stopped too early
would be told apart.

## 4. Findings

1. `event_clip_writer.cpp:237`.  `start_clip` looks an event up in two critical
   sections.  If the encoder reports the event's clip between them, a duplicate is
   found in neither place, and in share mode becomes a member of a second clip.
   The clip writer's own test and the event schema say that it is not.  Without
   sharing the file check that follows catches it (`clips` passes).
2. `event_analytics.cpp:653`.  Without rearming the gap reset looks only at
   confirmed states.  An unconfirmed first observation survives an absence up to
   `stale_after_frames`, and the dwell time is then counted from before it.  The
   documents limit the gap to `max_gap_frames`.  It needs at least two
   confirmation frames; with rearming it does not happen.
3. `event_journal.cpp:195`.  A write that stops in a record, because the disk is
   full or the process dies, leaves a line at which every later start throws.  If
   only the line end is missing, the next start accepts the journal and then
   appends its first record to that line: `append()` returns true for a record the
   following start cannot read.  The schema promises lines that parse on their own
   and deduplication after a log is opened again.  The service's launcher avoids
   it by a new journal for each session.
4. `realtime_detect.cpp:1070`.  Missing frames age the tracks by at most
   `track_buffer + 1` updates, after which a track of the last frame has expired;
   but ByteTrack takes an expired track from the lost ones one update later.  A
   person seen right before a hole of any length can lend the number to one seen
   right after it, while the guide says that missing frames age the tracks.
   `IdentityIsContinuous` shows that this is the only case.

Two things that are no divergence, but that a reader may not expect.  A heartbeat
that is skipped because the last frame is older than half the interval is not
made up for when a frame comes: the next one is due half an interval later
(`realtime_detect.cpp:936`).  So a stall of just under half the interval, by up to
one wait, can already end in an abort, and one of nearly one and a half need not;
`WatchdogContract` states both limits.  And the x264 sink waits up to 30 seconds for
its last frame, while the unit file gives the whole shutdown 20.

## 5. The proofs

All theorems hold for every value of the constants that satisfies the named
assumptions: `CapacityAssumption` (a queue has a place, as its constructor
demands), `CaptureAssumption`, `ClipAssumption` (the constructor's validation; a
shared clip holds at least one event's window), `RulesAssumption` (counts and limits
as the rules' constructors demand them, a line with two ends), `JournalAssumption` (the pieces
of a file are told apart), `ScoreAssumption` (classes are numbers, a frame's detections
finitely many), `VideoAssumption`, `LoopAssumption` and `ServiceAssumption` (sizes and
times are positive).

**Capture** (`FrameCaptureProofs`).  Control first: `OwnerControl` relates the two
positions, the flags and `started`; `SourceControl` says which of the pipeline and
`opened` can be set at each position, given that `stop()` has passed.  With
`TypeOK` they are inductive (`ControlInv`), and `PushIsNeverRefused`
and `StopKeepsContract` follow: why a stop needs the join before
the queue is closed, and the second `close()` on the capture thread's way out.  On
top of it stand three arguments of their own: `BudgetInv` (the attempts since a
frame are the difference the history counts), `CountInv` (accounting and order
together, because neither is inductive without the other at a drop), and
`GenerationInv` (a frame of an older pipeline can be told by its generation,
unless a restart awaits its first frame).  `ImplementsStream` is the refinement.

**Clips, the pool** (`EventClipsProofs`).  `TypeOK` already holds the hard part of
its own induction: between calls no clip is overdue, and a clip the encoder works
on is not empty.  `PendingBounded` and `QueueNeverRefuses` are inductive with it:
the counter the capacity test reads covers the queue and the job.  What a clip
contains rests on one lemma, `ClipOrigins`: a clip of the next state is a clip of
this one, or is it with one frame more, cut short, with one event more, or begun by
this step.  `BudgetInv` (frames and the remaining window, for every clip held) needs
nothing else.  `StreamInv` strengthens `OneStreamPerClip`: while the caller uses
frames, prebuffer and collecting clips are of the writer's present generation; while
it flushes, no collecting clip takes another frame.  `WindowInv` adds to
`WindowCovered` that the prebuffer and each collecting clip run up to the frame in
hand, in share mode without a hole, so that an event which joins finds its frames.

**Clips, the events** (`EventClipsEventProofs`).  `MemberInv` separates collecting,
queued, encoded and completed clips (`ClipsApart`) and says that a path belongs to an
event that is complete itself (`PathsOwned`), so that no clip still to be encoded
replaces a published file.  `ClipsApart` is preserved by `start_clip` only if the
event is still unknown at its second look-up.  That holds without sharing, because
the clip's file is then found, and without a second handing-in, because what is
pending is new; so `EventsAreRecordedOnce` and `PublishedClipsExist` assume
`~ (Share /\ Resubmit)`, the one combination left being finding 1.
`OnceInv` treats the seven lists an event may be in as one: each step moves events
from one to the next, `AllKnown` says that until an encode fails none is dropped, and
`HeldOnce` that none is in two, as long as none is handed in again.  `CallInv`, on
which it and `BalanceInv` rest, says where in a call which list is empty, and why the
encoder has ended when finish() returns.  `BalanceInv` weighs the counters against the
clips and records held; how many events a list of clips has when one is added, joined
or removed is the subject of the lemmas before it.

**Rules** (`SafetyRulesProofs`).  None of the rules' properties is inductive: an event
is judged by observations its state no longer shows.  `RoiInv` says that the run
of observations a candidate stands for is as long and as old as the candidate
claims, and that a track which raised an event is inside until a departure is
confirmed.  `DwellInv` says as much of an entry and of a visit, counts the
observations outside that may end one, and needs for it that a candidate is never
none once a track is known.  Both rest on `OccupiedSucceeds`, one step of
`update_occupancy` field by field, and on `MergedAndPruned`, what the maps keep.
`SegmentsSeparate` is `segments_intersect` for every four points of the plane.

`InsideIsExact` has no induction over steps and all the more geometry.  The parity of
a quadrilateral's edges is that of its two triangles, in which the diagonal counts
twice.  Of a triangle that turns left, `TriangleParity` derives it from the signs of
the three areas: they are the weights that bring the corners' heights to zero
(`Weights`), so their signs and those of the heights exclude each other.
`EdgeOfTriangle` says when a point on an edge's line is on the edge; on the
diagonal both triangles have the point and parity alone decides
(`DiagonalParity`); a region that turns right is the reversed one (`EdgeReversed`).
Four corners are what the model sweeps; any number would be an induction.

`CrossingsAreObserved` is an equivalence: a crossing is raised if and only if a whole
path shows one.  `LineMemory` relates the few fields of a line state to the path.  The
stable side is the one the path came from (`LineStable`); a candidate stands for the
observations of its side that lead up to the last, by their number, the time of the
first and, under a timed rule, where the segment was met then (`LineCandidate`); and
the stable point is the last one to depart from (`LinePoint`).  That makes the path
itself dispensable: `RunStays` says that a track has stayed long enough exactly if
that run has, `CameFromNext` and `PrefixSays` what one observation more changes, and
`WayMeetsLine` that between points on either side `segments_intersect` asks only where
the ends of the line are.  `KnownIsReady` is the gap in a timed path, which voids the
state and the path alike.

**Journal** (`EventJournalProofs`).  `Inv` adds that a running process remembers
exactly what the file holds (`MemoryIsFile`) and that a record is held only once
its snapshot is there.  Two lemmas say what any partial write adds to a file:
at most its own record, and none that was there is lost or doubled.

**Video** (`AnnotatedVideoProofs`).  `ThreadInv` says what the encoder thread holds
at each position, that it ends only with an empty queue or an error, and where the
caller waits for it; `FinishKeepsAll`, the safety part of `StopContract`, follows.
`OrderInv` carries the accounting and the order of the frames through drops from
the middle of a stream: the video's frames come before the one in hand, and that
before the queue's.  `EventsAreDrawn` needs two parts more.  `TravelInv`: an event is
with one packet at a time, also when the packet's frame is dropped, or drawn.
`LabelInv`: an event that was drawn has a `Window`, from its first frame to its last;
it is on the video's frames of that window and on no other, and its label is in the
thread's list until a frame beyond the window was taken.  Frame numbers may jump, so
the last frame of a window need not be in the video.

**Frame loop** (`FrameLoopProofs`).  `OneStream` bounds what each collaborator holds
by the active stream and the phase, warm-up or not; `Counting` says that the last
measured frame is where the next hole begins, and that after a change of stream
nothing is.  Neither asks what the tracker returns.

`IdentitiesAreContinuous` does.  `OutcomeFacts` says of one update, whatever was
matched, that a track of its result is one of before, found in it or not, or a new
one with a number of its own; `TypeOK`, that no two tracks of any class share a number,
follows from it.  `Kept` adds how long a tracker keeps a lost track: until the update
after the one in which it expires.  `Remembered` ties a track to the history: it was
last seen under its own class, in the present stream and phase, and the frames since
are as many as the tracker's updates since it was found.  Where a hole was cut to
`track_buffer + 1` updates the frames are more, and only a track seen right before the
hole outlasts those updates: that is the exception the property names.  The proof
needs the ageing of a hole, and the warm-up does none, so an absence is bounded
among measured frames only: with two warm-up frames or more, a track of the warm-up
is continued over a hole of any length.

**Service** (`ServiceProofs`).  `WatchInv` bounds the age of the last heartbeat by
where the loop is: half an interval, plus what was waited, plus, at the top of the
loop, one wait and the time since the last frame.  With a stall below the tolerance
that is below the interval, so the watchdog has nothing to strike at.  `ChildInv`
ties child, reader and process number together, also for the second `stop()` of
the destructor; `CodeInv` says what has been finished when the exit code is
decided, and `ReportInv`, which needs both, what has when the report is published.
`EndsClean` needs all three.

`BuiltAsVerified` is about every command line, read argument by argument.
`OptionsFit` says of the options what the `parse_` functions can return, and
`ParsedInv` that main builds only from options accepted as a whole.  The rest is
arithmetic (`AcceptedBuilds`): `NanosecondFacts` and `FrameCountFacts` say what
`llround` keeps, and `SharedFits` that a clip's limit which exceeds a window by half a
frame or more still exceeds it when all three are rounded to frames.  That bound came
out of the proof, and is the smallest.  `ServiceTyped` needs all the invariants before.

**Checked by TLC only.** Liveness under fairness (`Progress`, `StopReturns`, the
video's `StopContract`), which is out of the prover's reach.  What is computed over
arbitrary data by induction cannot be proved with the installed provers; of the
properties, only the inside of a region with any number of corners would need it.
Every invariant and every action property of the passing runs is a theorem.

## 6. Plan

Done, in this order: capture, clips, the rules with their geometry, journal and
snapshots; the annotated video with its sinks; tracker and frame loop; the process
with its command line, shutdown, watchdog and telemetry child.  Left:

1. **An event recorder**: each event handed in is recorded at most once, and
   exactly once if the program shuts down cleanly; `EventClips` and `EventJournal`
   behind `FrameLoop` would implement it together.
2. **The spool**: the launcher, the pruning script and the service on the same
   directories.

## 7. Not modelled, and why

* Detectors, the association's geometry with its Kalman filter and assignment,
  the figures of the report, drawing and MOT output: numeric or formatting work without a protocol.
  The tracker is modelled for every association, so what is shown of identities
  does not depend on them.
* Scripts, among them the spool's pruning: tools outside the service.
* The command-line programs beside the service (`mot_sequence_infer`,
  `capture_stream`, the `*_check` tests): callers of the same components, one after
  the other.
* Durability below the file system: `flush` is not `fsync`, so a power failure may
  take back answered records; the schema speaks of process interruption only.
