------------------------------- MODULE Service ------------------------------
(***************************************************************************)
(* The life of the service process: main() of                              *)
(* src/apps/realtime_detect.cpp with its signal handler, its notifications *)
(* to systemd (src/service_runtime.cpp) and the telemetry sampler          *)
(* (src/jetson_telemetry.cpp), which runs tegrastats as a child process    *)
(* and reads its output on a thread.                                       *)
(*                                                                         *)
(* What a frame does is FrameLoop's subject, and the components' own       *)
(* threads are that of their modules; here a frame takes time, may be      *)
(* invalid and may fail.                                                   *)
(***************************************************************************)
EXTENDS RunOptions

CONSTANTS
  CommandLines,   \* the command lines to start with
  WatchdogTicks,  \* WATCHDOG_USEC, in ticks of the clock
  WaitTicks,      \* how long one wait_pop_for waits
  MaxReserve,     \* the most latencies a vector has room for
  MaxFrames       \* bound: frame limits above it are cut to it

ASSUME ServiceAssumption ==
  /\ WatchdogTicks \in Nat \ {0} /\ WaitTicks \in Nat \ {0}
  /\ MaxReserve \in Nat /\ MaxFrames \in Nat \ {0}

VARIABLES
  pc,           \* where main() is
  parsed,       \* the command line as far as it is read, until the components are built
  mode,         \* what of them matters from then on
  signalled,    \* shutdown_signal is set
  shutdown,     \* shutdown_requested: it was set when the loop was left
  measured, invalid,    \* measured_frames; whether invalid_frames > 0
  interval,     \* watchdog_interval_, 0 for none
  clock,        \* since the last frame and the last heartbeat; until next_watchdog;
                \*   and of the present wait
  capture, outputs,     \* the capture worker; the clip and video writers
  report,       \* the metrics file: "earlier", what was there before; "temporary", that
                \*   with a .tmp beside it; or "complete", this run's
  code          \* the exit code, NoCode while there is none

\* JetsonTelemetrySampler and its child.
VARIABLES
  child,        \* "none", "forked", "running", "zombie" or "reaped"
  childPid,     \* child_pid_ is a process
  reader,       \* the thread: "none", "reading", "done" or "joined"
  samples,      \* samples_ is not empty
  samplerError  \* last_error_ is not empty

\* History: a stall as long as the heartbeats tolerate, or a heartbeat that could not
\* be sent; a SIGTERM that the child had not yet become tegrastats to obey; a signal
\* sent to a process reaped before.
VARIABLES excused, swallowed, strayKill

loopVars == <<measured, invalid, clock, excused>>
samplerVars == <<child, childPid, reader, samples, samplerError, swallowed, strayKill>>
runVars == <<mode, interval, capture, outputs, report, code, shutdown>>
vars == <<pc, parsed, runVars, signalled, loopVars, samplerVars>>

NoCode == -1
Stopped == [progress |-> 0, beat |-> 0, due |-> 0, waited |-> 0]
NoMode == [continuous |-> FALSE, frames |-> 0, reserve |-> FALSE,
           metrics |-> FALSE, outputs |-> FALSE]

Init ==
  /\ pc = "parse"
  /\ parsed \in {Unread(line) : line \in CommandLines}
  /\ mode = NoMode
  /\ signalled = FALSE /\ shutdown = FALSE
  /\ measured = 0 /\ invalid = FALSE
  /\ interval = 0 /\ clock = Stopped
  /\ capture = "none" /\ outputs = "none" /\ report = "earlier"
  /\ code = NoCode
  /\ child = "none" /\ childPid = FALSE /\ reader = "none" /\ samples = FALSE /\ samplerError = FALSE
  /\ excused = FALSE /\ swallowed = FALSE /\ strayKill = FALSE

-----------------------------------------------------------------------------
(* Start-up                                                                *)

\* The process obeys the watchdog of its own environment only: WATCHDOG_PID, when
\* it is set, has to be its own.
WatchdogInterval(usec, pid) == IF pid = "other" THEN 0 ELSE usec

\* parse_options reads argument after argument until it throws.
ReadArgument ==
  /\ pc = "parse" /\ ~ parsed.failed /\ parsed.rest # <<>>
  /\ parsed' = Read(parsed)
  /\ UNCHANGED <<pc, runVars, signalled, loopVars, samplerVars>>

\* Its checks of the whole, then the signal handler and the notifier.
Parse ==
  /\ pc = "parse" /\ (parsed.failed \/ parsed.rest = <<>>)
  /\ IF Accepted(parsed)
     THEN /\ pc' = "build"
          /\ \E usec \in {0, WatchdogTicks}, pid \in {"none", "own", "other"} :
               interval' = WatchdogInterval(usec, pid)
          /\ UNCHANGED code
     ELSE pc' = "exited" /\ code' = 2 /\ UNCHANGED interval
  /\ UNCHANGED <<parsed, mode, capture, outputs, report, shutdown, signalled, loopVars, samplerVars>>

\* BoundedLatencySamples reserves its capacity before the first frame.
ModeOf(o) ==
  [continuous |-> o.continuous,
   frames |-> IF o.frames < MaxFrames THEN o.frames ELSE MaxFrames,
   reserve |-> (IF o.continuous THEN o.metrics_window_frames ELSE o.frames) <= MaxReserve,
   metrics |-> o.metrics_json,
   outputs |-> o.event_clip_dir \/ o.output_video]

\* The engine, the components and the files: any of them may fail.
Build ==
  /\ pc = "build"
  /\ parsed' = Unread(<<>>)
  /\ \/ /\ Built(parsed.options)
        /\ mode' = ModeOf(parsed.options)
        /\ outputs' = IF mode'.outputs THEN "open" ELSE "none"
        /\ pc' = IF mode'.metrics THEN "sample" ELSE "start"
        /\ UNCHANGED code
     \/ pc' = "exited" /\ code' = 2 /\ UNCHANGED <<mode, outputs>>
  /\ UNCHANGED <<interval, capture, report, shutdown, signalled, loopVars, samplerVars>>

\* start() of the sampler.  Without tegrastats, a pipe or a fork it says so, and the
\* run goes on; if its thread cannot be created, it has forked and throws.
StartSampler ==
  /\ pc = "sample"
  /\ \/ samplerError' = TRUE /\ pc' = "start" /\ UNCHANGED <<child, childPid, reader, code>>
     \/ child' = "forked" /\ childPid' = TRUE /\ reader' = "reading" /\ pc' = "start"
        /\ UNCHANGED <<samplerError, code>>
     \/ child' = "forked" /\ childPid' = TRUE /\ pc' = "kill" /\ code' = 2
        /\ UNCHANGED <<samplerError, reader>>
  /\ UNCHANGED <<parsed, mode, interval, capture, outputs, report, shutdown, signalled, loopVars,
                 samples, swallowed, strayKill>>

\* worker.start(); without a source main returns, and its objects are destroyed.
StartCapture ==
  /\ pc = "start"
  /\ \/ capture' = "running" /\ pc' = "ready" /\ UNCHANGED code
     \/ pc' = "kill" /\ code' = 1 /\ UNCHANGED capture
  /\ UNCHANGED <<parsed, mode, interval, outputs, report, shutdown, signalled, loopVars, samplerVars>>

\* systemd is told READY, and then there may be no room for the latencies.
Ready ==
  /\ pc = "ready"
  /\ IF mode.reserve THEN pc' = "top" /\ UNCHANGED code ELSE pc' = "kill" /\ code' = 2
  /\ UNCHANGED <<parsed, mode, interval, capture, outputs, report, shutdown, signalled, loopVars, samplerVars>>

-----------------------------------------------------------------------------
(* The frame loop and its watchdog                                         *)

Half(n) == IF n < 2 THEN 1 ELSE n \div 2

\* Whether a heartbeat is sent now: one is due, and a frame came within the period.
Beats(c) == interval > 0 /\ c.due = 0 /\ c.progress <= Half(interval)

\* send(): the socket may refuse the message, and nobody asks whether it did.
Sendings(c) == IF Beats(c) THEN BOOLEAN ELSE {FALSE}

\* Mutated: a heartbeat is due once in an interval.
Maintained_OncePerInterval(c, sent) ==
  IF interval = 0 \/ c.due > 0 THEN c
  ELSE [c EXCEPT !.due = interval, !.beat = IF sent THEN 0 ELSE @]

\* Mutated: the heartbeat shows that the process is alive.
Maintained_BeatsAlways(c, sent) ==
  IF interval = 0 \/ c.due > 0 THEN c
  ELSE [c EXCEPT !.due = Half(interval), !.beat = 0]

\* maintain_watchdog: a heartbeat or none, the next one is due a period later.
Maintained(c, sent) ==
  IF interval = 0 \/ c.due > 0 THEN c
  ELSE [c EXCEPT !.due = Half(interval), !.beat = IF sent THEN 0 ELSE @]

\* Leaving the loop: the clock has nothing more to say.
Leave(where) == pc' = where /\ clock' = Stopped

TargetReached == ~ mode.continuous /\ measured = mode.frames

Wait ==
  /\ pc = "top"
  /\ IF signalled \/ TargetReached
     THEN Leave("stopping") /\ UNCHANGED excused
     ELSE \E sent \in Sendings(clock) :
            /\ pc' = "wait"
            /\ clock' = [Maintained(clock, sent) EXCEPT !.waited = 0]
            /\ excused' = (excused \/ (Beats(clock) /\ ~ sent))
  /\ UNCHANGED <<parsed, runVars, signalled, measured, invalid, samplerVars>>

\* wait_pop_for times out, or the queue is closed, or there is a frame; a signal
\* that came meanwhile wins.
Pop ==
  /\ pc = "wait"
  /\ \/ (signalled \/ capture # "running") /\ Leave("stopping")
     \/ ~ signalled /\ clock.waited = WaitTicks /\ pc' = "top" /\ UNCHANGED clock
     \/ ~ signalled /\ pc' = "work" /\ clock' = [clock EXCEPT !.progress = 0]
  /\ UNCHANGED <<parsed, runVars, signalled, measured, invalid, excused, samplerVars>>

\* The stream ends, or its recovery is exhausted: the queue is closed.
StreamEnds ==
  /\ capture = "running"
  /\ capture' = "ended"
  /\ UNCHANGED <<pc, parsed, mode, interval, outputs, report, code, shutdown, signalled, loopVars, samplerVars>>

InvalidFrame ==
  /\ invalid' = TRUE /\ pc' = "top"
  /\ UNCHANGED <<clock, excused, measured, code>>

\* It goes to the detector and the tracker, and back to the top of the loop.
WarmupFrame ==
  /\ pc' = "top"
  /\ UNCHANGED <<clock, excused, measured, invalid, code>>

\* Only after a measured frame does the loop see to the watchdog before it starts over.
MeasuredFrame ==
  /\ pc' = "top"
  /\ \E sent \in Sendings(clock) :
       /\ clock' = Maintained(clock, sent)
       /\ excused' = (excused \/ (Beats(clock) /\ ~ sent))
  /\ measured' = IF measured < MaxFrames THEN measured + 1 ELSE measured
  /\ UNCHANGED <<invalid, code>>

\* A detector, a journal or a writer throws, and main returns from its handler.
FrameFails ==
  /\ Leave("kill") /\ code' = 2
  /\ UNCHANGED <<excused, measured, invalid>>

Work ==
  /\ pc = "work"
  /\ InvalidFrame \/ WarmupFrame \/ MeasuredFrame \/ FrameFails
  /\ UNCHANGED <<parsed, mode, interval, capture, outputs, report, shutdown, signalled,
                 samplerVars>>

InLoop == pc \in {"top", "wait", "work"}

\* The stall that can cost a heartbeat its deadline.
Tolerance == interval - Half(interval) - WaitTicks + 1

\* Time passes while the loop waits or works; a wait ends in time.  The watchdog
\* strikes when its interval is over.
Tick ==
  /\ pc \in {"wait", "work"}
  /\ pc = "wait" => clock.waited < WaitTicks
  /\ interval > 0 => clock.beat < interval
  /\ clock' = IF interval = 0 THEN [clock EXCEPT !.waited = IF pc = "wait" THEN @ + 1 ELSE @]
              ELSE [progress |-> clock.progress + 1, beat |-> clock.beat + 1,
                    due |-> IF clock.due > 0 THEN clock.due - 1 ELSE 0,
                    waited |-> IF pc = "wait" THEN clock.waited + 1 ELSE clock.waited]
  /\ excused' = (excused \/ (interval > 0 /\ clock'.progress >= Tolerance))
  /\ UNCHANGED <<pc, parsed, runVars, signalled, measured, invalid, samplerVars>>

\* systemd aborts the process, and kills what is left of its control group.
WatchdogKill ==
  /\ InLoop /\ interval > 0 /\ clock.beat >= interval
  /\ pc' = "aborted" /\ clock' = Stopped
  /\ UNCHANGED <<parsed, runVars, signalled, measured, invalid, excused, samplerVars>>

-----------------------------------------------------------------------------
(* Shutdown                                                                *)

\* SIGTERM or SIGINT.  The handler is installed without SA_RESTART: if it is the
\* reader's thread that takes the signal, its getline fails, and it closes the pipe.
Signal ==
  /\ pc \notin {"parse", "exited", "aborted", "timedOut"}
  /\ ~ signalled
  /\ signalled' = TRUE
  /\ \/ UNCHANGED <<reader, samplerError>>
     \/ /\ reader = "reading"
        /\ reader' = "done"
        /\ samplerError' = (samplerError \/ ~ samples)
  /\ UNCHANGED <<pc, parsed, runVars, loopVars, child, childPid, samples, swallowed,
                 strayKill>>

\* The request is read, STOPPING sent, and the capture worker stopped.
StopCapture ==
  /\ pc = "stopping"
  /\ shutdown' = signalled
  /\ capture' = "stopped"
  /\ pc' = "flush"
  /\ UNCHANGED <<parsed, mode, interval, outputs, report, code, signalled, loopVars, samplerVars>>

\* The clips' last records are written, and the video's last frames; either may
\* throw, past the rest of main.
Flush ==
  /\ pc = "flush"
  /\ \/ /\ outputs' = IF outputs = "open" THEN "finished" ELSE outputs
        /\ pc' = "kill"
        /\ UNCHANGED code
     \/ outputs = "open" /\ code' = 2 /\ pc' = "kill" /\ UNCHANGED outputs
  /\ UNCHANGED <<parsed, mode, interval, capture, report, shutdown, signalled, loopVars, samplerVars>>

\* Mutated: the child is left to notice that nobody reads its output.
KillChild_Never ==
  /\ pc = "kill"
  /\ pc' = "join"
  /\ UNCHANGED <<parsed, runVars, signalled, loopVars, samplerVars>>

\* stop() of the sampler, called by main, by its destructor, or by both.  A child
\* between fork and exec takes the signal with the handler it has inherited; a
\* number that was waited for may by now be another process's.
KillChild ==
  /\ pc = "kill"
  /\ pc' = "join"
  /\ child' = IF childPid /\ child = "running" THEN "zombie" ELSE child
  /\ swallowed' = (swallowed \/ (childPid /\ child = "forked"))
  /\ strayKill' = (strayKill \/ (childPid /\ child = "reaped"))
  /\ UNCHANGED <<parsed, runVars, signalled, loopVars, childPid, reader, samples,
                 samplerError>>

JoinReader ==
  /\ pc = "join"
  /\ reader # "reading"
  /\ reader' = IF reader = "done" THEN "joined" ELSE reader
  /\ pc' = "reap"
  /\ UNCHANGED <<parsed, runVars, signalled, loopVars, child, childPid, samples,
                 samplerError, swallowed, strayKill>>

\* Mutated: the child that was waited for is not forgotten.
Reap_KeepsPid ==
  /\ pc = "reap"
  /\ childPid => child \in {"zombie", "reaped"}
  /\ child' = IF childPid THEN "reaped" ELSE child
  /\ pc' = IF code = NoCode THEN "report" ELSE "destroy"
  /\ UNCHANGED <<parsed, runVars, signalled, loopVars, childPid, reader, samples,
                 samplerError, swallowed, strayKill>>

\* waitpid, again if a signal interrupts it; a child that is gone already is an error
\* it does not repeat.
Reap ==
  /\ pc = "reap"
  /\ childPid => child \in {"zombie", "reaped"}
  /\ child' = IF childPid THEN "reaped" ELSE child
  /\ childPid' = FALSE
  /\ pc' = IF code = NoCode THEN "report" ELSE "destroy"
  /\ UNCHANGED <<parsed, runVars, signalled, loopVars, reader, samples, samplerError,
                 swallowed, strayKill>>

\* What was measured is summed up, for the report if there is to be one.
Report ==
  /\ pc = "report"
  /\ pc' = IF mode.metrics THEN "write" ELSE "conclude"
  /\ UNCHANGED <<parsed, runVars, signalled, loopVars, samplerVars>>

\* write_runtime_metrics_json: the report is written beside its place.  That it cannot
\* be opened or written is logged, and changes nothing; nor need the remains go away.
WriteReport ==
  /\ pc = "write"
  /\ \/ report' = "temporary" /\ pc' = "publish"
     \/ report' \in {"earlier", "temporary"} /\ pc' = "conclude"
  /\ UNCHANGED <<parsed, mode, interval, capture, outputs, shutdown, code, signalled, loopVars,
                 samplerVars>>

\* The rename; if it fails, what was written is removed, if it can be.
PublishReport ==
  /\ pc = "publish"
  /\ report' \in {"complete", "earlier", "temporary"}
  /\ pc' = "conclude"
  /\ UNCHANGED <<parsed, mode, interval, capture, outputs, shutdown, code, signalled, loopVars,
                 samplerVars>>

\* Success is the frame limit, or a shutdown asked for in time, without an invalid
\* frame.  The sampler's destructor is the first.
Conclude ==
  /\ pc = "conclude"
  /\ pc' = "kill"
  /\ code' = IF (shutdown \/ TargetReached) /\ ~ invalid THEN 0 ELSE 1
  /\ UNCHANGED <<parsed, mode, interval, capture, outputs, report, shutdown, signalled, loopVars,
                 samplerVars>>

\* The remaining destructors: the worker's and the writers'.
Destroy ==
  /\ pc = "destroy"
  /\ pc' = "exited"
  /\ capture' = IF capture \in {"running", "ended"} THEN "stopped" ELSE capture
  /\ outputs' = IF outputs = "open" THEN "closed" ELSE outputs
  /\ UNCHANGED <<parsed, mode, interval, report, code, shutdown, signalled, loopVars, samplerVars>>

\* TimeoutStopSec: systemd does not wait for a shutdown any longer.
StopTimeout ==
  /\ signalled \/ pc \in {"stopping", "flush", "kill", "join", "reap", "report", "write",
                          "publish", "conclude", "destroy"}
  /\ interval > 0 /\ pc \notin {"exited", "aborted", "timedOut"}
  /\ pc' = "timedOut" /\ clock' = Stopped
  /\ UNCHANGED <<parsed, runVars, signalled, measured, invalid, excused, samplerVars>>

-----------------------------------------------------------------------------
(* The child process and the reader thread                                 *)

\* exec succeeds, or the child exits with 127.
Exec ==
  /\ child = "forked"
  /\ child' \in {"running", "zombie"}
  /\ UNCHANGED <<pc, parsed, runVars, signalled, loopVars, childPid, reader, samples,
                 samplerError, swallowed, strayKill>>

ChildDies ==
  /\ child = "running"
  /\ child' = "zombie"
  /\ UNCHANGED <<pc, parsed, runVars, signalled, loopVars, childPid, reader, samples,
                 samplerError, swallowed, strayKill>>

\* parse_tegrastats_line: a line is a sample if it shows any of the quantities.
LineRead == {samples, TRUE}

ReadSample ==
  /\ reader = "reading" /\ child = "running"
  /\ samples' \in LineRead
  /\ UNCHANGED <<pc, parsed, runVars, signalled, loopVars, child, childPid, reader, samplerError,
                 swallowed, strayKill>>

\* The stream ends with the child, or could not be opened to begin with.
ReaderEnds ==
  /\ reader = "reading"
  /\ child = "zombie" \/ ~ samples
  /\ reader' = "done"
  /\ samplerError' = (samplerError \/ ~ samples)
  /\ UNCHANGED <<pc, parsed, runVars, signalled, loopVars, child, childPid, samples,
                 swallowed, strayKill>>

-----------------------------------------------------------------------------
Main ==
  \/ ReadArgument \/ Parse \/ Build \/ StartSampler \/ StartCapture \/ Ready
  \/ Wait \/ Pop \/ Work
  \/ StopCapture \/ Flush \/ KillChild \/ JoinReader \/ Reap
  \/ Report \/ WriteReport \/ PublishReport \/ Conclude \/ Destroy

Sampler == Exec \/ ChildDies \/ ReadSample \/ ReaderEnds

\* The process is gone, and nothing of it moves.
Over == pc \in {"exited", "aborted", "timedOut"}

Next ==
  \/ Main \/ Tick \/ WatchdogKill \/ Signal \/ StreamEnds \/ StopTimeout
  \/ ~ Over /\ Sampler
  \/ Over /\ UNCHANGED vars

\* The threads run, frames get done, fork is followed by exec, and a reader whose
\* pipe has no writer left reads its end.
Fairness ==
  /\ WF_vars(Main) /\ WF_vars(Tick)
  /\ WF_vars(~ Over /\ Exec) /\ WF_vars(~ Over /\ child = "zombie" /\ ReaderEnds)

Spec == Init /\ [][Next]_vars /\ Fairness
-----------------------------------------------------------------------------
(* Properties                                                              *)

Clocks ==
  [progress : 0 .. interval + Half(interval), beat : 0 .. interval,
   due : 0 .. Half(interval), waited : 0 .. WaitTicks]

TypeOK ==
  /\ pc \in {"parse", "build", "sample", "start", "ready", "top", "wait", "work",
             "stopping", "flush", "kill", "join", "reap", "report", "write", "publish",
             "conclude", "destroy", "exited", "aborted", "timedOut"}
  /\ mode \in [continuous : BOOLEAN, frames : Nat, reserve : BOOLEAN,
               metrics : BOOLEAN, outputs : BOOLEAN]
  /\ signalled \in BOOLEAN /\ shutdown \in BOOLEAN
  /\ measured \in 0 .. MaxFrames /\ invalid \in BOOLEAN
  /\ interval \in {0, WatchdogTicks} /\ clock \in Clocks
  /\ capture \in {"none", "running", "ended", "stopped"}
  /\ outputs \in {"none", "open", "finished", "closed"}
  /\ report \in {"earlier", "temporary", "complete"}
  /\ code \in {NoCode, 0, 1, 2}
  /\ child \in {"none", "forked", "running", "zombie", "reaped"} /\ childPid \in BOOLEAN
  /\ reader \in {"none", "reading", "done", "joined"}
  /\ samples \in BOOLEAN /\ samplerError \in BOOLEAN
  /\ excused \in BOOLEAN /\ swallowed \in BOOLEAN /\ strayKill \in BOOLEAN

\* What is built from the options satisfies what the other modules assume.
Verified(o) ==
  LET clip == ClipFrames(o)   times == RuleTimes(o)
  IN  /\ o.event_clip_dir /\ o.event_clip_share_overlap =>
           clip.shared >= clip.pre + clip.post + 1
      /\ o.event_roi_entry_seconds > 0 => times.entry > 0
      /\ o.event_line_confirm_seconds > 0 => times.line > 0
      /\ o.event_dwell_seconds > 0 => times.dwell > 0

\* What the rules refuse although the parser cannot tell.
Degenerate(o) ==
  \/ /\ o.event_roi # <<>>
     /\ (o.event_roi[3] - o.event_roi[1]) * (o.event_roi[4] - o.event_roi[2]) <= Epsilon
  \/ /\ o.event_line # <<>>
     /\ \A c \in 1 .. 2 : Squared(o.event_line[c + 2] - o.event_line[c]) <= Epsilon
  \/ 0 < o.event_dwell_seconds /\ o.event_dwell_seconds < Nanosecond

\* And what the clip writer refuses.
Unbounded(o) ==
  LET slack == o.event_clip_max_shared_seconds
                 - o.event_clip_pre_seconds - o.event_clip_post_seconds
  IN  \/ \E d \in {"event_clip_pre_seconds", "event_clip_post_seconds",
                   "event_clip_max_shared_seconds"} : o[d] * o.fps > FrameBound * Second
      \/ o.event_clip_share_overlap /\ 2 * slack * o.fps < Second

\* What is built satisfies what the other modules assume of their constants: the
\* clips' bound admits the frames of one event, a confirmation or a dwell that is
\* asked for does not round to nothing, and every limit is positive.  Of what the
\* parser accepts, the constructors refuse only what it cannot tell: geometry
\* within the tolerance, times below a nanosecond, clips beyond any bound, shared
\* ones whose limit leaves less than half a frame to rounding, and an address or
\* time limit of RTSP.
ConfiguredAsVerified ==
  pc = "build" =>
    LET o == parsed.options
    IN  /\ RestBuilds(o)
        /\ Built(o) => Verified(o)
        /\ ~ RulesBuild(o) => Degenerate(o)
        /\ ~ ClipsBuild(o) => Unbounded(o)

\* systemd aborts the service only after a stall of the frames that reached half the
\* interval, less one wait, or for a heartbeat that could not be sent; and no stall
\* outlasts one and a half intervals, whether nothing arrives or one frame takes too
\* long (maintain_watchdog).
WatchdogContract ==
  /\ pc = "aborted" => excused
  /\ InLoop /\ interval > 0 => clock.progress <= interval + Half(interval)

\* A process that has exited has reaped its child and joined its thread, and signalled
\* no process but its own; a sampler that saw nothing says so.  Its exit code is 0 only
\* after everything was finished in order and either the frame limit or a requested
\* shutdown was reached; and a shutdown in time is no failure by itself.  The report of
\* the run before is replaced, however this one ends, only by one about capture, outputs
\* and telemetry that had come to their ends, and by no run that failed.
EndsClean ==
  /\ ~ strayKill
  /\ report = "complete" =>
       /\ mode.metrics /\ code # 2
       /\ capture = "stopped" /\ outputs \in {"none", "finished"}
       /\ child \in {"none", "reaped"} /\ reader \in {"none", "joined"}
  /\ pc = "exited" =>
       /\ child \in {"none", "reaped"} /\ reader \in {"none", "joined"}
       /\ reader = "joined" /\ ~ samples => samplerError
       /\ capture \in {"none", "stopped"} /\ outputs # "open"
       /\ code = 0 => /\ capture = "stopped" /\ outputs \in {"none", "finished"}
                      /\ ~ invalid
                      /\ shutdown \/ measured = mode.frames
       /\ shutdown /\ ~ invalid => code \in {0, 2}

\* A signal ends the service, and so does whatever else makes it leave its loop: main
\* does not wait for ever for the thread that reads from the child.  The exception is
\* a SIGTERM that reached the child before it became tegrastats.
StopReturns ==
  /\ signalled ~> (Over \/ swallowed)
  /\ pc = "stopping" ~> (Over \/ swallowed)
=============================================================================
