----------------------------- MODULE RunOptions -----------------------------
(***************************************************************************)
(* The command line of the service and what is built from it               *)
(* (src/apps/realtime_detect.cpp and the constructors it calls).           *)
(*                                                                         *)
(* A configuration is validated twice: parse_options reads and compares    *)
(* the options, and every component it configures checks the values again, *)
(* in units of its own.  What the first lets through and the second does   *)
(* not is found only once the engine has been loaded.                      *)
(*                                                                         *)
(* An option has the name of its field in Options.  Probabilities are in   *)
(* hundredths; durations, coordinates and the limits on them are in the    *)
(* units the constants give.                                               *)
(***************************************************************************)
EXTENDS Integers, Sequences

CONSTANTS
  Second,         \* a second and a nanosecond: closer together than they are,
  Nanosecond,     \*   in an order no value between them depends on
  FrameBound,     \* the most frames a clip may span: 10,000,000
  Unit,           \* the far edge of the frame; kGeometryEpsilon is Epsilon / Unit^2
  Epsilon

ASSUME UnitAssumption ==
  /\ Second \in Nat \ {0} /\ Nanosecond \in Nat \ {0} /\ Nanosecond <= Second
  /\ FrameBound \in Nat /\ Unit \in Nat \ {0} /\ Epsilon \in Nat

-----------------------------------------------------------------------------
(* parse_options                                                           *)

\* Options before the command line is read.  An optional rule is <<>> or 0
\* when it is absent, a path is whether it is given.
Defaults ==
  [source_type |-> "none", engine |-> FALSE, detector |-> "yolox", rtsp_uri |-> TRUE,
   frames |-> 300, continuous |-> FALSE, warmup_frames |-> 0, queue_capacity |-> 2,
   score_threshold |-> 30, nms_threshold |-> 45, track_threshold |-> 50,
   new_track_threshold |-> 60, match_threshold |-> 80, track_buffer |-> 30,
   event_roi |-> <<>>, event_roi_exit_margin |-> 0, event_roi_exit_seconds |-> 0,
   event_roi_entry_seconds |-> 0, event_line |-> <<>>, event_line_direction |-> "any",
   event_line_confirm_seconds |-> 0, event_dwell_seconds |-> 0,
   event_dwell_rearm_on_exit |-> FALSE, event_class_id |-> 0,
   event_jsonl |-> FALSE, event_snapshot_dir |-> FALSE, event_clip_dir |-> FALSE,
   event_clip_pre_seconds |-> 2 * Second, event_clip_post_seconds |-> 3 * Second,
   event_clip_encoder |-> "mp4v", event_clip_capacity |-> 2,
   event_clip_bitrate_kbps |-> 10000, event_clip_share_overlap |-> FALSE,
   event_clip_max_shared_seconds |-> 10 * Second, event_clip_max_shared_events |-> 32,
   output_video |-> FALSE, output_encoder |-> "x264", output_bitrate_kbps |-> 10000,
   output_queue_capacity |-> 4, metrics_json |-> FALSE, tegrastats_interval_ms |-> 500,
   metrics_window_frames |-> 4096, log_interval |-> 30, reconnect_attempts |-> 3,
   reconnect_delay_ms |-> 1000, rtsp_transport |-> "tcp", rtsp_latency_ms |-> 200,
   rtsp_timeout_ms |-> 5000, width |-> 1280, height |-> 720, fps |-> 30]

Flags == {"continuous", "event_dwell_rearm_on_exit", "event_clip_share_overlap"}
Paths == {"engine", "event_jsonl", "event_snapshot_dir", "event_clip_dir",
          "output_video", "metrics_json"}
Probabilities == {"score_threshold", "nms_threshold", "track_threshold",
                  "new_track_threshold", "match_threshold"}
Corners == {"event_roi", "event_line"}
Durations == {"event_roi_exit_margin", "event_roi_exit_seconds",
              "event_roi_entry_seconds", "event_line_confirm_seconds",
              "event_clip_pre_seconds", "event_clip_post_seconds"}
PositiveDurations == {"event_dwell_seconds", "event_clip_max_shared_seconds"}
Words ==
  [event_line_direction |-> {"any", "negative-to-positive", "positive-to-negative"},
   detector |-> {"yolox", "yolo26"}, event_clip_encoder |-> {"mp4v", "x264"},
   output_encoder |-> {"mp4v", "x264"}, rtsp_transport |-> {"tcp", "udp"}]
Counts ==
  {"frames", "warmup_frames", "queue_capacity", "track_buffer", "event_clip_capacity",
   "event_clip_bitrate_kbps", "event_clip_max_shared_events", "output_bitrate_kbps",
   "output_queue_capacity", "tegrastats_interval_ms", "metrics_window_frames",
   "log_interval", "reconnect_attempts", "reconnect_delay_ms", "rtsp_latency_ms",
   "rtsp_timeout_ms", "width", "height", "fps"}

\* The value's text is one the option's parse_ function reads.  The exit margin is
\* in hundredths too.
Readable(name, value) ==
  \/ name \in Paths /\ value \in BOOLEAN
  \/ name \in Counts /\ value \in Nat
  \/ name = "event_class_id" /\ value \in Int /\ value >= -1
  \/ name \in Probabilities /\ value \in 1 .. 100
  \/ name \in Corners /\ value \in [1 .. 4 -> 0 .. Unit]
  \/ name \in Durations /\ value \in Nat
  \/ name \in PositiveDurations /\ value \in Nat \ {0}
  \/ name \in DOMAIN Words /\ value \in Words[name]

\* What parse_options has read so far, whether an argument made it throw, and the
\* arguments it has not come to.
Unread(commandLine) ==
  [options |-> Defaults, provided |-> {}, failed |-> FALSE, rest |-> commandLine]

\* The next argument is read, with its value.
Read(parsed) ==
  LET o == parsed.options
      argument == Head(parsed.rest)
      Taken(options) ==
        [options |-> options, provided |-> parsed.provided \cup {argument.name},
         failed |-> FALSE, rest |-> Tail(parsed.rest)]
      failed == [parsed EXCEPT !.failed = TRUE]
  IN  CASE argument.name \in Flags -> Taken([o EXCEPT ![argument.name] = TRUE])
        [] argument.name \in {"file", "csi", "rtsp"} ->
             IF o.source_type # "none" \/ (argument.name # "csi" /\ ~ argument.given)
             THEN failed
             ELSE Taken([o EXCEPT !.source_type = argument.name,
                                  !.rtsp_uri = argument.name = "rtsp" => argument.value])
        [] OTHER -> IF argument.given /\ Readable(argument.name, argument.value)
                    THEN Taken([o EXCEPT ![argument.name] = argument.value])
                    ELSE failed

Confirmation(seconds) == seconds = 0 \/ (Nanosecond <= seconds /\ seconds <= 60 * Second)

\* The options every run needs, and the limits of its pipeline.
Complete(o) ==
  /\ o.engine /\ o.source_type # "none"
  /\ o.continuous \/ o.frames > 0
  /\ \A name \in {"queue_capacity", "output_queue_capacity", "output_bitrate_kbps",
                  "tegrastats_interval_ms", "metrics_window_frames", "log_interval",
                  "width", "height", "fps", "track_buffer"} : o[name] > 0
  /\ o.score_threshold < o.track_threshold
  /\ o.track_threshold <= o.new_track_threshold

\* An option needs the one it refines, and contradicts the one it replaces.
Consistent(o, provided) ==
  /\ ~ (o.continuous /\ "frames" \in provided)
  /\ o.detector = "yolo26" => Probabilities \subseteq provided
  /\ "event_roi_entry_seconds" \in provided => o.event_roi # <<>>
  /\ "event_line_confirm_seconds" \in provided => o.event_line # <<>>
  /\ (o.event_roi_exit_margin > 0 \/ o.event_roi_exit_seconds > 0) => o.event_roi # <<>>
  /\ o.event_dwell_rearm_on_exit => o.event_dwell_seconds > 0
  /\ o.event_dwell_seconds > 0 => o.event_roi # <<>>
  /\ o.event_jsonl => o.event_roi # <<>> \/ o.event_line # <<>>
  /\ o.event_snapshot_dir \/ o.event_clip_dir => o.event_jsonl

RulesInBounds(o) ==
  /\ Confirmation(o.event_roi_entry_seconds) /\ Confirmation(o.event_line_confirm_seconds)
  /\ o.event_roi_exit_margin <= 25 /\ o.event_roi_exit_seconds <= 60 * Second
  /\ o.event_roi # <<>> => /\ o.event_roi[1] < o.event_roi[3]
                           /\ o.event_roi[2] < o.event_roi[4]
  /\ o.event_line # <<>> => \/ o.event_line[1] # o.event_line[3]
                            \/ o.event_line[2] # o.event_line[4]

ClipsInBounds(o, provided) ==
  /\ o.event_clip_capacity \in 1 .. 8 /\ o.event_clip_bitrate_kbps > 0
  /\ o.event_clip_max_shared_seconds <= 60 * Second
  /\ o.event_clip_max_shared_events \in 1 .. 256
  /\ IF o.event_clip_share_overlap
     THEN /\ o.event_clip_dir
          /\ o.event_clip_pre_seconds + o.event_clip_post_seconds
               <= o.event_clip_max_shared_seconds
     ELSE {"event_clip_max_shared_seconds", "event_clip_max_shared_events"}
            \cap provided = {}

Accepted(parsed) ==
  LET o == parsed.options
  IN  /\ ~ parsed.failed
      /\ Complete(o) /\ Consistent(o, parsed.provided)
      /\ RulesInBounds(o) /\ ClipsInBounds(o, parsed.provided)

-----------------------------------------------------------------------------
(* The configurations of the components, and their constructors' checks    *)

\* llround of a number of nanoseconds.
Nanoseconds(duration) == (2 * duration + Nanosecond) \div (2 * Nanosecond)

\* frame_count: llround of the frames in a duration.
FrameCount(o, duration) == (2 * duration * o.fps + Second) \div (2 * Second)

\* What make_event_config gives the rules: their times in nanoseconds.
RuleTimes(o) ==
  [entry |-> Nanoseconds(o.event_roi_entry_seconds),
   exit |-> Nanoseconds(o.event_roi_exit_seconds),
   line |-> Nanoseconds(o.event_line_confirm_seconds),
   dwell |-> Nanoseconds(o.event_dwell_seconds)]

\* What the clip writer computes from its configuration.
ClipFrames(o) ==
  [pre |-> FrameCount(o, o.event_clip_pre_seconds),
   post |-> FrameCount(o, o.event_clip_post_seconds),
   shared |-> FrameCount(o, o.event_clip_max_shared_seconds) + 1]

Squared(x) == x * x

RulesBuild(o) ==
  /\ o.event_roi # <<>> =>
       2 * (o.event_roi[3] - o.event_roi[1]) * (o.event_roi[4] - o.event_roi[2]) > Epsilon
  /\ o.event_line # <<>> =>
       Squared(o.event_line[3] - o.event_line[1]) + Squared(o.event_line[4] - o.event_line[2])
         > Epsilon
  /\ LET times == RuleTimes(o)   limit == Nanoseconds(60 * Second)
     IN  /\ times.entry <= limit /\ times.exit <= limit /\ times.line <= limit
         /\ o.event_dwell_seconds > 0 => times.dwell > 0

\* Mutated: the bound on a shared clip is compared in seconds, as the parser does.
ClipsBuild_InSeconds(o) ==
  o.event_clip_dir =>
    /\ \A name \in {"event_clip_pre_seconds", "event_clip_post_seconds",
                    "event_clip_max_shared_seconds"} : o[name] * o.fps <= FrameBound * Second
    /\ o.event_clip_share_overlap =>
         o.event_clip_pre_seconds + o.event_clip_post_seconds
           <= o.event_clip_max_shared_seconds

\* validate_config of the clip writer: the bound is compared in frames.
ClipsBuild(o) ==
  o.event_clip_dir =>
    /\ \A name \in {"event_clip_pre_seconds", "event_clip_post_seconds",
                    "event_clip_max_shared_seconds"} : o[name] * o.fps <= FrameBound * Second
    /\ o.event_clip_share_overlap =>
         ClipFrames(o).pre + ClipFrames(o).post <= ClipFrames(o).shared - 1

SourceBuilds(o) ==
  o.source_type = "rtsp" =>
    o.rtsp_uri /\ o.rtsp_latency_ms > 0 /\ o.rtsp_timeout_ms > 0

\* The detector's postprocessor, the tracker, the frame queue, the video writer and
\* the telemetry sampler.
RestBuilds(o) ==
  /\ \A name \in Probabilities : 0 <= o[name] /\ o[name] <= 100
  /\ o.track_threshold <= o.new_track_threshold
  /\ o.fps > 0 /\ o.track_buffer > 0 /\ o.queue_capacity > 0
  /\ o.output_video => /\ o.output_queue_capacity > 0
                       /\ o.output_encoder = "x264" => o.output_bitrate_kbps > 0
  /\ o.event_clip_dir => /\ o.event_clip_encoder = "x264" => o.event_clip_bitrate_kbps > 0
                         /\ o.event_clip_capacity > 0
                         /\ o.event_clip_max_shared_events \in 1 .. 256
  /\ o.metrics_json => o.tegrastats_interval_ms > 0

Built(o) == RulesBuild(o) /\ ClipsBuild(o) /\ SourceBuilds(o) /\ RestBuilds(o)
=============================================================================
