------------------------------ MODULE MCService -----------------------------
(***************************************************************************)
(* Service with the command lines to start it with: a few complete ones,   *)
(* each with none, one or two further options, valued at and beside the    *)
(* limits.                                                                 *)
(***************************************************************************)
EXTENDS Service

Flag(name) == [name |-> name, given |-> TRUE]
Option(name, value) == [name |-> name, given |-> TRUE, value |-> value]

Bases ==
  LET required == <<Option("engine", TRUE), Flag("csi")>>
      region == <<Option("event_roi", <<0, 0, 1000, 1000>>),
                  Option("event_jsonl", TRUE), Option("event_clip_dir", TRUE)>>
  IN  {<<>>, required,
       <<Option("engine", TRUE), Option("rtsp", TRUE), Flag("continuous"),
         Option("metrics_json", TRUE)>>,
       required \o region \o <<Option("frames", 1), Option("metrics_json", TRUE)>>,
       required \o region \o
         <<Flag("event_clip_share_overlap"), Option("event_clip_pre_seconds", 4),
           Option("event_clip_post_seconds", 4), Option("event_dwell_seconds", 80)>>}

Options(names, values) == {Option(name, v) : name \in names, v \in values}

Extras ==
  {Flag(name) : name \in Flags \cup {"csi", "unknown"}}
    \cup {[name |-> "fps", given |-> FALSE]}
    \cup Options({"engine", "event_jsonl", "event_clip_dir", "output_video", "rtsp"},
                 {TRUE, FALSE})
    \cup Options({"frames", "fps", "rtsp_latency_ms", "event_clip_bitrate_kbps"}, {-1, 0, 1})
    \cup Options({"queue_capacity", "track_buffer", "output_queue_capacity",
                  "output_bitrate_kbps", "tegrastats_interval_ms"}, {0})
    \cup Options({"frames", "metrics_window_frames"}, {9000})
    \cup Options({"event_clip_capacity"}, {0, 8, 9})
    \cup Options({"event_clip_max_shared_events"}, {0, 256, 257})
    \cup Options({"event_class_id"}, {-2, -1})
    \cup Options({"score_threshold", "track_threshold", "new_track_threshold"},
                 {0, 50, 60, 101})
    \cup Options({"nms_threshold", "match_threshold"}, {80})
    \cup Options({"detector"}, {"yolo26", "other"})
    \cup Options({"event_roi"}, {<<0, 0, 1, 2>>, <<0, 0, 2, 2>>, <<5, 0, 5, 9>>,
                                 <<0, 0, 2001, 9>>})
    \cup Options({"event_line"}, {<<0, 0, 2, 0>>, <<0, 0, 3, 0>>, <<5, 5, 5, 5>>})
    \cup Options({"event_roi_exit_margin"}, {25, 26})
    \cup Options({"event_roi_entry_seconds", "event_line_confirm_seconds",
                  "event_roi_exit_seconds", "event_dwell_seconds"},
                 {0, 1, 4, 4800, 4801})
    \cup Options({"event_clip_pre_seconds", "event_clip_post_seconds"}, {0, 5})
    \cup Options({"event_clip_max_shared_seconds"}, {0, 8, 9, 10, 12, 4800, 4801})

\* The order of two arguments matters only if it is the same option twice.
Pairs ==
  {IF p[1].name = p[2].name THEN p ELSE CHOOSE q \in {p, <<p[2], p[1]>>} : TRUE :
     p \in Extras \X Extras}

MCCommandLines ==
  {base \o more : base \in Bases, more \in {<<>>} \cup {<<a>> : a \in Extras} \cup Pairs}
=============================================================================
