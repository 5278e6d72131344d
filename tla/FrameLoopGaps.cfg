CONSTANTS
  Classes = {1}
  Detections = {1}
  Scores = {"low", "new"}
  MaxTimeLost = 1
  TrackBuffer = 1
  WarmupFrames = 1
  MaxSeq = 7
  Jumps = {1, 4}
  MaxGeneration = 2
SPECIFICATION Spec
PROPERTY GapsAgeTracks
