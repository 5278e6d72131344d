CONSTANTS
  Classes = {1, 2}
  Detections = {1}
  Scores = {"low", "new"}
  MaxTimeLost = 1
  TrackBuffer = 1
  WarmupFrames = 1
  MaxSeq = 6
  Jumps = {1, 4}
  MaxGeneration = 2
SPECIFICATION Spec
INVARIANTS
  TypeOK
  OneStreamEach
PROPERTIES
  IdentityIsContinuous
