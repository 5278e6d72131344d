\* Clips shared by overlapping events, an encoder that may fail, and a queue
\* smaller than the total capacity.
CONSTANTS
  Pre = 1
  Post = 2
  MaxActive = 2
  QueueCapacity = 1
  Share = TRUE
  MaxSharedFrames = 4
  MaxEventsPerClip = 2
  EncoderFails = TRUE
  Resubmit = FALSE
  MaxFrames = 5
  MaxEvents = 3
  MaxPerFrame = 2
  MaxStreams = 1
SPECIFICATION Spec
INVARIANTS
  FrameBudget
  OneStreamPerClip
  WindowCovered
  CountersBalance
PROPERTIES
  StopReturns
