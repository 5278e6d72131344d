\* Events handed in again while clips are shared.
CONSTANTS
  Pre = 1
  Post = 1
  MaxActive = 2
  QueueCapacity = 2
  Share = TRUE
  MaxSharedFrames = 4
  MaxEventsPerClip = 2
  EncoderFails = FALSE
  Resubmit = TRUE
  MaxFrames = 4
  MaxEvents = 3
  MaxPerFrame = 2
  MaxStreams = 1
SPECIFICATION Spec
INVARIANTS
  NoSecondMembership
