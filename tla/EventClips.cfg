\* One clip per event, one of which may be handed in again.
CONSTANTS
  Pre = 1
  Post = 1
  MaxActive = 2
  QueueCapacity = 2
  Share = FALSE
  MaxSharedFrames = 0
  MaxEventsPerClip = 1
  EncoderFails = FALSE
  Resubmit = TRUE
  MaxFrames = 4
  MaxEvents = 3
  MaxPerFrame = 2
  MaxStreams = 1
SPECIFICATION Spec
INVARIANTS
  TypeOK
  CapacityCovers
  EveryEventOnce
  NoSecondMembership
  PublishedClipExists
