CONSTANTS
  Capacity = 2
  LabelFrames = 2
  SinkFails = TRUE
  MaxFrames = 6
  MaxJump = 2
  MaxEvents = 2
SPECIFICATION Spec
INVARIANTS
  TypeOK
  PacketsAccounted
  EventsAreShown
PROPERTIES
  StopContract
