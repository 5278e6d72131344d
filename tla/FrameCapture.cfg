CONSTANTS
  Capacity = 2
  MaxAttempts = 2
  MaxFrames = 3
SPECIFICATION Spec
INVARIANTS
  TypeOK
  QueueContract
  GenerationMarksPipeline
  RestartBudget
PROPERTIES
  StopContract
  Progress
  StreamSpec
