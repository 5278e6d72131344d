CONSTANTS
  Second = 80
  Nanosecond = 4
  FrameBound = 1000
  Unit = 2000
  Epsilon = 4
  CommandLines <- MCCommandLines
  WatchdogTicks = 6
  WaitTicks = 1
  MaxReserve = 8000
  MaxFrames = 1
SPECIFICATION Spec
INVARIANTS
  TypeOK
  ConfiguredAsVerified
  WatchdogContract
  EndsClean
PROPERTIES
  StopReturns
