\* The rule against the gap limit the documents give it.
CONSTANTS
  Tracks = {a}
  Places = {"in", "out"}
  ConfirmationFrames = 2
  DwellTime = 2
  MaxGap = 1
  Rearms = {TRUE, FALSE}
  StaleAfter = 3
  MaxSeq = 9
  MaxJump = 4
  MaxPtsStep = 1
  MaxGeneration = 1
SPECIFICATION Spec
INVARIANTS
  DwellIsWatched
