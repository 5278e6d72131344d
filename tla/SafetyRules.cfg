\* One track: the rules treat each track by itself.
CONSTANTS
  Tracks = {a}
  ConfirmationFrames = 2
  ExitMargins = {TRUE, FALSE}
  ExitConfirmations = {0, 2}
  EntryConfirmations = {0, 1}
  RoiStaleAfter = 2
  DwellTime = 2
  MaxGap = 1
  Rearms = {TRUE, FALSE}
  DwellStaleAfter = 3
  LinePlaces <- MCLinePlaces
  LineStart <- MCLineStart
  LineEnd <- MCLineEnd
  SideEpsilon = 0
  LineRules <- MCLineRules
  LineStaleAfter = 2
  RoiBounds <- MCRoiBounds
  DwellBounds <- MCDwellBounds
  LineBounds <- MCLineBounds
  GridSize = 4
SPECIFICATION Spec
INVARIANTS
  TypeOK
  IntrusionIsObserved
  RearmedDwellIsWatched
  CrossingIsObserved
  InsideIsInATriangle
  IntersectionSeparates
PROPERTIES
  NoReentryWithoutDeparture
  OneDwellPerVisit
