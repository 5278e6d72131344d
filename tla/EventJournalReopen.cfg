CONSTANTS
  Ids = {e1, e2}
  Torn = torn
  Newline = newline
  Nobody = nobody
SPECIFICATION Spec
INVARIANTS
  ReopenSucceeds
