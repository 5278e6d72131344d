CONSTANTS
  Ids = {e1, e2, e3}
  Torn = torn
  Newline = newline
  Nobody = nobody
SPECIFICATION Spec
INVARIANTS
  TypeOK
  EvidenceBeforeRecord
  RecordIsKept
