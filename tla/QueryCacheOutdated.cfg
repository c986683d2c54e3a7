CONSTANTS
  r1 = r1
  r2 = r2
  Nobody = Nobody
  Request = {r1}
  MaxVersion = 1
  Recurs = FALSE
  Settings <- OneClient
SPECIFICATION Spec
INVARIANTS EntryAsNewAsKey
CHECK_DEADLOCK FALSE
