CONSTANTS
  r1 = r1
  r2 = r2
  Nobody = Nobody
  Request = {r1, r2}
  MaxVersion = 1
  Recurs = TRUE
  Settings <- OneOrTwo
SPECIFICATION FairSpec
INVARIANTS QueryCacheTypeOK
PROPERTIES RequestsEnd EventuallyFresh
CHECK_DEADLOCK FALSE
