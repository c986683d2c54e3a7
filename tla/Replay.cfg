CONSTANTS
  p1 = p1
  p2 = p2
  Part = {p1, p2}
  PartOf <- Turns
  MaxSeq = 3
  MaxHandle = 3
  MaxCrash = 1
  Faults = {"crash", "ingest", "stop"}
SPECIFICATION Spec
INVARIANTS ReplayTypeOK RowsKept
PROPERTIES LossIsRecorded MergeKeepsStart
CHECK_DEADLOCK FALSE
