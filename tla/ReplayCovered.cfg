CONSTANTS
  p1 = p1
  p2 = p2
  Part = {p1, p2}
  PartOf <- Turns
  MaxSeq = 3
  MaxHandle = 4
  MaxCrash = 1
  Faults = {"crash", "stop"}
SPECIFICATION Spec
PROPERTIES CoveredIsReplayed
CHECK_DEADLOCK FALSE
