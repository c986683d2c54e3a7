CONSTANTS
  k1 = k1
  k2 = k2
  Key = {k1, k2}
  KeyOf <- MCKeyOfLong
  MaxWrites = 5
  MaxCheckpoints = 3
  LogEnabled = TRUE
  LogLimit = 1
  MinSnapshots = 0
  Failing = {"delete"}
  Crashes = {"diskLost", "diskKept"}
  Operator = {"complete"}
SPECIFICATION Spec
INVARIANTS RecoveryIsCommitted
CHECK_DEADLOCK FALSE
