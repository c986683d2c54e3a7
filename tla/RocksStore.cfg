CONSTANTS
  k1 = k1
  k2 = k2
  Key = {k1, k2}
  KeyOf <- MCKeyOf
  MaxWrites = 4
  MaxCheckpoints = 3
  LogEnabled = TRUE
  LogLimit = 1
  MinSnapshots = 0
  Failing = {"log", "files", "current", "delete"}
  Crashes = {"diskLost", "diskKept"}
  Operator = {"complete"}
SPECIFICATION FairSpec
INVARIANTS RTypeOK CurrentIsComplete SettledIsCommitted UploadedIsRecoverable
PROPERTIES RecoveryKeepsWrites WritesReachRemote
CHECK_DEADLOCK FALSE
