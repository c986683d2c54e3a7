CONSTANTS
  Message = {1, 2, 3}
  MaxConnectRetries = 2
  MaxFailures = 2
SPECIFICATION Spec
INVARIANTS PendingIsKept
CHECK_DEADLOCK FALSE
