CONSTANTS
  p1 = p1
  p2 = p2
  n1 = n1
  n2 = n2
  c1 = c1
  c2 = c2
  Path = {p1, p2}
  Process = {n1, n2}
  NoProcess = NoProcess
  Owner <- MCOwner
  Priority <- MCPriority
  OrphanedAfter <- MCOrphanedAfter
  HeartbeatTimeout = 0
  Concurrency = 1
  Handle <- MCHandle
  None = None
  Waiter = {c1, c2}
  Client = {c1, c2}
  KeyOf <- MCKeyOf
  ForceBuild = {c1}
  IsJob = {}
  Crashable = {n1}
  Failing = {n1}
  Cancelling = {n1}
  MaxId = 2
SPECIFICATION QSpec
INVARIANTS QTypeOK LeaseHeld RunsAtOwner
PROPERTIES ResultFromOwnCall ReconcileServesLateCallers
CHECK_DEADLOCK FALSE
