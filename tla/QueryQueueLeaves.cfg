CONSTANTS
  p1 = p1
  p2 = p2
  n1 = n1
  n2 = n2
  c1 = c1
  c2 = c2
  Path = {p1}
  Process = {n1, n2}
  NoProcess = NoProcess
  Owner <- MCOwner
  Priority <- MCPriority
  OrphanedAfter <- MCOrphanedAfter
  HeartbeatTimeout = 0
  Concurrency = 1
  Handle = {}
  None = None
  Waiter = {c1}
  Client = {c1}
  KeyOf <- MCKeyOf
  ForceBuild = {}
  IsJob = {c1}
  Crashable = {n1}
  Failing = {}
  Cancelling = {}
  MaxId = 2
SPECIFICATION FairQSpec
PROPERTIES RowsLeave
CHECK_DEADLOCK FALSE
