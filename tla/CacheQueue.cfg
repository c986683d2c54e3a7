CONSTANTS
  p1 = p1
  p2 = p2
  n1 = n1
  n2 = n2
  Path = {p1, p2}
  Process = {n1, n2}
  NoProcess = NoProcess
  Owner <- MCOwner
  Priority <- MCPriority
  OrphanedAfter <- MCOrphanedAfter
  HeartbeatTimeout = 0
  Concurrency = 1
  Handle = {h1}
  None = None
  Waiter = {w1, w2}
  MaxId = 2
SPECIFICATION Spec
INVARIANTS TypeOK OneRowPerPath ConcurrencyBound NoLostWakeup Provenance AnswerIsAcked
PROPERTIES ImplementsJobQueue
CHECK_DEADLOCK FALSE
