CONSTANTS
  b1 = b1
  b2 = b2
  Batch = {b1, b2}
  KeysOf <- Batches
  Worker = {w1, w2}
  MaxKey = 3
  MaxPart = 5
  MaxChunk = 4
  MaxFaults = 1
SYMMETRY Loops
SPECIFICATION Spec
INVARIANTS PartitionsTypeOK RowsOnce RangesTile TreeIsWhole StaysReady
CHECK_DEADLOCK FALSE
