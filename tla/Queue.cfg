SPECIFICATION FairSpec
CONSTANTS
  Files = {f1, f2}
  Blobs = {b1}
  NoBlob = none
  Sizes = {1}
  MaxPending = 2
  MaxPendingBytes = 9
  Flushers = {w1, w2}
  MaxPushed = 3
  MaxFlushes = 1
  MaxFailures = 2
CHECK_DEADLOCK FALSE
INVARIANTS
  LinesAccounted
  FlushCovered
PROPERTIES
  EventuallyWritten
