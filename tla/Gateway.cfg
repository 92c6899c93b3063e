SPECIFICATION LiveSpec
CONSTANTS
  Rungs = 3
  Denies = TRUE
  MaxRetries = 1
  MaxStreamRetry = 1
  MaxResume = 1
  MaxStreamResume = 1
  MaxDeltas = 1
  Swaps = {0}
CHECK_DEADLOCK FALSE
INVARIANTS
  ShownIsAnswer
  SwitchAnnounced
  RequestsBounded
PROPERTY
  EveryCallEnds
