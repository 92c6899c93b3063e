SPECIFICATION Spec
CONSTANTS
  MaxPending = 2
  MaxSeen = 4
  Mails = {m1}
  Plans <- Mixed
  MaxProgress = 1
  Waits = TRUE
  RestoresTwice = FALSE
  NoFile = NoFile
CHECK_DEADLOCK FALSE
INVARIANTS
  QueueIsTrue
  NoLostWakeup
  EndsReported
