\* One property at a time: each is violated.
SPECIFICATION Spec
CONSTANTS
  Messages <- AllMessages
  Worlds <- FindingWorlds
INVARIANTS ResumedAsAsker ParkAnswerable NeverStuck RejectedLeavesNoTurn
CHECK_DEADLOCK FALSE
