SPECIFICATION Spec
CONSTANTS
  Messages <- AllMessages
  Worlds <- AllWorlds
CHECK_DEADLOCK FALSE
INVARIANTS
  AtMostOnce
  RecordIsTrue
  TurnsReadBack
