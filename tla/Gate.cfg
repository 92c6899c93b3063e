SPECIFICATION Spec
CONSTANTS
  None = None
  Root = Root
  Sub = Sub
  Worlds <- GateWorlds
INVARIANTS RanAsShown CommandAccounted GaveUpIsGone
PROPERTY EveryAttemptSettles
CHECK_DEADLOCK FALSE
