SPECIFICATION Spec
CONSTANTS
  Assign <- Assigns
  FlagWord <- Flags
  NonLiteral = {"$d", "$f"}
  Absolute = {}
  Unknown = Unknown
  Lines <- AllLines
  Configs <- SomeConfigs
  Dirs <- TwoDirs
  MaxPlans = 2
CHECK_DEADLOCK FALSE
INVARIANTS
  NothingUnallowed
  PlanHolds
