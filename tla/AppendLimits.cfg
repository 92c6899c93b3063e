SPECIFICATION LimitsSpec
CONSTANTS
  e1 = e1
  e2 = e2
  rq = rq
  NoEngine = NoEngine
  NoItem = NoItem
  NoLimit = NoLimit
  Engines = {e1}
  Items = {rq}
  StoreMaxEvents = 2
  StoreMaxBytes = 2
  MaxEventBytes = 3
  BatchMaxEvents = 2
  BatchMaxBytes = 2
  HostLimit = NoLimit
  MaxAttempts = 2
  Sizes <- MCSizes
  RecordSizes = {}
  MaxPushed = 3
CHECK_DEADLOCK FALSE
INVARIANTS
  OpenedAndShown
PROPERTIES
  EverySettles
  ImplementsDurableLog
