SPECIFICATION LooseSpec
CONSTANTS
  e1 = e1
  e2 = e2
  rq = rq
  NoEngine = NoEngine
  NoItem = NoItem
  NoLimit = NoLimit
  Engines = {e1, e2}
  Items = {}
  StoreMaxEvents = 2
  StoreMaxBytes = 2
  MaxEventBytes = 3
  BatchMaxEvents = 2
  BatchMaxBytes = 2
  HostLimit = NoLimit
  MaxAttempts = 2
  Sizes = {1}
  RecordSizes = {}
  MaxPushed = 2
SYMMETRY Symmetry
CHECK_DEADLOCK FALSE
INVARIANTS
  NoDuplicate
  AckedIsDurable
  LogSound
