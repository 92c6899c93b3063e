SPECIFICATION LeaseSpec
CONSTANTS
  Ttl = 12
  Cadence = 4
  Margin = 2
  Late = 1
  MaxHandover = 0
  MaxDelay = 5
  MaxMisses = 3
  MaxSkew = 1
  MaxLeases = 2
  Horizon = 20
CHECK_DEADLOCK FALSE
INVARIANTS
  HeldIsLive
  EndedLapses
PROPERTIES
  DeadlineNeverBack
