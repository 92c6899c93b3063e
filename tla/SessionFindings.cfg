SPECIFICATION SessionSpec
CONSTANTS
  Procs = {p1, p2}
  Actors = {run, bus}
  Reader = exporter
  exporter = exporter
  Records = {s1, s2}
  Jobs = {j1, j2, j3}
  Letters = {m1, m2}
  Null = Null
  Unset = Unset
  p1 = p1
  p2 = p2
  run = run
  bus = bus
  s1 = s1
  s2 = s2
  j1 = j1
  j2 = j2
  j3 = j3
  m1 = m1
  m2 = m2
  Plans <- AllPlans
  RoundWorlds <- LooseWorlds
  Desks <- AllDesks
  TaskPlans <- OnePlan
  Flows <- LooseFlows
  Asks <- AllAsks
  Benches <- AllBenches
  Absent = Absent
  Torn = Torn
CHECK_DEADLOCK FALSE
INVARIANTS
  SessionLoads
  OneChain
  LastPatchedIsNewest
  MigrationServes
  ListingHasOwnWrites
  LetterOnce
  LetterInReach
  ReloadKeepsAll
  LiveIsReloaded
  Alternates
  OnceATurn
  CutsWhenItCan
  CompactedIsPaired
  ResumedIsPaired
  LedgersAgree
  LedgerReads
  IdsStable
  BoundKept
  RerunReplays
  OneServer
  FreshBatch
