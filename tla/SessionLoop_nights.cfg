SPECIFICATION FairSpec
CONSTANTS
  Backlog = 3
  Budget = 2
  BlockCap = 2
  SpawnCap = 3
  Platform = {"claude", "other"}
  LeavesEarly = FALSE
  MayDie = TRUE
  MayHang = TRUE
  Rewrites = TRUE
  MaxNights = 2
INVARIANT DoneMeansTerminal
PROPERTY NoRespawnAfterTerminal
PROPERTY StopMatchesBudget
PROPERTY NeverStopsEarly
PROPERTY LoopEnds
CHECK_DEADLOCK FALSE
