SPECIFICATION FairSpec
CONSTANTS
  Grace = 3
  EarlyStale = 2
  Stale = 6
  Poll = 2
  MaxRestarts = 1
  Boot = 3
  Gap = 6
  Kids = {k1, k2, k3}
  Deaf = {k3}
  Windows = {}
INVARIANT StallNoticed
INVARIANT KnownAreReaped
INVARIANT NothingLeftRunning
PROPERTY WorkingNotKilled
PROPERTY ExitPassedThrough
PROPERTY HungReplaced
CHECK_DEADLOCK FALSE
