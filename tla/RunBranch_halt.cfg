SPECIFICATION Spec
CONSTANTS
  KillAt = {}
  MaxCommits = 6
  MaxRuns = 2
  None = None
PROPERTY NeverHaltsItself
CHECK_DEADLOCK FALSE
