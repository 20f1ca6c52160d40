SPECIFICATION Spec
CONSTANTS
  KillAt = {"enter", "recover", "dropped", "schedule", "snapped", "forget", "finalize", "kept", "reverted", "recorded"}
  MaxCommits = 5
  MaxRuns = 2
  None = None
INVARIANT BackWhereItWas
PROPERTY OnlyRunBranchMoves
PROPERTY HistoryKept
PROPERTY StaysResumable
CHECK_DEADLOCK FALSE
