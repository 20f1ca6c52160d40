SPECIFICATION FairSpec
CONSTANTS
  None = None
  Issue = {i1, i2}
  Local = {i2}
  Ambiguous = {i2}
  Results = {"done", "low", "env"}
  Cap = 2
  Overlap = FALSE
  Theirs = {"todo", "done"}
  Misses = FALSE
  MaxFaults = 1
PROPERTY RevertedOnlyIfGone
