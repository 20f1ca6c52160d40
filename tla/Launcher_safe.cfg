SPECIFICATION Spec
CONSTANTS
  None = None
  Mode = "edits"
  Silent = "bare"
  a = a
  Launch = {l1, l2}
  Args <- MCArgs
  Config <- MCConfig
  KillAt = {"launcher", "agent"}
  Interrupts = FALSE
  EditsDuringRepair = FALSE
  WelcomeFails = FALSE
  MaxSessions = 2
  MaxRestarts = 1
SYMMETRY Launches
INVARIANT OneRunPerTree
INVARIANT LiveTreeKept
INVARIANT RunsWhatWasTrusted
INVARIANT NeverStuck
