SPECIFICATION Spec
CONSTANTS
  NumTickets = 2
  Kind <- RoutineHard
  Sig = {s1}
  FixCap = 3
  LoopThreshold = 2
  MinTickets = 2
  MaxTickets = 3
  F5Max = 1
  CreditPolicy = "degrade"
  NonDestructive = FALSE
  BaseGreen = TRUE
  SafetyNet = {TRUE, FALSE}
  GitFaults = {"snapshot", "finalize", "recover", "refuse"}
  SlowBaseline = TRUE
  LateAnswers = TRUE
  RetryComplete = FALSE
  MaxCrashes = 1
  None = None
INVARIANT TrustIsEarned
PROPERTY RecordedWorkSurvives
PROPERTY TerminalIsFinal
