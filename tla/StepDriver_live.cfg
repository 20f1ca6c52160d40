SPECIFICATION FairSpec
CONSTANTS
  NumTickets = 4
  Kind <- RoutineMoneyHalt
  Sig = {s1}
  FixCap = 3
  LoopThreshold = 2
  MinTickets = 2
  MaxTickets = 2
  F5Max = 1
  CreditPolicy = "off"
  NonDestructive = FALSE
  BaseGreen = TRUE
  SafetyNet = {TRUE}
  GitFaults = {"snapshot", "cut", "switch"}
  SlowBaseline = FALSE
  LateAnswers = FALSE
  RetryComplete = FALSE
  MaxCrashes = 1
  None = None
PROPERTY RunEnds
PROPERTY EveryTicketSettles
