SPECIFICATION Spec
CONSTANTS
  NumTickets = 2
  Kind <- MeaningRoutine
  Sig = {s1, s2}
  FixCap = 3
  LoopThreshold = 2
  MinTickets = 2
  MaxTickets = 3
  F5Max = 1
  CreditPolicy = "stop"
  NonDestructive = FALSE
  BaseGreen = TRUE
  SafetyNet = {TRUE}
  GitFaults = {}
  SlowBaseline = FALSE
  LateAnswers = TRUE
  RetryComplete = FALSE
  MaxCrashes = 2
  None = None
INVARIANT TypeOK
INVARIANT CleanBetweenTickets
INVARIANT LandedIsGreen
INVARIANT GuardedWhileHeld
PROPERTY OneInFlight
PROPERTY StopIsHonoured
PROPERTY Implements
