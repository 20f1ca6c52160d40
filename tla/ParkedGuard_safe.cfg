SPECIFICATION Spec
CONSTANTS
  Stranger = stranger
  None = None
  Run = {r1, r2}
  Throwaways = {r1}
  PushMayFail = FALSE
  PopMayFail = TRUE
  Racing = FALSE
  AnswerEnds = TRUE
  KillAt <- SafeSteps
  MaxStashes = 3
INVARIANT TypeOK
PROPERTY NothingSwept
INVARIANT Recoverable
INVARIANT NoStrangersWork
INVARIANT RestoredWhenOver
