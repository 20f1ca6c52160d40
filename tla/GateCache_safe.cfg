SPECIFICATION Spec
CONSTANTS
  None = None
  a = a
  b = b
  c = c
  x = x
  y = y
  g = g
  h = h
  Code <- MCCode
  Ignored <- MCIgnored
  Command <- MCCommand
  Green <- MCGreen
  Refuses = TRUE
  SlowBaseline = FALSE
  OutsideAt = {"idle", "edit"}
  ConfigAt = {"idle"}
PROPERTY AsIfUncached
PROPERTY TaxonomyIsTrue
