SPECIFICATION Spec
CONSTANTS
  Var <- MCVar
  Programs <- MCCountdowns
  MaxBlocks = 12
  MaxInt = 2
INVARIANTS
  DivisionsSafe
CHECK_DEADLOCK FALSE
