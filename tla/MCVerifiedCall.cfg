SPECIFICATION Spec
CONSTANTS
  Var <- MCVar
  Programs <- MCPrograms
  MaxBlocks = 12
  MaxInt = 2
INVARIANTS
  NoDivisionByZero
  PostconditionsHold
  AlarmIsReal
PROPERTIES
  InvariantKept
CHECK_DEADLOCK FALSE
