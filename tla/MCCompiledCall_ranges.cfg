SPECIFICATION Spec
CONSTANTS
  Var <- MCVar
  Args <- WithI
  Programs <- MCCounted
  Fuel = 30
  MaxInt = 100
INVARIANTS
  RangesHold
