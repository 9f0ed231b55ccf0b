SPECIFICATION Spec
CONSTANTS
  Var <- MCVar
  Args <- WithI
  Programs <- MCDerived
  Fuel = 30
  MaxInt = 100
INVARIANTS
  LiteralHolds
