SPECIFICATION Spec
CONSTANTS
  Structs <- MCStructs
  Enums <- MCEnums
  Domain <- MCDomain
  Programs <- MCPrograms
CHECK_DEADLOCK FALSE
INVARIANTS
  InBounds
  FormulaFollows
  SameAsReference
