SPECIFICATION Spec
CONSTANTS
  Var <- MCVar
  Args <- WithI
  Programs <- MCPrograms
  Fuel = 30
  MaxInt = 100
INVARIANTS
  SameResult
  NoFalseUnbound
  EdgesTracked
  LeavesAtLast
  PhiPerEdge
  SealedMeansKnown
  StrictSsa
  RunsAlike
  AnalysisSettles
