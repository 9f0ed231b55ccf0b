SPECIFICATION Spec
CONSTANTS
  Proc = {p1, p2}
  File = {f1, f2, f3}
  Sizes = {1, 2}
  MaxBytes = 2
  MaxClock = 1
SYMMETRY Symmetry
INVARIANTS
  WithinLimit
PROPERTIES
  NoNeedlessEviction
  NewestKept
