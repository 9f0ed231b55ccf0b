SPECIFICATION Spec
\* A way ends at the first operation that wraps around.
CHECK_DEADLOCK FALSE
CONSTANTS
  MaxInt = 2
  Reg = {a, b}
  Refinements <- MCRefinements
SYMMETRY MCSymmetry
INVARIANTS
  InRange
