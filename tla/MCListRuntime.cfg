CONSTANTS
  Headers = {h1, h2}
  Blocks = {b1, b2}
  Objects = {o1, o2}
  Threads = {t1, t2}
  Values = {x}
  Null = Null
  FirstCap = 1
  MaxLen = 2
SPECIFICATION Spec
SYMMETRY Symmetry
CHECK_DEADLOCK FALSE
INVARIANTS
  TypeOK
  CapacityIsSize
  PoliteIsSafe
  ViewsInBounds
PROPERTY
  ImplementsLists
