SPECIFICATION Spec
CONSTANTS
  Threads    = {t1, t2}
  Capacity   = 3
  Values     = {h1, h2}
  Unset      = Unset
  Base       = 10
  Predefined = {5}
  None       = None
SYMMETRY Symmetry
INVARIANTS
  OneIntegerPerThread
