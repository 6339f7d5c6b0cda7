SPECIFICATION Spec
CONSTANTS
  Threads  = {t1, t2}
  Ops      = {a, b, c}
  h1 = h1
  h2 = h2
  BuiltIn  = BuiltIn
  Handles  <- MCHandles
  Capacity = 2
  Home     <- MCHome
  Empty  = Empty
  Locked = Locked
  Tomb   = Tomb
  None   = None
  Environments = {"immediate"}
SYMMETRY Symmetry
INVARIANTS
  BlockOutlivesOperation
