SPECIFICATION Spec
CONSTANTS
  Threads      = {t1, t2}
  Scopes       = {s1, s2, s3}
  Fns          = {f1, f2}
  BufCapacity  = 2
  PoolCapacity = 2
  MaxAlloc     = 4
  MaxCalls     = 4
  NoScope      = NoScope
  NoFn         = NoFn
  UserBuffer   = UserBuffer
  Environments = {"any"}
SYMMETRY Symmetry
INVARIANTS
  NoLaterBlockIsFreed
CHECK_DEADLOCK FALSE
