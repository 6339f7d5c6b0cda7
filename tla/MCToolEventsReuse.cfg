SPECIFICATION Spec
CONSTANTS
  Callers    = {c1, c2}
  Deliverers = {d}
  Regs       = {r1, r2}
  NumLevels  = 1
  Capacity   = 2
  MaxTag     = 3
  MaxOverlapping = 2
  NoReg      = NoReg
  Environments = {"apart"}
SYMMETRY Symmetry
INVARIANTS
  DeadEntriesAreReleased
CHECK_DEADLOCK FALSE
