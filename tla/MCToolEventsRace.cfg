SPECIFICATION Spec
CONSTANTS
  Callers    = {c1, c2}
  Deliverers = {d}
  Regs       = {r1}
  NumLevels  = 2
  Capacity   = 2
  MaxTag     = 2
  MaxOverlapping = 2
  NoReg      = NoReg
  Environments = {"overlapping"}
SYMMETRY Symmetry
INVARIANTS
  OneEntryPerHandle
CHECK_DEADLOCK FALSE
