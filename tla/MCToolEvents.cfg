SPECIFICATION Spec
CONSTANTS
  Callers    = {c1, c2}
  Deliverers = {d}
  Regs       = {r1, r2}
  NumLevels  = 1
  Capacity   = 2
  MaxTag     = 4
  MaxOverlapping = 2
  NoReg      = NoReg
  Environments = {"serialized", "fresh", "apart", "overlapping"}
CONSTRAINTS FourthCall TwoCalls FullMap
SYMMETRY Symmetry
INVARIANTS
  TypeOK
  EventsFindTheirFunction
  EntryHoldsLastCalls
  EntriesAreReclaimed
CHECK_DEADLOCK FALSE
