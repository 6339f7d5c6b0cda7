SPECIFICATION Spec
CONSTANTS
  Threads      = {t1, t2}
  Scopes       = {s1, s2, s3}
  Fns          = {f1, f2}
  BufCapacity  = 2
  PoolCapacity = 2
  MaxAlloc     = 4
  MaxCalls     = 5
  NoScope      = NoScope
  NoFn         = NoFn
  UserBuffer   = UserBuffer
  Environments = {"orderly", "any"}
SYMMETRY Symmetry
INVARIANTS
  TypeOK
  LentMemoryIsLive
  DetachAnswersWhatWasAttached
  NothingIsLost
  TrampolineCallsItsFunction
CHECK_DEADLOCK FALSE
