SPECIFICATION Spec
CONSTANTS
  Threads  = {t1, t2}
  Capacity = 3
  Values   = {n1, n2}
  Objects  = {o1, o2}
  Unset    = Unset
  NoKey    = NoKey
  NoObject = NoObject
SYMMETRY Symmetry
INVARIANTS
  TypeOK
  CallbackNamesItsKey
  CallReachesItsKey
  CounterStaysInReach
PROPERTIES
  ImplementsMap
