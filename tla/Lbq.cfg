SPECIFICATION Spec
CONSTANTS
  Threads = {t1, t2}
  Items = {i1, i2, i3}
  sizeBound = 2
  NULL = NULL
  MaxWakes = 2
INVARIANTS
  TypeOK
  NoLostWakeup
  PeekedStaysHead
PROPERTY
  ImplementsFifo
