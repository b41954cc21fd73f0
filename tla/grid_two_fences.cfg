SPECIFICATION Spec
CONSTANTS
  NWorkers = 2
  Bodies = {t1, t2}
  Yielding = {}
  Fencers = {1, 2}
  MaxBarriers = 2
  MaxExternal = 0
  MaxSuspends = 0
  Mixing = TRUE
  Modulus = 8
  First = 7
  None = None
INVARIANT NoneHeldBack
CHECK_DEADLOCK FALSE
