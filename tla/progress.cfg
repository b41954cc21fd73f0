CONSTANTS
  a = a
  b = b
  p = p
  x = x
  t1 = t1
  t2 = t2
  t3 = t3
  t4 = t4
  Main = Main
  NWorkers = 2
  Bodies = {t1, t2, t3, t4}
  Yielding = {t1, t2}
  Fencers = {1}
  MaxBarriers = 3
  MaxExternal = 0
  MaxSuspends = 1
  Mixing = FALSE
  Modulus = 8
  First = 7
  None = None
SPECIFICATION ShapesSpec
INVARIANT TypeOK
INVARIANT BarrierOrder
PROPERTY EventuallyRun
PROPERTY OthersEventuallyDone
CHECK_DEADLOCK FALSE
