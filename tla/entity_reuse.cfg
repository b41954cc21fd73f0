SPECIFICATION DataSpec
CONSTANTS
  Parts = {"entities"}
  Users = {t1, t2}
  Blocks = {b1, b2, b3, b4}
  NControls = 1
  Bits = {1, 2}
  MaxRecycled = 3
  MaxCalls = 3
  Late = 2
  NoBlock = NoBlock
  QueueNodes = {n1, n2, n3}
  NoNode = NoNode
  NodeSlots = 2
  CounterBits = 5
  FirstCount = 31
  MaxSent = 4
  MaxBatch = 2
  MaxClears = 1
  Systems = {s1}
  MaxEntities = 3
  Values = {v1, v2}
  EntitySlots = 2
  ComponentSlots = 2
  MaxInserts = 3
  Reuses = TRUE
  Nothing = Nothing
  TreeNodes = {x1, x2, x3, x4}
  NoChild = NoChild
  Coordinates = {0, 1}
  MaxRebuilt = 3
  MaxAttached = 5
  CacheSlots = 4
  Alignments = {1, 2, 4}
  MaxNodes = 2
  MaxRegions = 6
INVARIANT GetsAComponent
CHECK_DEADLOCK FALSE
