CONSTANTS
  Parts = {"allocator", "queue", "entities", "tree", "cache"}
  Users = {t1, t2}
  Blocks = {b1, b2, b3, b4}
  NControls = 1
  Bits = {1, 2}
  MaxRecycled = 3
  MaxCalls = 3
  Late = 2
  NoBlock = NoBlock
  QueueNodes = {n1, n2, n3}
  NoNode = NoNode
  NodeSlots = 2
  CounterBits = 5
  FirstCount = 31
  MaxSent = 4
  MaxBatch = 2
  MaxClears = 1
  Systems = {s1}
  MaxEntities = 3
  Values = {v1, v2}
  EntitySlots = 2
  ComponentSlots = 3
  MaxInserts = 5
  Reuses = FALSE
  Nothing = Nothing
  TreeNodes = {x1, x2, x3, x4, x5}
  NoChild = NoChild
  Coordinates = {0, 1}
  MaxRebuilt = 3
  MaxAttached = 5
  CacheSlots = 6
  Alignments = {1, 2, 4}
  MaxNodes = 2
  MaxRegions = 4
SPECIFICATION DataFairSpec
INVARIANT TypeOK
INVARIANT BlocksKept
INVARIANT NodesSound
INVARIANT ListsAgree
INVARIANT GetsAComponent
INVARIANT SearchTree
INVARIANT QueriesFind
INVARIANT RegionsApart
PROPERTY RefinesHeap
PROPERTY RefinesFifo
PROPERTY EverythingArrives
PROPERTY RefinesStore
CHECK_DEADLOCK FALSE
