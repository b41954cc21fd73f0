CONSTANTS
  a = a
  b = b
  p = p
  s = s
  x = x
  t1 = t1
  t2 = t2
  NWorkers = 2
  Externals = {x}
  Pollers = {}
  Posted = {a}
  Called = {b}
  Parallels = {p}
  Raw = {}
  Yielding = {b}
  ParallelAt = {"none", "run", "gone"}
  MaxExecs = 2
  Strand = TRUE
  None = None
SPECIFICATION ShapesSpec
INVARIANT NormalExclusion
INVARIANT SharedExclusion
INVARIANT NothingLost
INVARIANT OthersInOrder
PROPERTY RefinesTasks
SYMMETRY MixedSymmetry
CHECK_DEADLOCK FALSE
