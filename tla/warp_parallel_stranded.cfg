CONSTANTS
  NWorkers = 2
  Externals = {x}
  Pollers = {}
  Posted = {a}
  Called = {b}
  Parallels = {p}
  Raw = {}
  Yielding = {}
  ParallelAt = {"none"}
  MaxExecs = 2
  Strand = TRUE
  None = None
SPECIFICATION Spec
INVARIANT ParallelHandedOut
CHECK_DEADLOCK FALSE
