CONSTANTS
  NWorkers = 2
  Externals = {x}
  Pollers = {}
  Posted = {a, b}
  Called = {}
  Parallels = {}
  Raw = {r}
  Yielding = {}
  ParallelAt = {"none", "run", "gone"}
  MaxExecs = 2
  Strand = TRUE
  None = None
SPECIFICATION Spec
INVARIANT ResumeFlushes
CHECK_DEADLOCK FALSE
