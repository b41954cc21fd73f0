SPECIFICATION Spec
CONSTANTS
  a = a
  b = b
  c = c
  d = d
  Routines = {a, b, c}
  Empty = {}
  Junctions = {}
  Links <- Chain
  Deferrers = {a}
  Racing = {a}
  Fan = 2
  MaxDefers = 1
  None = None
INVARIANT NoUseAfterFree
CHECK_DEADLOCK FALSE
