SPECIFICATION Spec
CONSTANTS
  t1 = t1
  t2 = t2
  t3 = t3
  NThreads = 2
  Duplicates = 2
  Tasks = {t1, t2, t3}
  Priority <- AllLast
  Limit = 0
  Queuers = {1, Main}
  Terminators = {2}
  Polled = {1}
  Main = Main
  None = None
INVARIANT TypeOK
INVARIANT JoinedMeansDone
INVARIANT NoSleepOverWork
INVARIANT NoTimedSleepMissed
PROPERTY RefinesPool
SYMMETRY TaskSymmetry
CHECK_DEADLOCK FALSE
