SPECIFICATION ObjectsSpec
CONSTANTS
  a = a
  b = b
  c = c
  d = d
  w1 = w1
  w2 = w2
  s1 = s1
  s2 = s2
  c1 = c1
  c2 = c2
  p1 = p1
  p2 = p2
  m1 = m1
  m2 = m2
  m3 = m3
  Nobody = Nobody
  None = None
  A = A
  B = B
  k1 = k1
  k2 = k2
  NoWarp = NoWarp
  Warps = {A, B}
  Coroutines = {k1, k2}
  Awaits <- SomeAwaits
  Switches <- OnePair
  Selectors = {k2}
  Candidates <- Both
  MaxAwaits <- OnceAndTwice
  Objects = {"barrier"}
  Actors = {a, b, c, w1, w2, s1, s2, c1, c2, p1, p2, m1, m2, m3}
  Users = {a, b}
  Tryers = {c}
  Kinds = {1, 2}
  Total <- OneOfEach
  Request <- Requests
  MaxRequests = 2
  Waiters = {w1, w2}
  Setters = {s1, s2}
  MaxWaits = 2
  MaxSets = 2
  Producers = {p1, p2}
  Consumers = {c1, c2}
  MaxEach = 2
  Participants = {m1, m2, m3}
  Leavers = {m3}
  Serial = FALSE
  MaxRounds = 2
  Routines = {a, b, c, d}
  Empty = {b}
  Junctions = {j1}
  Links <- Spread
  Deferrers = {a}
  Racing = {}
  Fan = 2
  MaxDefers = 1
INVARIANT OnceARound
CHECK_DEADLOCK FALSE
