SPECIFICATION PoolSpec
CONSTANTS
  c1 = c1  c2 = c2  c3 = c3  x1 = x1  x2 = x2  t1 = t1  t2 = t2
  i1 = i1  i2 = i2  i3 = i3  Nil = Nil  Watch = Watch
  Coroutines = {c1, c2, c3}
  Contexts = {x1, x2}
  Threads = {t1, t2}
  Ids = {i1, i2, i3}
  Calls <- PoolCalls
  MaxCalls = 5
  HardwareThreads = 2
  MaxSize = 3
  Exact = 2
INVARIANTS PoolTypeOK MapsAgree LoadCoversWork
SYMMETRY Symmetry
CHECK_DEADLOCK FALSE
