SPECIFICATION FairSpec
CONSTANTS
  c1 = c1  c2 = c2  x1 = x1  x2 = x2  t1 = t1  i1 = i1  i2 = i2
  Nil = Nil  Watch = Watch
  Coroutines = {c1}
  Contexts = {x1}
  Threads = {t1}
  Ids = {i1}
  Calls <- TestCalls
  MaxCalls = 3
PROPERTIES JoinReturns
CHECK_DEADLOCK FALSE
