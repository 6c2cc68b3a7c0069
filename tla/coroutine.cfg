SPECIFICATION FairSpec
CONSTANTS
  c1 = c1  c2 = c2  x1 = x1  x2 = x2  t1 = t1  i1 = i1  i2 = i2
  Nil = Nil  Watch = Watch
  Coroutines = {c1, c2}
  Contexts = {x1, x2}
  Threads = {t1}
  Ids = {i1, i2}
  Calls <- MixedCalls
  MaxCalls = 6
INVARIANTS TypeOK OneTurn OwnTables
PROPERTIES JoinMeansEnd HandedBegins ResumeWakes ConnectedJoinReturns DeletedEnds
CHECK_DEADLOCK FALSE
