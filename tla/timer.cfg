SPECIFICATION FairSpec
CONSTANTS
  l = l  c = c  t1 = t1  t2 = t2  Nil = Nil
  Timers = {t1, t2}
  AutoDelete = {t2}
  Users = {l, c}
  LoopThread = l
  Calls <- SharedCalls
  Durations = {1, 2}
  MaxClock = 2
  MaxStarts <- SharedStarts
  IdleWait = 9
INVARIANTS TypeOK EmitsLiveTimer OneEntry NoEarlyFirstTimeout
PROPERTIES StartedFires
CHECK_DEADLOCK FALSE
