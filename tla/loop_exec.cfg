SPECIFICATION FairSpec
CONSTANTS
  d = d  m = m  c = c  o = o  conn = conn  Nil = Nil
  Loops = {d, m}
  Clients = {c}
  Default = d
  Works = {w1, w2, w3}
  Priorities = {0, 1, 2}
  Objects = {}
  Connects = {}
  Sender <- NoSender
  Calls <- ExecCalls
  MaxResume = 1
INVARIANTS TypeOK PostPerFunction SyncCallerWaits
PROPERTIES ImplementsExecutor EveryWorkRuns SyncReturns
CHECK_DEADLOCK FALSE
