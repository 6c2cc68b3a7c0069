SPECIFICATION FairSpec
CONSTANTS
  d = d  m = m  c = c  o = o  conn = conn  Nil = Nil
  Loops = {d, m}
  Clients = {c}
  Default = d
  Works = {w1, w2}
  Priorities = {0}
  Objects = {o}
  Connects = {conn}
  Sender <- SenderOf
  Calls <- DeleteCalls
  MaxResume = 1
INVARIANTS  RefsKeepLoop RegistrationTouchesLiveLoop
PROPERTIES DeletedLoopIsFreed
CHECK_DEADLOCK FALSE
