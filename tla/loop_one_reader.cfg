SPECIFICATION Spec
CONSTANTS
  d = d  m = m  c = c  o = o  conn = conn  Nil = Nil
  Loops = {d, m}
  Clients = {c}
  Default = d
  Works = {w1, w2}
  Priorities = {0}
  Objects = {}
  Connects = {}
  Sender <- NoSender
  Calls <- MainCalls
  MaxResume = 1
INVARIANT OneReader
CHECK_DEADLOCK FALSE
