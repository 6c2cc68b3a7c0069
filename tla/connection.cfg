SPECIFICATION FairSpec
CONSTANTS
  la = la  lb = lb  lc = lc  snd = snd  rcv = rcv
  sig = sig  k1 = k1  k2 = k2  Nil = Nil
  Loops = {la, lb, lc}
  Objects = {snd, rcv}
  Signals = {sig}
  Slots = {}
  Conns = {k1, k2}
  Container <- ContainerOf
  SignalOf <- SignalOfConn
  ReceiverOf <- OneReceiver
  SlotOf <- SlotOfConn
  SyncConns = {}
  Home <- HomeOf
  Calls <- ConnCalls
  MaxCalls = 5
INVARIANTS TypeOK SlotInPlace EndsAgree SlotsInOrder EmissionsArrive
CHECK_DEADLOCK FALSE
PROPERTIES SyncReturns
