SPECIFICATION Spec
CONSTANTS
  Chunk = 2
  MaxPushes = 10
  Nothing = Nothing
INVARIANTS TypeOK RaceFree OneRing
PROPERTIES ImplementsFifo
CHECK_DEADLOCK FALSE
