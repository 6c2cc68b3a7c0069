SPECIFICATION FairSpec
CONSTANTS
  o1 = o1  o2 = o2  Nil = Nil
  Operators = {o1, o2}
  Calls <- MixedCalls
  Sources <- MixedSources
  MaxFiles = 6
  MaxWatches = 2
  MaxEvents = 2
INVARIANTS TypeOK OwnNumbers HoldsBriefly
PROPERTIES Reported
CHECK_DEADLOCK FALSE
