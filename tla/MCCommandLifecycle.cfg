CONSTANTS
  c1 = c1
  c2 = c2
  Commands <- MCCommands
  QueueCap = 1
  AckTimer = TRUE
  MaxConnects = 1
  MaxFaults = 1
SPECIFICATION FairSpec
INVARIANTS
  
  StatusTellsTruth
  FlushKeepsOrder
PROPERTIES
  KeepsPromise
  
  FlushDelivers
CHECK_DEADLOCK FALSE
