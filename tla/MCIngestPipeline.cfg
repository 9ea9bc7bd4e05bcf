CONSTANTS
  m1 = m1
  m2 = m2
  m3 = m3
  k1 = k1
  k2 = k2
  temp = temp
  Messages = {m1, m2, m3}
  Keys = {k1, k2}
  Metrics = {temp}
  KeyOf <- MCKeyOf
  MetricsOf <- MCMetricsOf
  QueueCap = 2
  BatchSize = 1
  InsertLimit = 2
  DiscoveryBatch = 1
  BackoffInitial = 1
  BackoffMax = 2
  NoMessage = NoMessage
  NoRow = NoRow
  Refused = {}
  MaxFaults = 1
SPECIFICATION FairSpec
INVARIANTS
  ReadingsAccountedFor
PROPERTIES
  RowsAreFinal
  QueueDrains
  DatastreamsGetRegistered
CHECK_DEADLOCK FALSE
