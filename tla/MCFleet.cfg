SPECIFICATION FleetSpec
CONSTANTS
  d1 = d1
  d2 = d2
  n1 = n1
  n2 = n2
  Devices <- MCDevices
  Nodes <- MCNodes
  Capacities <- MCCapacities
  MaxDevices = 1
  None = None
INVARIANTS
  LoadsAddUp
  CapacityUnlessSqueezed
  LimitUnlessRaced
PROPERTIES
  DrainedUnlessOvertaken
CHECK_DEADLOCK FALSE
