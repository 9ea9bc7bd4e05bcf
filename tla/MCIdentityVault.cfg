SPECIFICATION FairSpec
CONSTANTS
  Identities = {d1, d2}
  MaxFaults = 2
INVARIANTS
  VaultFollowsRows
PROPERTIES
  EveryDeviceMirrored
CHECK_DEADLOCK FALSE
