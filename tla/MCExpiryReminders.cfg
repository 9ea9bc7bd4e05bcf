CONSTANTS
  Subscriptions = {s1}
  BillingPeriod = 3
  Thresholds = {2, 1}
  GuardTTL = 2
  LastInstant = 6
  MaxRenewals = 2
  MaxFaults = 1
  NoEnd = NoEnd
SPECIFICATION FairReminders

  
PROPERTIES
  EndIsAnnounced
CHECK_DEADLOCK FALSE
