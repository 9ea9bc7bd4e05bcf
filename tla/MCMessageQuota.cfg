\* Five messages over three billing months, two changes of plan and two faults.
SPECIFICATION Spec
CONSTANTS
    Limit = 2
    MonthLength = 2
    PlanTTL = 2
    MaxNow = 5
    MaxMessages = 5
    MaxChanges = 2
    MaxFaults = 2
INVARIANTS
    
    StalePlanExpires
CHECK_DEADLOCK FALSE
