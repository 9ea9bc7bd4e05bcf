\* Two organizations, a row, a change of plan and a fault.
SPECIFICATION LifetimeSpec
CONSTANTS
    Orgs = {a, b}
    Window <- MCWindow
    Views <- MCViews
    Cadence <- MCCadence
    Lateness = 1
    MaxNow = 4
    MaxRows = 1
    MaxChanges = 1
    MaxFailures = 1
PROPERTIES
    RowsKeptForPlan
    ExpiredRowsGo
    
CHECK_DEADLOCK FALSE
