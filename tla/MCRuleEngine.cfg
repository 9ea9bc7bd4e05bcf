\* Rules edited by two clients while events are handled.
SPECIFICATION RulesSpec
CONSTANTS
    NoReading = NoReading
    Clients <- MCClients
    Rules <- MCRules
    Graphs <- MCGraphs
    Readings <- MCReadings
    ActiveLimit = 1
    MaxRequests = 3
    MaxEvents = 1
    MaxSwitches = 1
INVARIANTS
    RuleLimitUnlessRaced
    OneGraphUnlessCrossed

    
CHECK_DEADLOCK FALSE
