\* Alerts with an organization and webhooks, through stops and crashes.
SPECIFICATION Spec
CONSTANTS
    Recipients <- MCRecipients
    Policies <- MCPolicies
    Malformed = Malformed
    Wired = {"email", "push", "in_app"}
    OrgNamed = {TRUE, FALSE}
    MaxAlerts = 2
    MaxHooks = 1
    MaxTurns = 1
INVARIANTS
    EveryChannelTried
    HandledOnceUnlessAnswerLost
PROPERTIES
    DeliveriesEnd
CHECK_DEADLOCK FALSE
