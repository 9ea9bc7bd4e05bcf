\* Two requests at a time on one account and three addresses that sign up.
SPECIFICATION Spec
CONSTANTS
    Slots <- MCSlots
    Emails <- MCEmails
    Identity <- MCIdentity
    Earlier = {0, 4}
    ResetTokens <- MCResetTokens
    MaxTokens = 3
    MaxRequests = 3
    MaxEvents = 1
INVARIANTS
    SessionsEndOnce
    LogoutSticksUnlessRefreshing
    SecondFactorProvenUnlessOverlapped
    ResetOnceUnlessInterrupted
    RewardUnlessRaced
CHECK_DEADLOCK FALSE
