CONSTANTS
    MaxAttempts = 2
    DoneBefore <- NoneOrRendered
    MaxClicks = 2
    MaxCalls = 2
    MaxLost = 1
SPECIFICATION CardSpec
INVARIANTS CardTypeOK UnfinishedIsPolled
PROPERTIES ShownComesTrue FinishedShowsLinks
CHECK_DEADLOCK FALSE
