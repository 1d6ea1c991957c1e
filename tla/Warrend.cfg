SPECIFICATION FairSpec
CONSTANTS
    CommandsFail = TRUE
    LockdownRequests = {TRUE, FALSE}
INVARIANTS TypeOK SessionProtected GuardHolds DisconnectedHolds DialResolvesNames
PROPERTIES FailClosed ImplementsKillSwitch RequestEnds StopEnds
