SPECIFICATION ProxyFairSpec
CONSTANTS
    Live = {"connecting", "connected"}
    Causes = {"banned"}
    MaxAsks = 2
    MaxInFlight = 2
INVARIANTS ProxyTypeOK FailureNamesCause AskingIsWatched
PROPERTIES RevocationIsLast ReadsCatchUp RevocationEndsSession
