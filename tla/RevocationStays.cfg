SPECIFICATION ProxySpec
CONSTANTS
    Live = {"connecting", "connected"}
    Causes = {"banned"}
    MaxAsks = 2
    MaxInFlight = 1
PROPERTY RevocationStays
