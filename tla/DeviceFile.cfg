SPECIFICATION DeviceSpec
CONSTANTS
    Daemons = {d1, d2, d3}
    Names = {n1, n2, n3}
    Ids = {i1, i2}
    Tries = 2
INVARIANTS DeviceTypeOK ServingOwnsPath EngineHasItsFile OnlyEndsLeak
PROPERTIES LiveSocketStays
