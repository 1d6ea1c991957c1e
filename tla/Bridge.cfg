SPECIFICATION BridgeFairSpec
CONSTANTS
    Calls = {c1, c2, c3}
    Names = {n1, n2}
    Padded = {n2}
    MaxChanges = 1
CHECK_DEADLOCK FALSE
INVARIANTS BridgeTypeOK DisconnectedMeansDown ListenersCatchUp KeptNameAgrees
PROPERTIES ForwardsBeforeShutdown CallsReturn
