SPECIFICATION FramingFairSpec
CONSTANTS
    Header = 2
    Sizes = {1, 2}
    Malformed = {2}
    MaxRequests = 2
    MaxEvents = 3
CHECK_DEADLOCK FALSE
INVARIANT FramingTypeOK
PROPERTIES FramesArriveWhole FramesServed
