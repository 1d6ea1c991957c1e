SPECIFICATION Spec
CONSTANTS
    CommandsFail = FALSE
    LockdownRequests = {FALSE}
INVARIANT DialMeetsNoBlock
