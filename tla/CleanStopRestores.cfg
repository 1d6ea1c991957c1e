SPECIFICATION Spec
CONSTANTS
    CommandsFail = FALSE
    LockdownRequests = {FALSE}
PROPERTY CleanStopRestores
