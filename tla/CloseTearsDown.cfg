SPECIFICATION DesktopSpec
CONSTANTS
    CommandsFail = FALSE
    LockdownRequests = {FALSE}
PROPERTIES CloseTearsDown
