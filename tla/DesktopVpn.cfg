SPECIFICATION DesktopFairSpec
CONSTANTS
    CommandsFail = FALSE
    LockdownRequests = {TRUE, FALSE}
INVARIANTS DesktopTypeOK SessionIsLive DisconnectedReadsTrue AnswerIsOwn
PROPERTIES CallsReturn LostOwnerEndsDaemon
