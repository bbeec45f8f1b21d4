SPECIFICATION FairSpec
CONSTANTS
    Req = {r1}
    Push = {p1}
    None = None
    IdModulus = 2
    MaxIds = 2
    MaxPingIds = 1
    NetCap = 1
    HandlerMayFail = TRUE
    HandlerMayPanic = FALSE
CHECK_DEADLOCK FALSE
INVARIANTS NoDoubleExecution
PROPERTIES CallsReturn CloseIsShared
