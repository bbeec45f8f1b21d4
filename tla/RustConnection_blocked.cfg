SPECIFICATION TimerSpec
CONSTANTS
    Req = {r1, r2}
    Push = {}
    None = None
    IdModulus = 4
    MaxIds = 4
    MaxPingIds = 1
    NetCap = 1
    HandlerMayFail = FALSE
    HandlerMayPanic = FALSE
CHECK_DEADLOCK FALSE
PROPERTIES PingIsDecided
