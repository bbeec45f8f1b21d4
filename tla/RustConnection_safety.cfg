SPECIFICATION Spec
CONSTANTS
    Req = {r1, r2}
    Push = {}
    None = None
    IdModulus = 3
    MaxIds = 3
    MaxPingIds = 1
    NetCap = 1
    HandlerMayFail = TRUE
    HandlerMayPanic = TRUE
SYMMETRY ReqSymmetry
CHECK_DEADLOCK FALSE
INVARIANTS IInv AnswerIsOwn SenderHeldOnce PongAnswersThePing
PROPERTIES ImplementsRpc
