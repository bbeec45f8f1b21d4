SPECIFICATION FairSpec
CONSTANTS
    e1 = e1
    e2 = e2
    Enc = {e1, e2}
    None = None
    Configs <- MCConfigs
    Caller = {k1, k2}
    ReadyCap = 1
    PingIntervals = {1, 2, 9}
    UnitsPerMs = 2
    MsModulus = 4
CHECK_DEADLOCK FALSE
INVARIANTS EncodingAgreed HandshakeInv
PROPERTIES AwaitReturns
