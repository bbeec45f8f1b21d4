SPECIFICATION FairSpec
CONSTANTS
    Req = {r1}
    Obj = {o1}
    None = None
    SeqModulus = 4
    WriteCap = 2
    Worker = {w1, w2}
    Scenarios <- ServerEnds
CHECK_DEADLOCK FALSE
PROPERTY TerminateDisconnects
