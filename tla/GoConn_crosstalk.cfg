SPECIFICATION Spec
CONSTANTS
    Req = {r1, r2}
    Obj = {o1, o2}
    None = None
    SeqModulus = 4
    WriteCap = 2
    Worker = {w1, w2}
    Scenarios <- Impatient
CHECK_DEADLOCK FALSE
INVARIANT AnswerIsOwn
