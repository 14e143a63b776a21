SPECIFICATION Spec
CONSTANTS
    Writers = {w1}
    Readers = {}
    Samplers = {s1}
    Strangers = {}
    MayLeave = {w1}
    ShmSize = 8
    Sizes = {4, 12}
    Overrun = 0
    MAXSAMPBUF = 1
    MAXSENDBUF = 1
    MAXWRITEBUF = 2
    NumMsgLimit = 10
    InCap = 2
    OutCap = 1
    MaxReq = 1
    MaxDrift = 0
    MaxCount = 4
INVARIANT NeverComeHere
CHECK_DEADLOCK FALSE
