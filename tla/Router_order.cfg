SPECIFICATION Spec
CONSTANTS
    Writers = {w1}
    Readers = {r1}
    Samplers = {}
    Strangers = {}
    MayLeave = {}
    ShmSize = 12
    Sizes = {3}
    Overrun = 4
    MAXSAMPBUF = 1
    MAXSENDBUF = 2
    MAXWRITEBUF = 2
    NumMsgLimit = 3
    InCap = 2
    OutCap = 2
    MaxReq = 2
    MaxDrift = 0
    MaxCount = 4
INVARIANT Delivery
INVARIANT Limits
