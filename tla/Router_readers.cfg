SPECIFICATION Spec
CONSTANTS
    Writers = {w1}
    Readers = {r1}
    Samplers = {s1}
    Strangers = {x1}
    MayLeave = {r1, s1}
    ShmSize = 8
    Sizes = {3}
    Overrun = 0
    MAXSAMPBUF = 1
    MAXSENDBUF = 1
    MAXWRITEBUF = 1
    NumMsgLimit = 10
    InCap = 1
    OutCap = 3
    MaxReq = 1
    MaxDrift = 0
    MaxCount = 4
INVARIANT TypeOK
INVARIANT Books
INVARIANT Limits
INVARIANT Delivery
PROPERTY NoBlockLost
