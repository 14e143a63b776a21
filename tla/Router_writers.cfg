SPECIFICATION Spec
CONSTANTS
    Writers = {w1, w2}
    Readers = {}
    Samplers = {s1}
    Strangers = {}
    MayLeave = {w1, w2}
    ShmSize = 8
    Sizes = {4, 12}
    Overrun = 0
    MAXSAMPBUF = 1
    MAXSENDBUF = 1
    MAXWRITEBUF = 1
    NumMsgLimit = 10
    InCap = 1
    OutCap = 4
    MaxReq = 1
    MaxDrift = 0
    MaxCount = 4
INVARIANT Books
INVARIANT Exclusive
INVARIANT Delivery
PROPERTY ShmSpec
