SPECIFICATION FairSpec
CONSTANTS
    Writers = {w1}
    Readers = {}
    Samplers = {}
    Strangers = {}
    MayLeave = {}
    ShmSize = 8
    Sizes = {12}
    Overrun = 0
    MAXSAMPBUF = 1
    MAXSENDBUF = 1
    MAXWRITEBUF = 2
    NumMsgLimit = 10
    InCap = 2
    OutCap = 3
    MaxReq = 1
    MaxDrift = 0
    MaxCount = 4
PROPERTY GetBufReturns
CHECK_DEADLOCK FALSE
