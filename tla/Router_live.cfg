SPECIFICATION FairSpec
CONSTANTS
    Writers = {w1}
    Readers = {r1}
    Samplers = {s1}
    Strangers = {}
    MayLeave = {}
    ShmSize = 8
    Sizes = {4}
    Overrun = 0
    MAXSAMPBUF = 1
    MAXSENDBUF = 1
    MAXWRITEBUF = 1
    NumMsgLimit = 10
    InCap = 2
    OutCap = 4
    MaxReq = 1
    MaxDrift = 0
    MaxCount = 4
PROPERTIES
    GetBufReturns
    Delivered
    Served
