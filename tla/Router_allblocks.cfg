SPECIFICATION Spec
CONSTANTS
    Writers = {w1}
    Readers = {r1}
    Samplers = {}
    Strangers = {}
    MayLeave = {w1}
    ShmSize = 8
    Sizes = {4}
    Overrun = 0
    MAXSAMPBUF = 1
    MAXSENDBUF = 1
    MAXWRITEBUF = 2
    NumMsgLimit = 10
    InCap = 2
    OutCap = 3
    MaxReq = 1
    MaxDrift = 0
    MaxCount = 4
PROPERTY NoBlockLost
