SPECIFICATION ShmSpec
CONSTANTS
    ShmSize = 28
    MaxCount = 2
INVARIANT ShmTypeOK
INVARIANT Partition
INVARIANT Counted
