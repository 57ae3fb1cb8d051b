\* One stream that arrives complete and in order, up to four times the mask.
SPECIFICATION Spec
CONSTANTS
    Half = 2
    QueueSize = 1
    MaxTries = 2
    InitialBlocks = 1
    WireSize = 1
    MaxPackets = 9
    MaxPlays = 1
    MaxQueue = 2
    Lossy = FALSE
    MaxLate = 0
INVARIANT DiscardedIsOld
CHECK_DEADLOCK FALSE
