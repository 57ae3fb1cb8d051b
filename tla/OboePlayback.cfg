\* Two streams in either mode, packets lost and swapped, numbers past the first
\* change of the wrap flag and one past the reach of the numbering.
SPECIFICATION FairSpec
CONSTANTS
    Half = 2
    QueueSize = 1
    MaxTries = 2
    InitialBlocks = 1
    WireSize = 2
    MaxPackets = 5
    MaxPlays = 2
    MaxQueue = 1
    Lossy = TRUE
    MaxLate = 1
INVARIANTS
    TypeOK
    NoPanic
    PlayedInOrder
PROPERTIES
    QuitEnds
    FailedReaderIsJoined
CHECK_DEADLOCK FALSE
