\* Two recordings, a stop and a quit, against the states of context and stream.
SPECIFICATION FairSpec
CONSTANTS
    PacketFragments = 2
    MaxQueue = 4
    MaxStarts = 2
    MaxStops = 1
INVARIANTS
    TypeOK
    PanicsOnlyWithoutContext
    PacketsAreOfTheirStream
PROPERTIES
    QuitEndsOrSticks
CHECK_DEADLOCK FALSE
