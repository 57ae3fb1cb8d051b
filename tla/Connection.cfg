\* Every interleaving of one connection: three messages out, two frames in,
\* channels of one slot so that each of them fills up.
SPECIFICATION FairSpec
CONSTANTS
    ChannelSize = 1
    WireSize = 1
    MaxGiven = 3
    MaxPeerSent = 2
INVARIANTS
    TypeOK
    OutboundOrder
    InboundOrder
    ErrorIsFinal
PROPERTIES
    SilentAfterError
    OutboundIsPipe
    InboundIsPipe
    QuitEndsTask
    GivenArrivesOrSticks
    FaultClosesConnection
CHECK_DEADLOCK FALSE
