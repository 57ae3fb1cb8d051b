\* One session over each transport, a UI that may go away once, and a peer
\* that sends one message out of order.
SPECIFICATION FairSpec
CONSTANTS
    MaxPings = 1
    MaxBreaks = 1
    MaxStrays = 1
INVARIANTS HandshakeInOrder
PROPERTIES SessionStreams
CHECK_DEADLOCK FALSE
