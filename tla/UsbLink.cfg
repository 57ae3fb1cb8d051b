\* Two attachments and two sessions: a reconnection on either side.
SPECIFICATION FairSpec
CONSTANTS
    PacketSize = 2
    PipeSize = 1
    MaxAttached = 2
    MaxSessions = 2
    HostJson = 2
    PhoneJson = 1
INVARIANTS TypeOK PanicsOnlyAfterQuit JsonInOrder
PROPERTIES FaultJoinsThreads
CHECK_DEADLOCK FALSE
