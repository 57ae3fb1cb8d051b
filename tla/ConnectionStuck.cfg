\* One message more than a channel holds: the task can wait for room in the
\* internal channel that only the writer, which it no longer polls, can make.
SPECIFICATION FairSpec
CONSTANTS
    ChannelSize = 1
    WireSize = 1
    MaxGiven = 2
    MaxPeerSent = 0
PROPERTIES
    GivenReachesPeer
CHECK_DEADLOCK FALSE
