SPECIFICATION Spec
CONSTANTS
    ip1 = ip1
    ip2 = ip2
    Ips <- MCIps
    NoOne = NoOne
    Nothing = Nothing
    EnableUdp = FALSE
    MaxIds = 2
    MaxStreams = 2
    MaxRequests = 2
SYMMETRY Addresses
INVARIANTS
    TypeOK
    HoldersAreConnected
    StartsAreSeparated
    FreeResourceIsSilent
    StopsReachOwnStream
    NoMissedMatch
CHECK_DEADLOCK FALSE
