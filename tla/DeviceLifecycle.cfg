\* Two devices and one request of the UI, with channels small enough to fill.
SPECIFICATION Spec
CONSTANTS
    ChannelSize = 1
    Android = TRUE
    UiListens = TRUE
    NoId = NoId
    MaxDevices = 2
    MaxRequests = 1
INVARIANTS
    TypeOK
    RemoveFindsDevice
    ManagersAgree
    UiNotMisled
    NoTaskIsLost
CHECK_DEADLOCK FALSE
