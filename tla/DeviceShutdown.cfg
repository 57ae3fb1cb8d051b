\* One device connects and the program is quit: a message for a component
\* that ended first reaches the router.
SPECIFICATION Spec
CONSTANTS
    ChannelSize = 3
    Android = FALSE
    UiListens = TRUE
    NoId = NoId
    MaxDevices = 1
    MaxRequests = 0
INVARIANTS
    RouterOutlivesComponents
CHECK_DEADLOCK FALSE
