\* The UI socket could not be bound; more events for the UI than its channel
\* holds.
SPECIFICATION FairSpec
CONSTANTS
    ChannelSize = 1
    Android = FALSE
    UiListens = FALSE
    NoId = NoId
    MaxDevices = 1
    MaxRequests = 0
PROPERTIES
    RouterGoesOn
CHECK_DEADLOCK FALSE
