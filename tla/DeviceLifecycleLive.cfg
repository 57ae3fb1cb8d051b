\* One device and one request of the UI, with channels so small that tasks do
\* wait for each other for ever.
SPECIFICATION FairSpec
CONSTANTS
    ChannelSize = 1
    Android = FALSE
    UiListens = TRUE
    NoId = NoId
    MaxDevices = 1
    MaxRequests = 1
PROPERTIES
    LostDeviceIsRemoved
    RouterGoesOnOrIsHeldUp
    
CHECK_DEADLOCK FALSE
