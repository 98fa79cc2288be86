SPECIFICATION Spec
CONSTANTS
    MaxStarts = 1
    MaxStops = 0
    MaxLoads = 0
    MaxAnnounced = 1
    StoredKey = 1
    Expired = 0
    MaxTicks = 1
    MaxKeys = 1
PROPERTIES PollIsFallback
CHECK_DEADLOCK FALSE
