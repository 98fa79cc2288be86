SPECIFICATION Spec
CONSTANTS
    MaxStarts = 2
    MaxStops = 1
    MaxLoads = 1
    MaxAnnounced = 1
    StoredKey = 1
    Expired = 1
    MaxTicks = 1
    MaxKeys = 2
INVARIANTS TypeOK IdleIsQuiet RecordedPerAnnouncement NoStaleRetry DoneIsShown
PROPERTIES LocalLeavesQueue
CHECK_DEADLOCK FALSE
