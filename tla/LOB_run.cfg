SPECIFICATION BookSpec
CONSTANTS
    PoolSize = 2
    MaxLevels = 2
    MapSize = 4
    HashMul = 2
    Prices = {1, 2, 3}
    Volumes = {1, 2}
    Participants = {0}
    MaxOrders = 4
INVARIANT BookConsistent
PROPERTIES
    PriceTimePriority
    MarketOrderEnds
