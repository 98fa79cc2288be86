SPECIFICATION Spec
CONSTANTS
    Grid = {1, 2, 3, 4, 5}
    BasePrice = 3
    BotConfigs = {{"MM", "MOM"}, {"MM", "NOISE"}, {"MM", "MR", "SNIPER"}}
    FairValues = {2, 4}
    HalfSpreads = {1}
    Skews = {0}
    MRBand = 0
    MRCap = 1
    NoiseCap = 1
    NoiseOffsets = {0}
    NoiseVolumes = {1}
    SniperCap = 2
    LimitPrices = {3}
    OrderVolumes = {3}
    PositionLimit = 2
    QueueCap = 1
    MaxPerTick = 2
    TickBatch = 1
    MaxTicks = 2
    MaxStops = 1
INVARIANT BestIsTop
