CONSTANTS
    ConfigSizes <- MCConfigSizes
    DefaultSize = 2
    MaxPending = 3
SPECIFICATION LSpec
INVARIANT ReservoirFollowsConfig
