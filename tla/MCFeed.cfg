SPECIFICATION ReadersSpec
CONSTANTS
    EventBlocks <- MCEventBlocks
    EventCap = 1
    ChannelCap = 1
    ClientCap = 1
    NoMsg = NoMsg
    MaxForwarders = 1
    INTERVALS = 1
    MaxBlocks = 2
    MaxFaults = 1
INVARIANTS NoGap FeedFollowsChain CandlesTrue
CHECK_DEADLOCK FALSE
