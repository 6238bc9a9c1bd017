SPECIFICATION FairSpec
CONSTANTS
    ListenerMax = 2
    GatewayMax = 2
    MaxPackets = 4
INVARIANTS
    NewestKeptInOrder
    StopLeavesOne
PROPERTIES
    NewestPublished
    StopWakesReader
CHECK_DEADLOCK FALSE
