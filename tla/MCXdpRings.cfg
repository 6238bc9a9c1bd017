SPECIFICATION PathFairSpec
CONSTANTS
    RingSize = 2
    Wrap = 4
    RefillAbove = 1
    MaxPackets = 3
INVARIANTS
    FramesConserved
    PacketsCopiedOnce
PROPERTIES
    PacketsRead
    StackDrains
    StopEndsOrRestarts
CHECK_DEADLOCK FALSE
