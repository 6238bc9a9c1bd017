SPECIFICATION Spec
CONSTANTS
    eager = eager
    lazy = lazy
    Client = {eager, lazy}
    Idle = {lazy}
    Sink = {mqtt}
    SocketRoom = 1
    MaxBbo = 3
    MaxSignals = 1
INVARIANTS
    FeedIsContiguous
    DestroyedAlone
PROPERTIES
    FeedKeepsFlowing
    
CHECK_DEADLOCK FALSE
