SPECIFICATION Spec
CONSTANTS
    a = a
    b = b
    Listener = {a, b}
    Map = {1, 2}
    QueueOf <- HighQueues
    QueueCount = 4
    LookupWorks = TRUE
    MaxCrashes = 1
    None = None
    Stale = Stale
INVARIANTS
    EntryIsReady
    KeepsReceiving
    FallbackGetsPackets
CHECK_DEADLOCK FALSE
