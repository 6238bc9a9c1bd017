SPECIFICATION Spec
CONSTANTS
    Levels = 3
    PriceUnit = 2
    CounterRange = 4
    Orders = 2
    ScanDepth = 3
    NoAsk = 99
    MaxMessages = 2
    Message <- MCMessage
INVARIANT
    BboShowsBest
