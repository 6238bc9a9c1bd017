SPECIFICATION FairSpec
CONSTANTS
    OrderSlots = 3
    FillSlots = 3
    QuoteSize = 1
    MaxPosition = 2
    FillRingOpen = TRUE
    SplitReads = FALSE
    MayDisconnect = TRUE
    MaxPairs = 3
INVARIANTS
    
    WireInOrder
    

    
    
