SPECIFICATION Spec
CONSTANTS
    AAPL = AAPL
    PENNY = PENNY
    Symbol = {AAPL, PENNY}
    Bbo <- MCBbo
    ThrottleEvery = 2
    MaxPairs = 3
    EdgeBps = 3
    MinSpreadBps = 5
    PositionSkewBps = 2
    QuoteSize = 2
    MaxPosition = 4
    MaxNotional = 100000000
    Cent = 1000
INVARIANTS
    
    LimitHoldsWithoutOverlap
