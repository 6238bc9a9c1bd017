SPECIFICATION BooksSpec
CONSTANTS
    Stock = {AAPL, MSFT}
    Price = {10, 13}
    Quantity = {1, 2}
    MaxShares = 4
    MaxFills = 3
    Scale = 12
INVARIANTS
    PositionIsNetOfFills
    FlatIsClean
    ProfitMatchesCash
