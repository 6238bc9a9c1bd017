SPECIFICATION BboSpec
CONSTANTS
    e1 = e1
    e2 = e2
    lo = lo
    hi = hi
    Size = 2
    Event <- MCEvent
    Word <- MCWord
    Blank = Blank
    MaxEvents = 4
INVARIANTS
    SettledIntact
    DamageIsOneLapOld
