SPECIFICATION Spec
CONSTANTS
    gateway = gateway
    maker = maker
    exchange = exchange
    engine = engine
    StartOrder <- Order
    Deps <- DependsOn
    TcpChecked = {gateway, exchange}
    MaxSignals = 2
    MaxCrashes = 1
INVARIANTS
    
    StopsInReverse

    
    
    
CHECK_DEADLOCK FALSE
