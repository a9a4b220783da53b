SPECIFICATION SFairSpec
CONSTANTS
    None = None
    a = a
    b = b
    TcpCap = 500
    TlsCap = 1000
    TtfbCap = 2000
    DownCap = 2048
    UpCap = 2048
    Ips <- ListTwice
    Permits1 = 2
    Permits2 = 1
    MAX_IP_SCAN = 1
    Latencies = {100}
    Measurements <- BothMeasurements
INVARIANTS
    EveryAddressReturned
    
    
    AllProgressFirst
    ShownHealthyIsKept
    EntriesAreAChoice
PROPERTY
    SessionEnds
CHECK_DEADLOCK FALSE
