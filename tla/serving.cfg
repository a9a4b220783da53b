SPECIFICATION Spec
CONSTANTS
    a = a
    b = b
    x = x
    p = p
    q = q
    NoPort = NoPort
    NoAddress = NoAddress
    Target = a
    Conns <- MCConns
    Ports <- MCPorts
    Pools <- MCPools
    Rescanned <- MCRescanned
    IPv6 <- MCIPv6
    IndexMod = 4
    MaxBytes = 1
    MaxQueued = 1
    MaxSwaps = 1
    MaxRecords = 1
SYMMETRY MCSymmetry
INVARIANTS
    PoolIsFair
    
    OpenIsShown
    CreditGoesToTheAddress
    ShownAddressIsTheTarget

    
CHECK_DEADLOCK FALSE
