SPECIFICATION FairSpec
CONSTANTS
    None = None
    a = a
    b = b
    c = c
    x = x
    r4 = r4
    r6 = r6
    Addresses <- MCAddresses
    IPv6 <- MCIPv6
    Ranges <- MCRanges
    Hosts <- MCHosts
    Lines <- MCLines
    Starts <- MCStarts
PROPERTIES
    StopEndsInterceptor
CHECK_DEADLOCK FALSE
