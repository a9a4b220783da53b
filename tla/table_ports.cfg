SPECIFICATION Spec
CONSTANTS
    None = None
    c1 = c1
    c2 = c2
    c3 = c3
    Conns <- MCConns
    Ports = {1, 2}
    Upstreams = {"a", "b"}
SYMMETRY Symmetry
INVARIANTS
    NoStaleEntry
PROPERTIES
    DisplacesOnlyClosed
    LosesEntryOnlyToStale
CHECK_DEADLOCK FALSE
