SPECIFICATION Spec
CONSTANTS
    None = None
    Stream <- MCStream
    Settings <- AllSettings
    MaxRecordBody = 3
    MaxSegment = 9
    MaxPacket = 12
INVARIANTS
    BytesStayInOrder
    
    SplitKeepsTheBytes
PROPERTY
    FragmentsTheChosen
CHECK_DEADLOCK FALSE
