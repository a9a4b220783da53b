SPECIFICATION Spec
CONSTANTS
    None = None
    Stream <- MCStream
    Settings <- DefaultSetting
    MaxRecordBody = 3
    MaxSegment = 9
    MaxPacket = 12
INVARIANT HelloIsSplit
CHECK_DEADLOCK FALSE
