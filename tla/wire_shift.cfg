SPECIFICATION Spec
CONSTANTS
    None = None
    Stream <- MCStream
    Settings <- WholeHelloSetting
    MaxRecordBody = 3
    MaxSegment = 9
    MaxPacket = 12
INVARIANT ServerReadsTheClient
CHECK_DEADLOCK FALSE
