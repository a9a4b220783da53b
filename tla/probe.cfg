SPECIFICATION FairSpec
CONSTANTS
    None = None
    TcpCap = 500
    TlsCap = 1000
    TtfbCap = 2000
    DownCap = 2048
    UpCap = 2048
    SniValid = TRUE
    Times = {0, 400, 3000}
    Speeds = {0, 1500, 4096}
    DownloadCap = 2
    UploadCap = 2
    ResponseMax = 2
INVARIANT EntryIsSound
PROPERTY Returns
CHECK_DEADLOCK FALSE
