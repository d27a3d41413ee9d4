SPECIFICATION Spec
CHECK_DEADLOCK FALSE
CONSTANTS
    Name <- MCName
    Byte <- MCByte
    Stale <- MCStale
    BlkSize = 3
    HdrLen = 1
    LongName <- MCLongName
    RoName <- MCRoName
    NoFile = NoFile
    Disk0 <- MCDisk
    SaveJobs <- AllJobs
    Environments <- AllKinds
    MaxCmds = 2
INVARIANTS
    TypeOK
    LoadIsPrefix
    StoredIsPrefix
    ServerSurvives
    OneInFlight
    ValidNumbering
    OnlyFileBytes
PROPERTIES
    BlocksInOrder
    ServiceSpec
