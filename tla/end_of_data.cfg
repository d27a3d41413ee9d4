SPECIFICATION Spec
CHECK_DEADLOCK FALSE
CONSTANTS
    Name <- MCName
    Byte <- MCByte
    Stale <- MCStale
    BlkSize = 3
    HdrLen = 1
    LongName <- MCLongName
    RoName <- MCRoName
    NoFile = NoFile
    Disk0 <- MCDisk
    SaveJobs <- OpenJobs
    Environments <- NoTrouble
    MaxCmds = 1
INVARIANTS
    SavedIsStored
