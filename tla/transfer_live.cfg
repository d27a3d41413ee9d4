SPECIFICATION FairSpec
CHECK_DEADLOCK FALSE
CONSTANTS
    Name <- MCName
    Byte <- MCByte
    Stale <- MCStale
    BlkSize = 3
    HdrLen = 1
    LongName <- MCLongName
    RoName <- MCRoName
    NoFile = NoFile
    Disk0 <- MCDisk
    SaveJobs <- ClosedJobs
    Environments <- JustRepeats
    MaxCmds = 2
INVARIANTS
    SavedIsStored
PROPERTIES
    LoadEnds
    SaveEnds
