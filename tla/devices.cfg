SPECIFICATION DevicesSpec
CHECK_DEADLOCK FALSE
CONSTANTS
    Names <- SomeNames
    PlainChar <- Unescaped
    LocalChar <- LowerCase
    NameLimit = 16
    RequestLimit = 20
    MaxCounter = 1
    Given <- SomeFiles
    MaxSaves = 5
    SECTORS <- SmallDisk
    Tracks = 3
    DirTrack = 2
    BodySize = 2
    Slots = 2
    Layouts <- SomeLayouts
INVARIANTS
    UniqueNames
    LoadsLastSaved
PROPERTIES
    DiskLoads
