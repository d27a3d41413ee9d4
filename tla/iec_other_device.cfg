SPECIFICATION FairSpec
CHECK_DEADLOCK FALSE
CONSTANTS
    Bits = 3
    LowBits = 1
    LISTEN = 0
    UNLISTEN = 1
    TALK = 2
    UNTALK = 3
    OPEN = 3
    CLOSE = 2
    DATA = 1
    OwnAddresses = {0}
    IobufSize = 4
    Jobs <- SaveOrPrint
    MaxJobs = 2
    File <- ThreeBytes
    Faults <- NoFaults
    MaxResets = 0
    MaxStored = 4
INVARIANTS
    OnlyOwnDevices
