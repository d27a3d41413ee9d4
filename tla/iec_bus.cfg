SPECIFICATION FairSpec
CHECK_DEADLOCK FALSE
CONSTANTS
    Bits = 3
    LowBits = 1
    LISTEN = 0
    UNLISTEN = 1
    TALK = 2
    UNTALK = 3
    OPEN = 3
    CLOSE = 2
    DATA = 1
    OwnAddresses = {0}
    IobufSize = 4
    Jobs <- LoadOrSave
    MaxJobs = 2
    File <- ThreeBytes
    Faults <- NoneOrAll
    MaxResets = 2
    MaxStored = 4
INVARIANTS
    NeverFails
    ClockNotFought
    TypeOK
    Exact
PROPERTIES
    JobsEnd
    BackInLoop
