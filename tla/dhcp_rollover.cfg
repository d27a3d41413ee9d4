SPECIFICATION Spec
CHECK_DEADLOCK FALSE
CONSTANTS
    s1 = s1
    Server = {s1}
    NoAddr = NoAddr
    LeaseTime = 8
    ClockMod = 18
    RxCap = 2
    QueueCap = 2
    Rollover = TRUE
    PatientClient = TRUE
    Troubles <- Nothing
    TroubleDuring <- Always
    MaxTrouble = 0
PROPERTIES
    RenewAtHalf
