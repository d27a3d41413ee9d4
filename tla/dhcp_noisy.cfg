SPECIFICATION Spec
CHECK_DEADLOCK FALSE
CONSTANTS
    s1 = s1
    s2 = s2
    Server = {s1, s2}
    NoAddr = NoAddr
    LeaseTime = 8
    ClockMod = 20
    RxCap = 2
    QueueCap = 2
    Rollover = FALSE
    PatientClient = FALSE
    Troubles <- Everything
    TroubleDuring <- Always
    MaxTrouble = 3
INVARIANTS
    TypeOK
    LeaseHeld
