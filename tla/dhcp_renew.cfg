SPECIFICATION FairSpec
CHECK_DEADLOCK FALSE
CONSTANTS
    s1 = s1
    Server = {s1}
    NoAddr = NoAddr
    LeaseTime = 8
    ClockMod = 32
    RxCap = 2
    QueueCap = 2
    Rollover = FALSE
    PatientClient = TRUE
    Troubles <- LossOrStray
    TroubleDuring <- Renewing
    MaxTrouble = 2
PROPERTIES
    RenewAtHalf
    KeepsLease
    Binds
