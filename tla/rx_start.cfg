SPECIFICATION FairSpec
CHECK_DEADLOCK FALSE
CONSTANTS
    RxSize = 16
    AddressRange = 64
    Header = 2
    Sizes <- MCSizes
    Frames <- MCFrames
    EndsAtTop = TRUE
INVARIANTS
    RxIntact
