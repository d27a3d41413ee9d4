SPECIFICATION FairSpec
CHECK_DEADLOCK FALSE
CONSTANTS
    PageSize = 6
    Pages = 5
    Formats <- SketchFormats
    Strings <- SketchStrings
    DelayMod = 2
    MaxSyns = 3
    Name <- Hosts
    NoAddr = NoAddr
    Sketches <- AllSketches
    MaxChecks = 2
    MaxAttempts = 2
    Lengths = {1, 7}
    MaxPuts = 5
    Payloads <- OneOrTwoPages
INVARIANTS
    TypeOK
    StashExact
    PagesAccounted
    MessageExact
    FilledOnce
    ReplyIsOwn
    LookupOwn
PROPERTIES
    Settles
    GatewayFound
