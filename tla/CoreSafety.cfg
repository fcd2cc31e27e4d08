SPECIFICATION CoreSpec
CONSTANTS
    Parts = {"list", "interrupts", "events", "pic", "bus"}
    Entries = {a, b, c}
    Sentinel = Sentinel
    Interrupts = {i1, i2, i3}
    NoInterrupt = NoInterrupt
    Handlers = {"fs", "other", "third"}
    HandlerCount = 2
    TidModulus = 4
    MaxTasks = 4
    Lines = {0, 1, 3, 4, 7}
    Spurious = {7}
    Devices = {"d1", "d2"}
    InitSections <- MCInitSections
    Matches <- MCMatches
    WithData = {"ps2", "other"}
    FreesOnFail = {}
    Removal = TRUE
    MaxBlocks = 7
INVARIANTS
    LinksAgree
    EventsExact
    
PROPERTIES
    IsRings
    IterationComplete
    BottomHalvesInOrder
    HandlerEnds
    RequestsServed
    EarlyServed
CHECK_DEADLOCK FALSE
