SPECIFICATION InputSpec
CONSTANTS
    Parts = {"terminal"}
    Bits = {}
    RingSize = 2
    CmdBuffSize = 2
    Strokes = {}
    EarlyKeys = FALSE
    MaxStrokes = 0
    MaxResends = 0
    SizeWrap = 256
    NumTtys = 1
    PageSize = 4
    Tasks = {k1}
    NumFiles = 1
    Events <- MCEvents
    ReadSize = 2
    MaxEvents = 2
    MaxOpens = 1
    MaxWrites = 0
INVARIANT
    NoReaderLeftAsleep
CHECK_DEADLOCK FALSE
