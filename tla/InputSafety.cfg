SPECIFICATION InputSpec
CONSTANTS
    Parts = {"controller", "keyboard", "terminal", "switching"}
    Bits = {0, 1, 4, 5, 6}
    RingSize = 5
    CmdBuffSize = 8
    Strokes <- MCStrokes
    EarlyKeys = FALSE
    MaxStrokes = 3
    MaxResends = 1
    SizeWrap = 256
    NumTtys = 1
    PageSize = 4
    Tasks = {k1}
    NumFiles = 1
    Events <- MCEvents
    ReadSize = 2
    MaxEvents = 6
    MaxOpens = 1
    MaxWrites = 1
INVARIANTS
    Configured
    KeysInOrder
    LightsSettle
    InputFollowsSwitch
PROPERTIES
    IsLineDiscipline
CHECK_DEADLOCK FALSE
