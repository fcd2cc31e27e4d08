SPECIFICATION DevicesSpec
CONSTANTS
    Parts = {"crtc", "timer", "sleep", "text", "printf", "shell"}
    Tasks = {t1, t2}
    NumDisplays = 2
    UsedRows = {0, 24}
    UsedCols = {79}
    Callbacks = {c1, c2}
    MaxDelay = 3
    MaxEvents = 6
    InitialQueueSize = 2
    NoCallback = NoCallback
    ReallocFails = FALSE
    Word = 8
    Period = 3
    Delays = {1, 3, 4}
    MaxTime = 24
    Rows = 2
    Cols = 3
    Chars = {"a"}
    Blank = " "
    TextLens = {0, 1, 3}
    Values = {0, 1, 7, 9, 10, 16, 255, 65535}
    MaxSize = 8
    Measuring = FALSE
    Lines <- MCLines
    PathCommand <- MCRead
    CmdSize = 8
    PathSize = 5
INVARIANTS
    CurrentIsShown
    SleepsLongEnough
    OutputExact
    LineExact
PROPERTIES
    KeepsItsPromise
    ShowsItsText
CHECK_DEADLOCK FALSE
