SPECIFICATION LockSpec
CHECK_DEADLOCK FALSE
CONSTANTS
  Root = Root
  Cleaner = Cleaner
  Workers = {w1}
  w1 = w1
  NoTask = NoTask
  NoTime = NoTime
  TimeSlice = 2
  MaxSleep = 0
  MaxRefs = 0
  Referable = {}
  BottomHalfPulses = 0
  Permits = 1
  Lockers = {Root, w1}
INVARIANTS
  NoStrandedWaiter
