SPECIFICATION LockSpec
CONSTANTS
  Root = Root
  Cleaner = Cleaner
  Workers = {w1}
  w1 = w1
  NoTask = NoTask
  NoTime = NoTime
  TimeSlice = 2
  MaxSleep = 1
  MaxRefs = 0
  Referable = {}
  BottomHalfPulses = 0
  Permits = 1
  Lockers = {Root, w1}
INVARIANTS
    PermitsConserved
    WaitersExact
    PreemptionBalanced
CHECK_DEADLOCK FALSE
