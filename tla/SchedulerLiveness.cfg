SPECIFICATION FairSpec
CONSTANTS
  Root = Root
  Cleaner = Cleaner
  Workers = {w1}
  w1 = w1
  NoTask = NoTask
  NoTime = NoTime
  TimeSlice = 1
  MaxSleep = 2
  MaxRefs = 0
  Referable = {}
  BottomHalfPulses = 0
PROPERTIES
  ServesReadyTasks
  SleeperWakes
  YieldReturns
