SPECIFICATION Spec
CONSTANTS
  Root = Root
  Cleaner = Cleaner
  Workers = {w1}
  w1 = w1
  NoTask = NoTask
  NoTime = NoTime
  TimeSlice = 2
  MaxSleep = 2
  MaxRefs = 1
  Referable = {w1}
  BottomHalfPulses = 1
INVARIANTS
    IndInv
PROPERTIES
    
    NoEarlyWakeup
    IsRoundRobin
