SPECIFICATION Spec
CONSTANTS
  Interrupts = {i1, i2}
  i1 = i1
  i2 = i2
  Null = Null
INVARIANTS
  NoBottomHalfLost
