SPECIFICATION Spec
CONSTANTS
  MaxLog = 2
  MaxRecv = 2
  MaxLives = 2
  ChanCap = 1
  BatchMax = 2
INVARIANT ResumeSkipsStored
CHECK_DEADLOCK FALSE
