SPECIFICATION FairSpec
CONSTANTS
  MaxLog = 3
  MaxRecv = 2
  MaxLives = 2
  ChanCap = 1
  BatchMax = 2
INVARIANTS
  TypeOK
  WatermarkCovers
  StoredWasPublished
  InsertedOncePerLife
PROPERTIES
  WatermarkAdvances
  RefinesDelivery
  EventuallyStored
CHECK_DEADLOCK FALSE
