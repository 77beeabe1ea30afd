SPECIFICATION Spec
CONSTANTS
  MaxFlows = 1
  MaxActs = 2
  MaxFetches = 3
  MaxDrops = 1
  RecentMax = 1
  BufMax = 2
  Brushing = FALSE
INVARIANT PlaybackIsPure
CHECK_DEADLOCK FALSE
