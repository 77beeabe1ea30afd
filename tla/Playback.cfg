SPECIFICATION FairSpec
CONSTANTS
  MaxFlows = 2
  MaxActs = 2
  MaxFetches = 3
  MaxDrops = 2
  RecentMax = 2
  BufMax = 2
  Brushing = TRUE
INVARIANTS
  TypeOK
  NoStaleReplay
  SocketGated
  InOrder
PROPERTY Reconnects
CHECK_DEADLOCK FALSE
