SPECIFICATION Spec
CONSTANTS
  N = 3
  DstCap = 1
  MaxTicks = 4
  MaxFlows = 3
  Flows <- MCFlows
  None = None
  h1 = h1
  h2 = h2
  p1 = p1
  p2 = p2
  us = us
  cn = cn
  https = https
  video = video
INVARIANTS
  TypeOK
  SnapshotMatchesHistory
  DstAllOrNothing
  PeerCountryKept
PROPERTY RefinesSlidingWindow
CHECK_DEADLOCK FALSE
