SPECIFICATION Spec
CONSTANTS
  Half = 12
  LandPercent = 85
  Cell = 2
  ClusterKm = 2
  SnapKm = 3
  Dateline = 11
  LatTolerance = 2
  ArcticLat = 4
  PolarLat = 5
  NordicWest = 3
  NordicEast = 2
  LandK = 2
  RingMax = 3
  BridgeKm = 1
  Grain = 2
  Worlds <- SeamWorlds
INVARIANTS
  EdgesAvoidZones
