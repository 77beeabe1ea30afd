SPECIFICATION FairSpec
CONSTANTS
  Ips = {ip1}
  Garbage = Garbage
  NotText = NotText
  NotLoaded = NotLoaded
  Idle = Idle
  Clients = {c1}
  Cap = 2
  MaxMsgs = 3
  MaxEdits = 1
  MaxFails = 1
INVARIANTS
  TypeOK
  CountedIsSent
  MissesOnlyWhenLagging
PROPERTIES
  ClientsCatchUp
  MapsConverge
  Resubscribes
CHECK_DEADLOCK FALSE
