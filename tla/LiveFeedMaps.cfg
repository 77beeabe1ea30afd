SPECIFICATION Spec
CONSTANTS
  Ips = {ip1}
  Garbage = Garbage
  NotText = NotText
  NotLoaded = NotLoaded
  Idle = Idle
  Clients = {c1}
  Cap = 2
  MaxMsgs = 1
  MaxEdits = 0
  MaxFails = 1
PROPERTY CorrectionStays
CHECK_DEADLOCK FALSE
