CONSTANTS
  Workers = {w1}
  Clients = {c1}
  MaxVersion = 2
  MaxFaults = 1
  MaxQueue = 2
  StartStages = {"QUEUED", "ANALYZING"}
SPECIFICATION StartFairSpec
PROPERTIES StageLeft
CHECK_DEADLOCK FALSE
