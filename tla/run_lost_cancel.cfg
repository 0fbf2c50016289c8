CONSTANTS
  Workers = {w1}
  Clients = {c1}
  MaxVersion = 3
  MaxFaults = 0
  MaxQueue = 2
  StartStages = {"QUEUED"}
SPECIFICATION Spec
PROPERTIES CancelIsDurable
CHECK_DEADLOCK FALSE
