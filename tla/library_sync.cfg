CONSTANTS
  EntryCount = 2
  Contents = {"a", "b"}
  Workers = {w1, w2}
  RunCount = 1
  MaxWaiting = 1
  MaxEdits = 1
  MaxFaults = 1
SPECIFICATION FairSpec
PROPERTIES QuarantineExact Reflected FailedRebuildServes RunEnds
CHECK_DEADLOCK FALSE
