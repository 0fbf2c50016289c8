CONSTANTS
  PaperCount = 2
  Workers = {w1, w2}
  MaxConcurrency = 1
  MaxRetries = 1
  MaxFaults = 1
  MaxCancels = 1
SPECIFICATION FairSpec
INVARIANTS OutcomeHonest RetriedOnce
PROPERTIES JobEnds StageLeft
CHECK_DEADLOCK FALSE
