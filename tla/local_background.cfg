CONSTANTS
  PaperCount = 2
  Workers = {w1, w2}
  MaxConcurrency = 2
  MaxFaults = 1
  MaxCancels = 1
  MaxPolls = 1
SPECIFICATION FairSpec
INVARIANTS ReportHasAnalysis
PROPERTIES CancelledUnreported StageSettles
CHECK_DEADLOCK FALSE
