CONSTANTS
  Papers = {p1, p2}
  Workers = {w1, w2}
  MaxRetries = 1
  MaxFaults = 1
SPECIFICATION FairSpec
INVARIANTS AnalysedOnce NothingLeftOut NoShardForgotten
PROPERTY BarrierOpens
CHECK_DEADLOCK FALSE
