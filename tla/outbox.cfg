CONSTANTS
  Writers = {w1, w2}
  Kinds = {"stage", "barrier", "shard"}
  Publishers = {b1, b2}
  ReplayLimit = 4
  MaxTx = 2
  MaxFaults = 1
SPECIFICATION FairSpec
INVARIANTS SequencesDense PublishedWasSent SkippedWasOvertaken
PROPERTIES WritersEnd EventuallyPublished
CHECK_DEADLOCK FALSE
