SPECIFICATION FairSpec
CONSTANTS
  Size = 4
  Kinds <- MCKinds
  TitleScore <- MCTitleScore
  NONE = NONE
  NoYear = NoYear
  Today = 2026
  MaxRounds = 2
INVARIANTS TypeOK ClustersAreComponents KeysIdentify
PROPERTIES StageEnds
CHECK_DEADLOCK FALSE
