CONSTANTS
  FileCount = 2
  Contents = {a, b}
  Workers = {w1, w2}
  PageLimit = 2
  SyncCount = 2
  MaxDocs = 3
  MaxEdits = 1
  MaxFaults = 1
SPECIFICATION Spec
SYMMETRY Symmetry
CONSTRAINT Relevant
PROPERTIES Mirrored NothingLost
CHECK_DEADLOCK FALSE
