CONSTANTS
  Papers = {p1}
  Tasks = {t1, t2}
  Workers = {w1, w2}
  MaxFaults = 1
  MaxPauses = 1
SPECIFICATION FairSpec
INVARIANTS ServedIsCurrent RegeneratedConsistent MadeOnce
PROPERTIES SuccessStays RequestsEnd
CHECK_DEADLOCK FALSE
