CONSTANTS
  Papers = {p1}
  Tasks = {t1}
  Workers = {w1}
  MaxFaults = 0
  MaxPauses = 1
SPECIFICATION Spec
INVARIANTS NeverStartsOver
CHECK_DEADLOCK FALSE
