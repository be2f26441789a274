CONSTANTS
  pcb_test = pcb_test
  idle = idle
  p1 = p1
  p2 = p2
  p3 = p3
  k1 = k1
  k2 = k2
  NULL = NULL
  PCB = {pcb_test, idle, p1, p2}
  MAXPROC = 4
  Key = {k1}
  Priority = {0}
  MaxPriority = 1
  PassType = {}
  SemBound = 1
  MaxFailedCreates = 0
  KillsOwnAncestry = FALSE
SPECIFICATION Spec
INVARIANT
  ReadySorted
