CONSTANTS
  pcb_test = pcb_test
  idle = idle
  p1 = p1
  p2 = p2
  p3 = p3
  k1 = k1
  k2 = k2
  NULL = NULL
  PCB = {pcb_test, idle, p1, p2}
  MAXPROC = 4
  Key = {k1, k2}
  Priority = {1, 3}
  MaxPriority = 3
  PassType = {"sys", "trap"}
  SemBound = 1
  MaxFailedCreates = 1
  KillsOwnAncestry = FALSE
SPECIFICATION Spec
SYMMETRY Symmetry
INVARIANTS
  TypeOK
  ListDiscipline
  SemaphoreCount
  SemdAccounting
  ReadySorted
  BoundedAging
  IdleOnlyAlone
  RunningIsReady
PROPERTY
  CleanPcb
