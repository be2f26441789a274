CONSTANTS
  pcb_test = pcb_test
  idle = idle
  p1 = p1
  p2 = p2
  p3 = p3
  k1 = k1
  NULL = NULL
  PCB = {pcb_test, idle, p1, p2}
  MAXPROC = 4
  Key = {k1}
  Priority = {1, 3}
  MaxPriority = 3
  PassType = {}
  SemBound = 1
  MaxFailedCreates = 1
  KillsOwnAncestry = FALSE
SPECIFICATION FairSpec
PROPERTIES
  NoStarvation
  TerminationCompletes
  ImplementsLife
