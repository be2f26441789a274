CONSTANTS
  pcb_test = pcb_test
  idle = idle
  p1 = p1
  p2 = p2
  k1 = k1
  NULL = NULL
  PCB = {pcb_test, idle, p1}
  MAXPROC = 3
  Key = {24}
  Priority = {1}
  MaxPriority = 1
  PassType = {}
  SemBound = 1
  MaxFailedCreates = 0
  KillsOwnAncestry = FALSE
  Installed <- Printer
  Used <- PrinterUsed
  Misused <- PrinterUsed
SPECIFICATION IOSpec
INVARIANT
  WaitioBlocks
