CONSTANTS
  pcb_test = pcb_test
  idle = idle
  p1 = p1
  p2 = p2
  p3 = p3
  k1 = k1
  k2 = k2
  NULL = NULL
  PCB = {pcb_test, idle, p1, p2, p3}
  MAXPROC = 5
  Key = {k1}
  Priority = {1}
  MaxPriority = 1
  PassType = {}
  SemBound = 1
  MaxFailedCreates = 0
  KillsOwnAncestry = FALSE
SPECIFICATION Spec
SYMMETRY Symmetry
INVARIANTS
  HaltOnlyWhenDone
  HaltsWhenDone
  FamilyTree
PROPERTY
  OnlyFamilyDies
