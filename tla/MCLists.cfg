CONSTANTS
  p1 = p1
  p2 = p2
  p3 = p3
  k1 = k1
  k2 = k2
  PCB = {p1, p2, p3}
  Key = {k1, k2}
  NULL = NULL
  MAXPROC = 3
  Priority = {0, 1}
  Scope <- Scopes
SPECIFICATION ListsSpec
SYMMETRY Symmetry
INVARIANTS
  Linked
  OutProcQStaysOnQueue
PROPERTY
  ImplementsTables
