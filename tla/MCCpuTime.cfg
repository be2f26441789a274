CONSTANTS
  p1 = p1
  p2 = p2
  Process = {p1, p2}
  first = p1
  NULL = NULL
  W = 8
  Start = 5
  MaxTicks = 4
  Traps = TRUE
SPECIFICATION CpuSpec
INVARIANTS
  CpuTypeOK
  WithinWallclock
  UserTimeExact
  KernelTimeExact
PROPERTY
  AnswersAgree
