CONSTANTS
  a = a
  newline = newline
  b = b
  error = error
  nul = nul
  Char = {a, b, newline}
  MaxLength = 2
SPECIFICATION DriverSpec
INVARIANTS
  DriverTypeOK
  PutsInOrder
  GetsLine
PROPERTY
  CallsReturn
