CONSTANTS
  Paths = {a, b}
  Minus = minus
  Junk = junk
  Lanes = {l1}
  MaxFile = 3
  MaxString = 2
SPECIFICATION Spec
INVARIANTS
  TypeOK
  OneLogFile
  SamePath
  WriteIsLive
