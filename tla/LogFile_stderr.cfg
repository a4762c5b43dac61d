CONSTANTS
  Paths = {a, b}
  Minus = minus
  Junk = junk
  Lanes = {}
  MaxFile = 3
  MaxString = 2
SPECIFICATION Spec
INVARIANTS
  MinusIsStderr
