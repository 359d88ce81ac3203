SPECIFICATION Spec
CONSTANTS
  Chars = {0, 97}
  MaxLength = 2
  IntBytes = {0, 97}
  IntSize = 1
  MaxParts = 2
INVARIANTS Unambiguous
CHECK_DEADLOCK FALSE
