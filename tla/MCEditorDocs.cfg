SPECIFICATION Spec
CONSTANTS
  a = a
  b = b
  Window = {a, b}
  MaxItems = 2
  MaxVersion = 2
  MaxClears = 1
  MaxOpens = 3
SYMMETRY Symmetric
INVARIANT NeverDoubled
PROPERTY StayTogether
CHECK_DEADLOCK FALSE
