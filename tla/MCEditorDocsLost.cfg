SPECIFICATION Spec
CONSTANTS
  a = a
  b = b
  Window = {a}
  MaxItems = 5
  MaxVersion = 3
  MaxClears = 0
  MaxOpens = 2
PROPERTIES SavesBuildOnSaves
CHECK_DEADLOCK FALSE
