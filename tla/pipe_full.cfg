SPECIFICATION CommandsSpec
CONSTANTS
  Surface = {s1, s2}
  Capacity = 3
  NoSurface = NoSurface
CHECK_DEADLOCK FALSE
PROPERTY MainReturns
