SPECIFICATION Spec
CONSTANTS
  Surface = {s1, s2}
  Capacity = 3
  NoSurface = NoSurface
\* a full pipe stops the main thread for good: see pipe_full.cfg
CHECK_DEADLOCK FALSE
INVARIANT TypeOK
INVARIANT BlocksOnlyOnBacklog
