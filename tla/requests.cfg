SPECIFICATION Spec
CONSTANTS
  Surface = {s1, s2}
  Layer = {l1}
  Look = {a, b}
  NoLook = NoLook
  NoId = NoId
INVARIANT TypeOK
INVARIANT ExitsOnlyInRace
PROPERTY LayoutsChangeWhole
PROPERTY RendersList
CHECK_DEADLOCK FALSE
