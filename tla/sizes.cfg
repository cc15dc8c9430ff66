SPECIFICATION Spec
CONSTANTS
  Layer = {l1}
  Surface = {}
  SizeKeys <- Size2
  LayoutKeys <- Layout2
  Value = {a, b}
  Garbage = Garbage
INVARIANT GarbageOfIncomplete
PROPERTY StoresWhole
SYMMETRY Interchangeable
