SPECIFICATION Spec
CONSTANTS
  Layer = {l1, l2}
  Surface = {s1}
  SizeKeys <- Size1
  LayoutKeys <- Layout2
  Value = {a}
  Garbage = Garbage
INVARIANT TypeOK
INVARIANT ShownAsHeld
INVARIANT GarbageOfIncomplete
PROPERTY StoresWhole
SYMMETRY Interchangeable
