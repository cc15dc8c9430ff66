CONSTANTS
  Screen = {c0, c1, c2}
  Connected = {c0, c1}
  Layer = {l0, l1}
  Surface = {s0}
  Look = {x}
  NoLook = NoLook
  NoId = NoId
  ReplayOnRegister = TRUE
  PipeMax = 1
  Commands = {"add_surface", "remove_surface", "modify_surface", "add_layer",
              "remove_layer", "modify_layer", "initial_screen"}
  InsertOrders = {"prepend", "append", "before", "after", "none"}
  Malformed = TRUE
  Garbage = {0, 3}
  CountMod = 4
SPECIFICATION Spec
INVARIANTS TypeOK IlmTypeOK TreeShape NeverExits TreeInv
PROPERTY GhostsOnlyFade
PROPERTY ImplementsScene
SYMMETRY Interchangeable
CHECK_DEADLOCK FALSE
