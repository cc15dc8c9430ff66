CONSTANTS
  Screen = {c0, c1}
  Connected = {c0, c1}
  Layer = {l0, l1}
  Surface = {s0}
  Look = {x, y}
  NoLook = NoLook
  NoId = NoId
  ReplayOnRegister = TRUE
  PipeMax = 2
  Commands = {"add_surface", "remove_surface", "modify_surface", "add_layer",
              "remove_layer", "modify_layer", "initial_screen"}
  InsertOrders = {"prepend", "before"}
  Malformed = FALSE
  Garbage = {0, 1, 3}
  CountMod = 4
SPECIFICATION DSpec
INVARIANT SettledDisplay
INVARIANT StackingFollowsTree
PROPERTY OnlyAddsUncover
PROPERTY ReleasedPerLayer
SYMMETRY Interchangeable
\* the program may crash, see OnlyAddsUncover
CHECK_DEADLOCK FALSE
