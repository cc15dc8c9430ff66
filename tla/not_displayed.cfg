CONSTANTS
  Screen = {c0}
  Connected = {c0}
  Layer = {l0, l1}
  Surface = {s0}
  Look = {x}
  NoLook = NoLook
  NoId = NoId
  ReplayOnRegister = TRUE
  PipeMax = 1
  Commands = {"initial_screen", "remove_layer"}
  InsertOrders = {"append"}
  Malformed = FALSE
  Garbage = {0}
  CountMod = 4
SPECIFICATION FairSpec
PROPERTY SurfacesAreDisplayed
CHECK_DEADLOCK FALSE
