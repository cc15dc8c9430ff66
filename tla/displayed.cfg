CONSTANTS
  Screen = {c0}
  Connected = {c0}
  Layer = {l0}
  Surface = {s0, s1}
  Look = {x}
  NoLook = NoLook
  NoId = NoId
  ReplayOnRegister = TRUE
  PipeMax = 1
  Commands = {"add_surface", "remove_surface", "modify_surface", "add_layer",
              "remove_layer", "modify_layer", "initial_screen"}
  InsertOrders = {"append", "before", "after", "prepend"}
  Malformed = FALSE
  Garbage = {0}
  CountMod = 4
SPECIFICATION FairSpec
INVARIANT StackingFollowsTree
PROPERTY EventsOnlyShow
PROPERTY SurfacesAreDisplayed
