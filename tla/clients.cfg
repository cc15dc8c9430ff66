SPECIFICATION Spec
CONSTANTS
  Client = {c1, c2}
  Foreign = {c2}
  HeaderLen = 2
  BodyLen = 3
  Rounds = 2
  Backlog = 3
  Garbage = {0, 1, 5}
  UIntMod = 8
  Killing = "anytime"
  Event = {}
  NoClient = NoClient
INVARIANT TypeOK
INVARIANT Intact
INVARIANT HeadersWhole
INVARIANT ReceiverInv
PROPERTY ImplementsService
CHECK_DEADLOCK FALSE
