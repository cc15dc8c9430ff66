SPECIFICATION FairSpec
CONSTANTS
  Client = {c1, c2}
  Foreign = {}
  HeaderLen = 2
  BodyLen = 2
  Rounds = 2
  Backlog = 0
  Garbage = {0, 1, 5}
  UIntMod = 8
  Killing = "unserved"
  Event = {e1}
  NoClient = NoClient
INVARIANT Survives
PROPERTY CommandsAnswered
PROPERTY EventsHandled
CHECK_DEADLOCK FALSE
