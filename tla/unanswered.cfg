SPECIFICATION FairSpec
CONSTANTS
  Client = {c1, c2}
  Foreign = {}
  HeaderLen = 2
  BodyLen = 2
  Rounds = 1
  Backlog = 3
  Garbage = {0, 1, 5}
  UIntMod = 8
  Killing = "anytime"
  Event = {}
  NoClient = NoClient
PROPERTY CommandsAnswered
CHECK_DEADLOCK FALSE
