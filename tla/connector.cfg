SPECIFICATION MCSpec
CONSTANTS
  Scenes = {"life", "routes", "events", "discord"}
  Job = {j1}
  Monitor = {m1}
  Socket = {s1, s2}
  MaxToken = 7
  MaxEvents = 3
  FaultSets <- SerialOrAll
  Message = {g1, g2, g3, g4}
  Nobody = Nobody
  Publisher = {p1, p2}
  Subscriber = {b1}
  Attempts = 2
  MaxPublished = 2
  Command = {k1, k2}
  Body <- MCTexts
  Limit = 4
INVARIANTS
  TokenMatches
  OneConversation
  DeliveredAsWritten
PROPERTY ConnectorEnds
CHECK_DEADLOCK FALSE
