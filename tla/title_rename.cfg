SPECIFICATION MCSpec
CONSTANTS
  Scenes = {"names"}
  Node = {n1, n2}
  Stream = {s1, s2}
  MaxIter = 2
  MaxCalls = 1
  MaxRequests = 2
  NoNode = NoNode
  Ops = {"send", "regenerate", "edit"}
  FaultSets <- SerialOrMany
  Script <- MCScript
  MaxPieces = 3
  Caller = {c1, c2}
  Title <- MCTitle
  DefaultTitle <- MCDefaultTitle
  Untitled = "untitled"
  Made = "made"
  Derived = "derived"
  Nothing = Nothing
  Tag = {g1, g2, g3}
  MaxTags = 2
  MaxCallers = 3
  MaxPhrases = 3
  Mic = {mic1, mic2}
  NoMic = NoMic
  MaxTicks = 2
  Demand = {d1, d2, d3}
  NoDemand = NoDemand
  Whisper = w
  Voice = {v1}
  DefaultVoice = v1
PROPERTY UserTitleStays
CHECK_DEADLOCK FALSE
