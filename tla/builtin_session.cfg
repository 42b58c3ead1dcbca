SPECIFICATION MCSpec
CONSTANTS
  Scenes = {"turn"}
  Call = {c1}
  Decider = {d1, d2}
  TTL = 5
  PollLimit = 4
  WaitLimit = 5
  Nobody = Nobody
  Faults = {"silent redis", "cancel", "admin", "late"}
  Run = {r1}
  Client = {k1, k2}
  MaxSteps = 2
  MaxDrops = 1
  Turn = {t1}
  Page = {g1}
  MacroName = {m1, m2}
  Body = {1}
  Slug = {"s"}
  SlugOf <- MCSlugOf
  MaxDepth = 2
  MaxCalls = 2
  MaxId = 2
  Nothing = Nothing
  Process = {p1, p2}
  FileName = {f1, f2, f3, f4}
  MaxFiles = 2
  Upsert = {u1, u2}
  MemoryKey = {key1}
  MaxMemories = 4
  Maker = {i1, i2}
  Cap = 1
  MaxImages = 3
  MaxCut = 1
  MaxStuck = 1
  File = {"short", "long", "blank"}
  Text <- MCText
  Upload = {v1, v2}
  Owner = {w1, w2}
  NoDocument = NoDocument
  Access = {x1, x2}
  NoToken = NoToken
  MaxTokens = 3
  Worker = {w1, w2}
  NoWorker = NoWorker
  MaxTries = 2
  MaxTurns = 2
  MaxPieces = 2
  MaxDelegations = 2
INVARIANT TurnSurvives
CHECK_DEADLOCK FALSE
