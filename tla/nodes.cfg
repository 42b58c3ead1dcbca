SPECIFICATION MCSpec
CONSTANTS
  b1 = b1
  b2 = b2
  p1 = p1
  p2 = p2
  a1 = a1
  a2 = a2
  Scenes = {"agent", "updates", "rows", "series", "choice"}
  Model = {m1}
  Task = {t1, t2}
  Pid = {q1, q2, q3}
  Updater = Updater
  Heartbeat = Heartbeat
  NoModel = NoModel
  NoPid = NoPid
  Ops = {"load", "unload", "restart", "update"}
  Faults = {"crash", "startfail", "timeout"}
  Cooldown = 2
  MaxCommits = 3
  MaxFetches = 2
  Name = {1, 2}
  Reported = {m1}
  Beat <- MCBeat
  Cycle <- MCCycle
  Admin <- MCAdmin
  Nobody = Nobody
  MaxId = 2
  OfflineAfter = 6
  Period = 3
  ProbeTime = 2
  Worlds <- MCWorlds
  Horizon = 11
  MinutesPerHour = 2
  MinutesPerDay = 3
  RetentionDays = 2
  MaxRows = 2
  NodeName = {1, 2, 3}
  ModelName = {m1}
  Nothing = Nothing
INVARIANTS
  TasksAreOrderly
  ModelsAreReported
  AnsweringIsOnline
  MetricsAreWhole
  FailoverOrder
PROPERTY NodeSettles
CHECK_DEADLOCK FALSE
