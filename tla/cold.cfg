SPECIFICATION FairColdSpec
CONSTANTS
  Model = {m1, m2}
  Task = {t1}
  Pid = {p1, p2}
  Updater = Updater
  Heartbeat = Heartbeat
  NoModel = NoModel
  NoPid = NoPid
  Ops = {"load", "delete", "download", "selfupdate", "exit"}
  Faults = {"crash", "startfail", "timeout"}
  Client = {c1, c2}
INVARIANTS
  NoLeak
  ReadyNeverLies
PROPERTIES
  PolledNeverWrong
  ImplementsSlot
  ChatsEnd
