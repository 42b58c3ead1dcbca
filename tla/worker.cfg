SPECIFICATION MCSpec
CONSTANTS
  Scenes = {"mails", "drafts", "jobs"}
  Account = {a1}
  Cycle = {c1, c2}
  MaxUid = 2
  Limit = 1
  MaxCrash = 1
  NoAccount = NoAccount
  SyncFaults = {"imap", "move", "admin"}
  Draft = {d1}
  Request = {r1, r2, r3}
  Body = {made, edited}
  MaxMails = 2
  NoDraft = NoDraft
  DraftFaultSets <- SerialOrAll
  Job = {j1}
  Order = {o1}
  Worker = {w1, w2}
  Beat = Beat
  Nobody = Nobody
  MaxLosses = 2
  FaultSets <- NoneDbOrAll
INVARIANTS
  MailsAreKept
  OneDraft
  DraftsAreTrue
  
PROPERTIES
  RetriesRepeatNothing
  WorkerEnds
CHECK_DEADLOCK FALSE
