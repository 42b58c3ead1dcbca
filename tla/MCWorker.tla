------------------------------ MODULE MCWorker ------------------------------
(***************************************************************************)
(* What users and Celery workers do with mails and jobs, each in a scene   *)
(* of its own: the synchronisation of a mailbox, the drafts of mails and   *)
(* the scheduled jobs.                                                     *)
(***************************************************************************)
EXTENDS MailSync, MailDrafts, JobRuns

CONSTANT Scenes

VARIABLE scene

SerialOrAll == {{}, AllDraftFaults}
NoneDbOrAll == {{}, {"db"}, AllFaults}

StillDrafts ==
  /\ DraftInit
  /\ scene # "drafts" => draftFaults = {} /\ draft = [d \in Draft |-> [there |-> TRUE,
       status |-> "pending", body |-> CHOOSE b \in Body : TRUE]]
StillJobs ==
  /\ Init
  /\ scene # "jobs" => faults = {}

MCInit == scene \in Scenes /\ SyncInit /\ StillDrafts /\ StillJobs

MCNext ==
  \/ scene = "mails" /\ SyncNext /\ UNCHANGED <<draftVars, vars, scene>>
  \/ scene = "drafts" /\ DraftNext /\ UNCHANGED <<syncVars, vars, scene>>
  \/ scene = "jobs" /\ Next /\ UNCHANGED <<syncVars, draftVars, scene>>

\* The fairness of each component, in its scene.
MCFair ==
  /\ \A c \in Cycle :
       /\ WF_syncVars(scene = "mails" /\ (Start(c) \/ CycleStep(c)))
       /\ SF_syncVars(scene = "mails" /\ Fetch(c))
  /\ WF_syncVars(scene = "mails" /\ LockExpires)
  /\ \A w \in Worker : WF_vars(scene = "jobs" /\ Task(w)) /\ WF_vars(scene = "jobs" /\ SyncScheduler(w))
  /\ \A o \in Order :
       /\ SF_vars(scene = "jobs" /\ \E w \in Worker : Take(w, o))
       /\ WF_vars(scene = "jobs" /\ Redeliver(o) /\ losses' = losses)

MCSpec == MCInit /\ [][MCNext]_<<syncVars, draftVars, vars, scene>> /\ MCFair

(***************************************************************************)
(* What the worker promises in the end: a mail that the server lists is    *)
(* recorded however the cycles fail (mail/sync.py), and a job that was     *)
(* ordered ends however its messages are lost or delivered again           *)
(* (workers/tasks.py).                                                     *)
(***************************************************************************)
WorkerEnds == MailIsRecorded /\ OrdersEnd

=============================================================================
