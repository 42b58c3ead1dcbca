------------------------------ MODULE JobRuns ------------------------------
(***************************************************************************)
(* Scheduled jobs: the rows that users write (api/jobs.py), the schedule   *)
(* that each Celery process holds in its memory (scheduler/syncer.py), and *)
(* the task run_scheduled_job with what Celery does around it              *)
(* (workers/tasks.py, workers/app.py): late acknowledgement, redelivery,   *)
(* retries.  The reply of a job is that of ChatReply, one step here.       *)
(***************************************************************************)
EXTENDS Naturals, Sequences

CONSTANTS
  Job,
  Order,       \* bound: tasks run_scheduled_job ever sent
  Worker,      \* the processes of the pool of the worker
  Beat,        \* the process of the beat
  Nobody,
  MaxLosses,   \* bound: deaths of a worker and redeliveries of a long task
  FaultSets    \* what may happen besides, for several kinds of behaviours

AllFaults == {"db", "crash", "slow"}
ASSUME LossAssumption == MaxLosses \in Nat
ASSUME FaultAssumption == FaultSets \subseteq SUBSET AllFaults
ASSUME BeatAssumption == Beat \notin Worker /\ Nobody \notin Job \cup Order

VARIABLES
  job,     \* scheduled_jobs
  conf,    \* celery_app.conf.beat_schedule of each process, its user part
  msg,     \* the task messages: queued, held by a worker until it acknowledges
  runs,    \* job_runs, by the order that made them
  work,    \* the task a worker is executing
  losses,
  faults   \* what may happen in this behaviour, which never changes

vars == <<job, conf, msg, runs, work, losses, faults>>

Process == Worker \cup {Beat}
MaxRetries == 2

IdleWork == [pc |-> "idle", order |-> Nobody, row |-> 0]
NoMsg == [st |-> "none", job |-> Nobody, tries |-> 0]
RunStatus == {"running", "ok", "fail", "deleted"}
PC == {"idle", "taken", "read", "inserted", "replying", "ok", "fail"}

TypeOK ==
  /\ job \in [Job -> {"new", "on", "off", "deleted"}]
  /\ conf \in [Process -> SUBSET Job]
  /\ msg \in [Order -> [st : {"none", "queued", "held", "done"},
                        job : Job \cup {Nobody}, tries : 0..MaxRetries]]
  /\ runs \in [Order -> Seq(RunStatus)]
  /\ work \in [Worker -> [pc : PC, order : Order \cup {Nobody}, row : Nat]]
  /\ losses \in 0..MaxLosses
  /\ faults \in FaultSets

Init ==
  /\ job = [j \in Job |-> "new"]
  /\ conf = [p \in Process |-> {}]
  /\ msg = [o \in Order |-> NoMsg]
  /\ runs = [o \in Order |-> <<>>]
  /\ work = [w \in Worker |-> IdleWork]
  /\ losses = 0
  /\ faults \in FaultSets

-----------------------------------------------------------------------------
(* Users.                                                                  *)

CreateJob(j) ==
  /\ job[j] = "new"
  /\ job' = [job EXCEPT ![j] = "on"]
  /\ UNCHANGED <<conf, msg, runs, work, losses, faults>>

PatchJob(j) ==
  /\ job[j] \in {"on", "off"}
  /\ job' = [job EXCEPT ![j] = IF @ = "on" THEN "off" ELSE "on"]
  /\ UNCHANGED <<conf, msg, runs, work, losses, faults>>

\* The foreign key of job_runs deletes the runs of the job with it.
DeleteJob(j) ==
  /\ job[j] \in {"on", "off"}
  /\ job' = [job EXCEPT ![j] = "deleted"]
  /\ runs' = [o \in Order |-> IF msg[o].job = j
                                THEN [i \in DOMAIN runs[o] |-> "deleted"] ELSE runs[o]]
  /\ UNCHANGED <<conf, msg, work, losses, faults>>

-----------------------------------------------------------------------------
(* The schedule.                                                           *)

Enabled == {j \in Job : job[j] = "on"}
At(w, pc) == work[w].pc = pc

\* The task sync_scheduler, every minute and after every change of a job: it
\* rebuilds the schedule of the process that executes it.
SyncScheduler(w) ==
  /\ At(w, "idle")
  /\ conf' = [conf EXCEPT ![w] = Enabled]
  /\ UNCHANGED <<job, msg, runs, work, losses, faults>>

\* POST /jobs/{id}/run, which does not look at enabled, and the beat, which
\* goes by its own schedule.
Send(j, o) ==
  /\ j \in conf[Beat] \cup {k \in Job : job[k] \in {"on", "off"}}
  /\ msg[o].st = "none"
  /\ msg' = [msg EXCEPT ![o] = [st |-> "queued", job |-> j, tries |-> 0]]
  /\ UNCHANGED <<job, conf, runs, work, losses, faults>>

-----------------------------------------------------------------------------
(* The task run_scheduled_job.                                             *)

OrderOf(w) == work[w].order
JobOf(w) == msg[OrderOf(w)].job
Row(w) == runs[OrderOf(w)][work[w].row]
Goto(w, pc) == work' = [work EXCEPT ![w].pc = pc]

Take(w, o) ==
  /\ At(w, "idle") /\ msg[o].st = "queued"
  /\ msg' = [msg EXCEPT ![o].st = "held"]
  /\ work' = [work EXCEPT ![w] = [pc |-> "taken", order |-> o, row |-> 0]]
  /\ UNCHANGED <<job, conf, runs, losses, faults>>

\* task_acks_late: the message goes when the task has returned.
Acknowledge(w) ==
  /\ msg' = [msg EXCEPT ![OrderOf(w)].st = "done"]
  /\ work' = [work EXCEPT ![w] = IdleWork]

\* Mutant: a new task for each retry, whose tries start again.
MutRetry(w) ==
  /\ msg' = [msg EXCEPT ![OrderOf(w)].st = "queued"]
  /\ work' = [work EXCEPT ![w] = IdleWork]

\* autoretry_for: the same task is sent again, max_retries times.
FailTask(w) ==
  /\ IF msg[OrderOf(w)].tries < MaxRetries
       THEN msg' = [msg EXCEPT ![OrderOf(w)] = [st |-> "queued", job |-> @.job, tries |-> @.tries + 1]]
       ELSE msg' = [msg EXCEPT ![OrderOf(w)].st = "done"]
  /\ work' = [work EXCEPT ![w] = IdleWork]

ReadJob(w) ==
  /\ At(w, "taken")
  /\ IF job[JobOf(w)] = "on"
       THEN Goto(w, "read") /\ msg' = msg
       ELSE Acknowledge(w)
  /\ UNCHANGED <<job, conf, runs, losses, faults>>

\* The commit of the run; the foreign key refuses it for a deleted job.
InsertRun(w) ==
  /\ At(w, "read")
  /\ \/ /\ job[JobOf(w)] # "deleted"
        /\ runs' = [runs EXCEPT ![OrderOf(w)] = Append(@, "running")]
        /\ work' = [work EXCEPT ![w] = [pc |-> "inserted", order |-> OrderOf(w),
                                        row |-> Len(runs[OrderOf(w)]) + 1]]
        /\ msg' = msg
     \/ /\ job[JobOf(w)] = "deleted" \/ "db" \in faults
        /\ FailTask(w)
        /\ runs' = runs
  /\ UNCHANGED <<job, conf, losses, faults>>

\* The refresh of the run, which may be deleted, then the conversation.
InsertConversation(w) ==
  /\ At(w, "inserted")
  /\ \/ /\ Row(w) # "deleted"
        /\ Goto(w, "replying") /\ msg' = msg
     \/ /\ Row(w) = "deleted" \/ "db" \in faults
        /\ FailTask(w)
  /\ UNCHANGED <<job, conf, runs, losses, faults>>

\* The reply ends, or an error event or an exception makes the run fail.
Reply(w) ==
  /\ At(w, "replying")
  /\ \E res \in {"ok", "fail"} : Goto(w, res)
  /\ UNCHANGED <<job, conf, msg, runs, losses, faults>>

\* Mutant: an exception of the reply is left to autoretry_for.
MutRecordRun(w) ==
  /\ work[w].pc \in {"ok", "fail"}
  /\ IF At(w, "fail")
       THEN FailTask(w) /\ runs' = runs
       ELSE /\ runs' = [runs EXCEPT ![OrderOf(w)][work[w].row] = "ok"]
            /\ Acknowledge(w)
  /\ UNCHANGED <<job, conf, losses, faults>>

\* Mutant: the task raises once the run is recorded.
MutRaiseAfter(w) ==
  /\ work[w].pc \in {"ok", "fail"}
  /\ IF Row(w) # "deleted"
       THEN runs' = [runs EXCEPT ![OrderOf(w)][work[w].row] = work[w].pc]
       ELSE runs' = runs
  /\ FailTask(w)
  /\ UNCHANGED <<job, conf, losses, faults>>

\* The finally: the status of the run and the last_run_at of the job, which
\* are gone together; then the notification, which raises nothing.
RecordRun(w) ==
  /\ work[w].pc \in {"ok", "fail"}
  /\ \/ /\ Row(w) # "deleted"
        /\ runs' = [runs EXCEPT ![OrderOf(w)][work[w].row] = work[w].pc]
        /\ Acknowledge(w)
     \/ /\ Row(w) = "deleted" \/ "db" \in faults
        /\ runs' = runs
        /\ FailTask(w)
  /\ UNCHANGED <<job, conf, losses, faults>>

-----------------------------------------------------------------------------
(* What Celery and Redis do with a message nobody acknowledges.            *)

Loses == losses < MaxLosses /\ losses' = losses + 1

\* A process of the pool is killed: Celery acknowledges the task it lost, or
\* dies with it.  The process that replaces it has imported workers/app.py.
Crash(w) ==
  /\ ~At(w, "idle") /\ "crash" \in faults /\ Loses
  /\ \E st \in {"held", "done"} : msg' = [msg EXCEPT ![OrderOf(w)].st = st]
  /\ work' = [work EXCEPT ![w] = IdleWork]
  /\ conf' = [conf EXCEPT ![w] = {}]
  /\ UNCHANGED <<job, runs, faults>>

\* The visibility timeout of Redis: of a dead worker, or of one that works.
Redeliver(o) ==
  /\ msg[o].st = "held"
  /\ \/ /\ \A w \in Worker : OrderOf(w) # o
        /\ losses' = losses
     \/ "slow" \in faults /\ Loses
  /\ msg' = [msg EXCEPT ![o].st = "queued"]
  /\ UNCHANGED <<job, conf, runs, work, faults>>

-----------------------------------------------------------------------------

Task(w) ==
  \/ ReadJob(w) \/ InsertRun(w) \/ InsertConversation(w) \/ Reply(w) \/ RecordRun(w)

Next ==
  \/ \E j \in Job : CreateJob(j) \/ PatchJob(j) \/ DeleteJob(j)
  \/ \E j \in Job, o \in Order : Send(j, o)
  \/ \E w \in Worker : SyncScheduler(w) \/ Task(w) \/ Crash(w)
  \/ \E w \in Worker, o \in Order : Take(w, o)
  \/ \E o \in Order : Redeliver(o)

Spec == Init /\ [][Next]_vars

\* A worker executes its task and then takes what is queued, the beat sends
\* sync_scheduler every minute, and Redis redelivers what a dead worker held.
Fairness ==
  /\ \A w \in Worker : WF_vars(Task(w)) /\ WF_vars(SyncScheduler(w))
  /\ \A o \in Order :
       /\ SF_vars(\E w \in Worker : Take(w, o))
       /\ WF_vars(Redeliver(o) /\ losses' = losses)
FairSpec == Spec /\ Fairness

-----------------------------------------------------------------------------

\* A run that says running is being executed: without a crash or a failing
\* database no way out of the task leaves one behind.
RunningIsWorked ==
  faults \cap {"crash", "db"} = {} =>
    \A o \in Order : \A i \in DOMAIN runs[o] :
      runs[o][i] = "running" =>
        \E w \in Worker : OrderOf(w) = o /\ work[w].row = i

\* As long as no message is delivered twice, an order whose run has ended is
\* not run again: the retries only repeat what failed before its end.
RetriesRepeatNothing ==
  [][\A o \in Order :
       (faults \cap {"crash", "slow"} = {} /\ \E i \in DOMAIN runs[o] : runs[o][i] \in {"ok", "fail"})
         => Len(runs'[o]) = Len(runs[o])]_vars

\* Every order is executed, skipped or given up, however it fails.
OrdersEnd == \A o \in Order : msg[o].st = "queued" ~> msg[o].st = "done"

\* "celery Beat gets the list up to date" (scheduler/syncer.py): it learns of
\* a job that stays enabled.
BeatLearnsJobs == \A j \in Job : job[j] = "on" ~> (job[j] # "on" \/ j \in conf[Beat])

=============================================================================
