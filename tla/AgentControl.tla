---------------------------- MODULE AgentControl ----------------------------
(***************************************************************************)
(* The control API of a node agent and the llama-server process it drives. *)
(*                                                                         *)
(* One asyncio loop runs the HTTP handlers of agent_api.py, the tasks they *)
(* create, the llama.cpp update loop and the heartbeat loop of main.py.    *)
(* A step of this module is what the loop runs between two awaits of one   *)
(* of them.  /models/load, /models/unload and /config take _load_lock; the *)
(* update loop and the self-update of the heartbeat stop and start the     *)
(* same LlamaServer object without it.                                     *)
(***************************************************************************)
EXTENDS Naturals, Sequences

CONSTANTS
  Model,      \* the GGUF files
  Task,       \* slots for the requests that change the server
  Pid,        \* slots for llama-server processes
  Updater,    \* the task of _update_loop
  Heartbeat,  \* the task of _heartbeat_loop, for its self-update
  NoModel, NoPid,
  Ops,        \* the operations in use
  Faults      \* the failures in play

AllOps == {"load", "unload", "restart", "delete", "download",
           "update", "selfupdate", "exit"}
AllFaults == {"crash", "startfail", "timeout"}

ASSUME OpsAssumption == Ops \subseteq AllOps /\ Faults \subseteq AllFaults
ASSUME ActorsAssumption ==
  /\ Updater \notin Task /\ Heartbeat \notin Task /\ Updater # Heartbeat
  /\ NoModel \notin Model /\ NoPid \notin Pid

VARIABLES
  up,     \* the control API answers
  load,   \* _load_status: its state and filename
  queue,  \* _load_lock: the holder, then the waiters in FIFO order
  task,   \* what each actor is doing
  proc,   \* every llama-server process, referenced or not
  ref,    \* LlamaServer._process
  cur,    \* LlamaServer._current_model
  disk,   \* the files of models_dir
  fetch   \* the file being downloaded, or NoModel

vars == <<up, load, queue, task, proc, ref, cur, disk, fetch>>

Actor == Task \cup {Updater, Heartbeat}

Status == [state : {"idle", "loading", "ready", "error"},
           file : Model \cup {NoModel}]
Idle == [state |-> "idle", file |-> NoModel]

\* "stopping" and "draining" are the two awaits of LlamaServer.stop,
\* "spawning" and "starting" those of LlamaServer.start after its stop;
\* the update has a download and a stop of its own before its restart.
PC == {"free", "waiting", "stopping", "draining", "spawning", "starting",
       "fetching", "swapping", "swapped"}
Activity == [op : AllOps \cup {"none"}, pc : PC,
             model : Model \cup {NoModel}, victim : Pid \cup {NoPid}]
Free == [op |-> "none", pc |-> "free", model |-> NoModel, victim |-> NoPid]

Dead == [model |-> NoModel, st |-> "dead"]
Process == [model : Model \cup {NoModel},
            st : {"dead", "doomed", "loading", "serving"}]

TypeOK ==
  /\ up \in BOOLEAN
  /\ load \in Status
  /\ queue \in Seq(Task)
  /\ task \in [Actor -> Activity]
  /\ proc \in [Pid -> Process]
  /\ ref \in Pid \cup {NoPid}
  /\ cur \in Model \cup {NoModel}
  /\ disk \subseteq Model
  /\ fetch \in Model \cup {NoModel}

AllFree == [t \in Actor |-> Free]
AllDead == [p \in Pid |-> Dead]

Init ==
  /\ up = FALSE /\ load = Idle /\ queue = << >> /\ task = AllFree
  /\ proc = AllDead /\ ref = NoPid /\ cur = NoModel /\ fetch = NoModel
  /\ disk \in SUBSET Model

-----------------------------------------------------------------------------
(* LlamaServer                                                             *)

Alive(p) == proc[p].st # "dead"
Running == ref # NoPid /\ Alive(ref)
Serving(p) == proc[p].st = "serving"

\* A slot whose process is gone and that nobody still refers to.
Unused(p) ==
  /\ ~Alive(p)
  /\ p # ref
  /\ \A t \in Actor : task[t].victim # p

\* A stop() waits for the drain task of the process it stopped.
Draining == \E u \in Actor : task[u].pc \in {"draining", "swapped"}

\* Mutant: a process that does not serve yet counts as stopped.
MutStopWait ==
  IF Running /\ proc[ref].st = "serving" THEN "exit"
  ELSE IF ref # NoPid \/ Draining THEN "drain" ELSE "none"

\* What stop() waits for first: the exit of a live process, which it sends
\* SIGTERM; else the drain task of a process that is gone; else nothing, and
\* its caller goes on in the same step.
StopWait ==
  IF Running THEN "exit" ELSE IF ref # NoPid \/ Draining THEN "drain" ELSE "none"

\* stop() up to its first await; the program counters name what follows it.
BeginStop(t, op, m, exit, drain, after) ==
  /\ task' = [task EXCEPT ![t] =
       [op |-> op, model |-> m,
        pc |-> CASE StopWait = "exit" -> exit
                 [] StopWait = "drain" -> drain
                 [] StopWait = "none" -> after,
        victim |-> IF Running THEN ref ELSE NoPid]]
  /\ ref' = IF Running THEN ref ELSE NoPid

BeginStart(t, op, m) == BeginStop(t, op, m, "stopping", "draining", "spawning")

\* The exit of the process wakes stop(), which drops the reference and then
\* waits for the drain task.
EndStop(t, waiting, drained) ==
  /\ task[t].pc = waiting
  /\ ~Alive(task[t].victim)
  /\ ref' = NoPid
  /\ task' = [task EXCEPT ![t].pc = drained, ![t].victim = NoPid]
  /\ UNCHANGED <<up, load, queue, proc, cur, disk, fetch>>

Stopped(t) == EndStop(t, "stopping", "draining")

\* What ends a holder of the lock; Updater and Heartbeat never held it.
Release(t) == queue' = IF t \in Task THEN Tail(queue) ELSE queue
Finish(t) == Release(t) /\ task' = [task EXCEPT ![t] = Free]

\* start() between its stop and create_subprocess_exec; a restart and a
\* load continue, an unload publishes idle.
Starts(t) == task[t].op \in {"load", "restart", "update"}

Drained(t) ==
  /\ task[t].pc = "draining" /\ Starts(t)
  /\ task' = [task EXCEPT ![t].pc = "spawning"]
  /\ UNCHANGED <<up, load, queue, proc, ref, cur, disk, fetch>>

\* An exception of start(): _build_cmd refuses the configuration, or the
\* binary cannot be executed.  The update only logs it.
Failed(t) ==
  /\ load' = IF t \in Task THEN [load EXCEPT !.state = "error"] ELSE load
  /\ Finish(t)

SpawnFails(t) ==
  /\ "startfail" \in Faults
  /\ task[t].pc = "spawning"
  /\ Failed(t)
  /\ UNCHANGED <<up, proc, ref, cur, disk, fetch>>

\* A process that finds no file, or the port taken by another, can only exit.
Born(m) ==
  [model |-> m,
   st |-> IF m \in disk /\ \A p \in Pid : ~Alive(p) THEN "loading" ELSE "doomed"]

\* create_subprocess_exec returns.  Every stop() that waited for a process
\* that is gone was woken before this await could end.
Spawned(t) ==
  /\ task[t].pc = "spawning"
  /\ \A u \in Actor : task[u].victim # NoPid => Alive(task[u].victim)
  /\ \E p \in Pid :
       /\ Unused(p)
       /\ proc' = [proc EXCEPT ![p] = Born(task[t].model)]
       /\ ref' = p
  /\ cur' = task[t].model
  /\ task' = [task EXCEPT ![t].pc = "starting"]
  /\ UNCHANGED <<up, load, queue, disk, fetch>>

\* Mutant: ready as soon as the process exists, without asking /health.
MutHealthy(t) ==
  /\ task[t].pc = "starting"
  /\ Running
  /\ load' = IF t \in Task THEN [load EXCEPT !.state = "ready"] ELSE load
  /\ Finish(t)
  /\ UNCHANGED <<up, proc, ref, cur, disk, fetch>>

\* _wait_ready: the process is alive and /health answers 200 on the port.
Healthy(t) ==
  /\ task[t].pc = "starting"
  /\ Running /\ \E p \in Pid : Serving(p)
  /\ load' = IF t \in Task THEN [load EXCEPT !.state = "ready"] ELSE load
  /\ Finish(t)
  /\ UNCHANGED <<up, proc, ref, cur, disk, fetch>>

ExitSeen(t) ==
  /\ task[t].pc = "starting"
  /\ ~Running
  /\ Failed(t)
  /\ UNCHANGED <<up, proc, ref, cur, disk, fetch>>

\* The startup deadline passes; the process is left running.
StartTimeout(t) ==
  /\ "timeout" \in Faults
  /\ task[t].pc = "starting"
  /\ Running
  /\ Failed(t)
  /\ UNCHANGED <<up, proc, ref, cur, disk, fetch>>

-----------------------------------------------------------------------------
(* llama-server processes (llama.cpp itself is not in the repository)      *)

Serves(p) ==
  /\ proc[p].st = "loading"
  /\ proc' = [proc EXCEPT ![p].st = "serving"]
  /\ UNCHANGED <<up, load, queue, task, ref, cur, disk, fetch>>

Terminated(p) == \E t \in Actor : task[t].victim = p

Dies(p) ==
  /\ \/ Terminated(p)
     \/ proc[p].st = "doomed"
     \/ proc[p].st = "loading" /\ "startfail" \in Faults
     \/ proc[p].st = "serving" /\ "crash" \in Faults
  /\ Alive(p)
  /\ proc' = [proc EXCEPT ![p] = Dead]
  /\ UNCHANGED <<up, load, queue, task, ref, cur, disk, fetch>>

-----------------------------------------------------------------------------
(* Handlers of agent_api.py and the tasks they create                      *)

\* What POST /models/load answers; only "accepted" changes anything.
LoadReply(f) ==
  IF f \notin disk THEN "404"
  ELSE IF load.state # "loading" THEN "accepted"
  ELSE IF load.file = f THEN "loading" ELSE "409"

\* Mutant: the file of the previous load stays published.
MutAcceptLoad(t, f) ==
  /\ load' = [load EXCEPT !.state = "loading"]
  /\ task' = [task EXCEPT ![t] = [op |-> "load", pc |-> "waiting",
                                  model |-> f, victim |-> NoPid]]
  /\ queue' = Append(queue, t)
  /\ UNCHANGED <<up, proc, ref, cur, disk, fetch>>

AcceptLoad(t, f) ==
  /\ load' = [state |-> "loading", file |-> f]
  /\ task' = [task EXCEPT ![t] = [op |-> "load", pc |-> "waiting",
                                  model |-> f, victim |-> NoPid]]
  /\ queue' = Append(queue, t)
  /\ UNCHANGED <<up, proc, ref, cur, disk, fetch>>

LoadModel(t, f) ==
  /\ "load" \in Ops
  /\ up /\ task[t] = Free
  /\ LoadReply(f) = "accepted"
  /\ AcceptLoad(t, f)

\* Mutant: _load_task does not wait for _load_lock.
MutLoadTask(t) ==
  /\ task[t].op = "load" /\ task[t].pc = "waiting"
  /\ BeginStart(t, "load", task[t].model)
  /\ UNCHANGED <<up, load, queue, proc, cur, disk, fetch>>

\* _load_task gets the lock and calls start().
LoadTask(t) ==
  /\ task[t].op = "load" /\ task[t].pc = "waiting" /\ Head(queue) = t
  /\ BeginStart(t, "load", task[t].model)
  /\ UNCHANGED <<up, load, queue, proc, cur, disk, fetch>>

\* POST /models/unload: refused while loading, otherwise takes the lock at
\* once when it is free and queues for it when it is not.
UnloadModel(t) ==
  /\ "unload" \in Ops
  /\ up /\ task[t] = Free
  /\ load.state # "loading"
  /\ \/ /\ queue # << >>
        /\ queue' = Append(queue, t)
        /\ task' = [task EXCEPT ![t] = [op |-> "unload", pc |-> "waiting",
                                        model |-> NoModel, victim |-> NoPid]]
        /\ UNCHANGED <<load, ref>>
     \/ /\ queue = << >> /\ StopWait # "none"
        /\ queue' = << t >>
        /\ BeginStop(t, "unload", NoModel, "stopping", "draining", "free")
        /\ load' = load
     \/ /\ queue = << >> /\ StopWait = "none"
        /\ load' = Idle
        /\ UNCHANGED <<queue, task, ref>>
  /\ UNCHANGED <<up, proc, cur, disk, fetch>>

UnloadLocked(t) ==
  /\ task[t].op = "unload" /\ task[t].pc = "waiting" /\ Head(queue) = t
  /\ \/ /\ StopWait # "none"
        /\ BeginStop(t, "unload", NoModel, "stopping", "draining", "free")
        /\ UNCHANGED <<load, queue>>
     \/ /\ StopWait = "none"
        /\ load' = Idle /\ ref' = ref
        /\ Finish(t)
  /\ UNCHANGED <<up, proc, cur, disk, fetch>>

Unloaded(t) ==
  /\ task[t].op = "unload" /\ task[t].pc = "draining"
  /\ load' = Idle
  /\ Finish(t)
  /\ UNCHANGED <<up, proc, ref, cur, disk, fetch>>

\* PATCH /config: needs a running server; it looks neither at the state of
\* _load_status nor at the lock.
PatchConfig(t) ==
  /\ "restart" \in Ops
  /\ up /\ task[t] = Free
  /\ Running /\ cur # NoModel
  /\ task' = [task EXCEPT ![t] = [op |-> "restart", pc |-> "waiting",
                                  model |-> NoModel, victim |-> NoPid]]
  /\ queue' = Append(queue, t)
  /\ UNCHANGED <<up, load, proc, ref, cur, disk, fetch>>

\* _restart_task gets the lock: it reads the current model now.
RestartTask(t) ==
  /\ task[t].op = "restart" /\ task[t].pc = "waiting" /\ Head(queue) = t
  /\ load' = [state |-> "loading", file |-> cur]
  /\ BeginStart(t, "restart", cur)
  /\ UNCHANGED <<up, queue, proc, cur, disk, fetch>>

DeleteModel(f) ==
  /\ "delete" \in Ops
  /\ up /\ f \in disk
  /\ disk' = disk \ {f}
  /\ UNCHANGED <<up, load, queue, task, proc, ref, cur, fetch>>

StartDownload(f) ==
  /\ "download" \in Ops
  /\ up /\ fetch = NoModel
  /\ fetch' = f
  /\ UNCHANGED <<up, load, queue, task, proc, ref, cur, disk>>

DownloadEnds ==
  /\ fetch # NoModel
  /\ fetch' = NoModel
  /\ disk' \in {disk, disk \cup {fetch}}
  /\ UNCHANGED <<up, load, queue, task, proc, ref, cur>>

-----------------------------------------------------------------------------
(* The loops of main.py                                                    *)

\* check_and_update reads was_running, then downloads the archive.  With no
\* server running it only replaces files, which changes nothing here.
UpdateFetch ==
  /\ "update" \in Ops
  /\ up /\ task[Updater] = Free
  /\ Running
  /\ task' = [task EXCEPT ![Updater] = [op |-> "update", pc |-> "fetching",
                                        model |-> NoModel, victim |-> NoPid]]
  /\ UNCHANGED <<up, load, queue, proc, ref, cur, disk, fetch>>

UpdateAbandoned ==
  /\ task[Updater].pc = "fetching"
  /\ task' = [task EXCEPT ![Updater] = Free]
  /\ UNCHANGED <<up, load, queue, proc, ref, cur, disk, fetch>>

UpdateStops ==
  /\ task[Updater].pc = "fetching" /\ StopWait # "none"
  /\ BeginStop(Updater, "update", NoModel, "swapping", "swapped", "free")
  /\ UNCHANGED <<up, load, queue, proc, cur, disk, fetch>>

UpdateStopped == EndStop(Updater, "swapping", "swapped")

\* The old server is stopped and the files are replaced: restart() with the
\* current model and config.
Swapping ==
  \/ task[Updater].pc = "swapped"
  \/ task[Updater].pc = "fetching" /\ StopWait = "none"

UpdateRestarts ==
  /\ Swapping
  /\ BeginStart(Updater, "update", cur)
  /\ UNCHANGED <<up, load, queue, proc, cur, disk, fetch>>

\* Moving the files failed: return without the restart.
UpdateMoveFails ==
  /\ "startfail" \in Faults
  /\ Swapping
  /\ task' = [task EXCEPT ![Updater] = Free]
  /\ UNCHANGED <<up, load, queue, proc, ref, cur, disk, fetch>>

\* A heartbeat answer asked for a new version and git pull succeeded: stop
\* the server without the lock, then leave the process.
SelfUpdate ==
  /\ "selfupdate" \in Ops
  /\ up /\ task[Heartbeat] = Free
  /\ BeginStop(Heartbeat, "selfupdate", NoModel, "stopping", "draining", "draining")
  /\ UNCHANGED <<up, load, queue, proc, cur, disk, fetch>>

\* os._exit at the end of a self-update, or the agent crashes; the service
\* manager kills what is left of the process group.
Exit ==
  /\ up
  /\ \/ "exit" \in Ops
     \/ task[Heartbeat].pc = "draining"
  /\ up' = FALSE /\ load' = Idle /\ queue' = << >> /\ task' = AllFree
  /\ proc' = AllDead /\ ref' = NoPid /\ cur' = NoModel /\ fetch' = NoModel
  /\ disk' = disk

\* _run: no model to autoload, or no llama-server binary.
BootIdle ==
  /\ ~up
  /\ up' = TRUE
  /\ UNCHANGED <<load, queue, task, proc, ref, cur, disk, fetch>>

\* _run autoloads f before the API answers, then init() publishes what it
\* sees: a process that is alive is "ready", whatever start() returned.
BootAutoload(f, st) ==
  /\ ~up /\ f \in disk
  /\ \/ st = "serving"
     \/ st = "loading" /\ "timeout" \in Faults
     \/ st = "dead" /\ "startfail" \in Faults
  /\ up' = TRUE
  /\ \E p \in Pid :
       /\ proc' = [proc EXCEPT ![p] =
                     IF st = "dead" THEN Dead ELSE [model |-> f, st |-> st]]
       /\ ref' = p
  /\ cur' = f
  /\ load' = [state |-> IF st = "dead" THEN "error" ELSE "ready", file |-> f]
  /\ UNCHANGED <<queue, task, disk, fetch>>

BootMissing(f) ==
  /\ ~up /\ f \notin disk
  /\ up' = TRUE
  /\ load' = [state |-> "error", file |-> f]
  /\ UNCHANGED <<queue, task, proc, ref, cur, disk, fetch>>

-----------------------------------------------------------------------------

Boot ==
  \/ BootIdle
  \/ \E f \in Model : BootMissing(f)
  \/ \E f \in Model, st \in {"serving", "loading", "dead"} : BootAutoload(f, st)

Request ==
  \/ \E t \in Task, f \in Model : LoadModel(t, f)
  \/ \E t \in Task : UnloadModel(t) \/ PatchConfig(t)
  \/ \E f \in Model : DeleteModel(f) \/ StartDownload(f)

Locked(t) == LoadTask(t) \/ UnloadLocked(t) \/ RestartTask(t) \/ Unloaded(t)

Starting(t) ==
  \/ Stopped(t) \/ Drained(t) \/ Spawned(t)
  \/ Healthy(t) \/ ExitSeen(t) \/ StartTimeout(t) \/ SpawnFails(t)

Update ==
  \/ UpdateFetch \/ UpdateAbandoned \/ UpdateStops \/ UpdateStopped
  \/ UpdateRestarts \/ UpdateMoveFails

Processes == \E p \in Pid : Serves(p) \/ Dies(p)

Next ==
  \/ Boot
  \/ Request
  \/ DownloadEnds
  \/ \E t \in Task : Locked(t)
  \/ \E t \in Actor : Starting(t)
  \/ Update
  \/ SelfUpdate
  \/ Exit
  \/ Processes

Spec == Init /\ [][Next]_vars

\* The event loop runs what is runnable, a process told to stop exits (it is
\* killed after ten seconds) and a start ends within its deadline.
Fairness ==
  /\ \A t \in Task : WF_vars(Locked(t)) /\ WF_vars(Starting(t))
  /\ \A p \in Pid : WF_vars(Terminated(p) /\ Dies(p))

-----------------------------------------------------------------------------

Holder(t) == queue # << >> /\ Head(queue) = t
Working == {"stopping", "draining", "spawning", "starting"}

\* Only the holder of _load_lock is inside stop() or start(), every queued
\* request is waiting or holding, and no request is queued twice: the tasks
\* of agent_api.py never overlap in LlamaServer.
LockDiscipline ==
  /\ \A t \in Task : task[t].pc \in Working => Holder(t)
  /\ \A t \in Task : task[t].pc # "free" <=> \E i \in 1..Len(queue) : queue[i] = t
  /\ \A i, j \in 1..Len(queue) : queue[i] = queue[j] => i = j

\* /load/status says "loading" only while a load or a restart is queued or
\* running, so that the 409 answers it causes cannot last for ever.
LoadingHasOwner ==
  load.state = "loading" =>
    \E t \in Task : task[t].op \in {"load", "restart"}

\* The tasks behind POST /models/load, /models/unload and PATCH /config work one at a time,
\* and what the agent publishes as loading has one of them behind it.
TasksAreOrderly == LockDiscipline /\ LoadingHasOwner

\* Every llama-server process that is alive is the one the agent refers to:
\* none is left behind with its port and its memory.
NoLeak == \A p \in Pid : Alive(p) => p = ref

\* A load that was accepted is over one day, with a new status or with a
\* new life of the agent.
LoadingEnds == (load.state = "loading") ~> (load.state # "loading")

=============================================================================
