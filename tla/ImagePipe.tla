------------------------------ MODULE ImagePipe ------------------------------
(***************************************************************************)
(* The image model of a node agent: image_gen.py, whose functions run in   *)
(* threads, and the handlers of image_api.py that start them.              *)
(*                                                                         *)
(* _pipe and _current_model are two globals written one after the other    *)
(* under _load_lock; generate() reads both under _infer_lock only.  A step *)
(* of this module makes one access to what the threads share (Answer, the  *)
(* only one that runs in the event loop and reads both, makes two).        *)
(***************************************************************************)
EXTENDS Naturals, Sequences

CONSTANTS
  Model,         \* Hugging Face repositories
  Thread,        \* slots for the requests served by a thread
  DefaultModel,  \* default_model() of this node
  NoModel, Nobody,
  Mixes          \* the sets of requests that behaviours are made of

AllOps == {"generate", "load", "delete", "pull"}

ASSUME ModelAssumption == DefaultModel \in Model /\ NoModel \notin Model
ASSUME ThreadAssumption == Nobody \notin Thread /\ Mixes \subseteq SUBSET AllOps

VARIABLES
  pipe,    \* _pipe: the model of the pipeline in memory
  cur,     \* _current_model
  cache,   \* what the cache of the node holds of each model
  loader,  \* the holder of _load_lock of image_gen.py
  infer,   \* the holder of _infer_lock
  tasks,   \* the tasks of /load, the holder of their asyncio lock first
  pulling, \* is _pull_status downloading?
  th,      \* what each thread is doing
  status,  \* _load_state of image_api.py
  ops      \* the requests of this behaviour, which never change

vars == <<pipe, cur, cache, loader, infer, tasks, pulling, th, status, ops>>

Idle == [op |-> "none", pc |-> "free", asked |-> NoModel, model |-> NoModel]
PC == {"free", "waiting", "queued", "picking", "checking", "naming", "locking",
       "loading", "publishing", "running", "answering", "deleting", "unloading",
       "unloaded", "removing", "sizing", "pulling"}

TypeOK ==
  /\ pipe \in Model \cup {NoModel} /\ cur \in Model \cup {NoModel}
  /\ cache \in [Model -> {"absent", "partial", "full"}]
  /\ loader \in Thread \cup {Nobody} /\ infer \in Thread \cup {Nobody}
  /\ tasks \in Seq(Thread) /\ pulling \in BOOLEAN
  /\ th \in [Thread -> [op : AllOps \cup {"none"}, pc : PC,
                        asked : Model \cup {NoModel}, model : Model \cup {NoModel}]]
  /\ status \in [state : {"idle", "loading", "ready", "error"},
                 model : Model \cup {NoModel}]
  /\ ops \in Mixes

Init ==
  /\ pipe = NoModel /\ cur = NoModel
  /\ cache \in [Model -> {"absent", "full"}]
  /\ loader = Nobody /\ infer = Nobody
  /\ tasks = << >> /\ pulling = FALSE
  /\ th = [t \in Thread |-> Idle]
  /\ status = [state |-> "idle", model |-> NoModel]
  /\ ops \in Mixes

-----------------------------------------------------------------------------

Goto(t, pc) == th' = [th EXCEPT ![t].pc = pc]
Begin(t, op, pc, asked, model) ==
  /\ op \in ops /\ th[t] = Idle
  /\ th' = [th EXCEPT ![t] = [op |-> op, pc |-> pc, asked |-> asked, model |-> model]]

\* The end of _load_task, or of a handler.
Return(t) ==
  /\ th' = [th EXCEPT ![t] = Idle]
  /\ tasks' = IF th[t].op = "load" THEN Tail(tasks) ELSE tasks

\* An exception leaves the "with" blocks it is in; a load that fails is
\* published as such, unlike a generation.
Raise(t) ==
  /\ Return(t)
  /\ loader' = IF loader = t THEN Nobody ELSE loader
  /\ infer' = IF infer = t THEN Nobody ELSE infer
  /\ status' = IF th[t].op = "load" THEN [status EXCEPT !.state = "error"] ELSE status

(* POST /generate *)

Generate(t, asked) ==
  /\ Begin(t, "generate", "queued", asked, asked)
  /\ UNCHANGED <<pipe, cur, cache, loader, infer, tasks, pulling, status, ops>>

Enter(t) ==
  /\ th[t].pc = "queued" /\ infer = Nobody
  /\ infer' = t
  /\ Goto(t, "picking")
  /\ UNCHANGED <<pipe, cur, cache, loader, tasks, pulling, status, ops>>

\* The first test reads _current_model, then looks for the directory of the
\* model, which exists from the start of its download.
Pick(t) ==
  /\ th[t].pc = "picking"
  /\ LET asked == th[t].asked
         swap == asked # NoModel /\ asked # cur
     IN \/ /\ swap => cache[asked] # "absent"
           /\ Goto(t, IF swap THEN "locking" ELSE "checking")
           /\ UNCHANGED <<loader, infer, tasks, status>>
        \/ /\ swap /\ cache[asked] = "absent"
           /\ Raise(t)
  /\ UNCHANGED <<pipe, cur, cache, pulling, ops>>

\* The second test reads _pipe; without one, load() is called without a model
\* and takes the current one or the default.
Check(t) ==
  /\ th[t].pc = "checking"
  /\ Goto(t, IF pipe = NoModel THEN "naming" ELSE "running")
  /\ UNCHANGED <<pipe, cur, cache, loader, infer, tasks, pulling, status, ops>>

NameModel(t) ==
  /\ th[t].pc = "naming"
  /\ th' = [th EXCEPT ![t].pc = "locking",
                      ![t].model = IF cur # NoModel THEN cur ELSE DefaultModel]
  /\ UNCHANGED <<pipe, cur, cache, loader, infer, tasks, pulling, status, ops>>

\* Mutant: a missing pipeline sends the generation back instead of failing.
MutRun(t) ==
  /\ th[t].pc = "running"
  /\ th' = IF pipe = NoModel THEN [th EXCEPT ![t].pc = "checking"]
           ELSE [th EXCEPT ![t].pc = "answering", ![t].model = pipe]
  /\ infer' = IF pipe = NoModel THEN infer ELSE Nobody
  /\ UNCHANGED <<pipe, cur, cache, loader, tasks, pulling, status, ops>>

\* The pipeline is read once more, asserted and run.
Run(t) ==
  /\ th[t].pc = "running"
  /\ \/ /\ pipe = NoModel
        /\ Raise(t)
     \/ /\ pipe # NoModel
        /\ th' = [th EXCEPT ![t].pc = "answering", ![t].model = pipe]
        /\ infer' = Nobody
        /\ UNCHANGED <<loader, tasks, status>>
  /\ UNCHANGED <<pipe, cur, cache, pulling, ops>>

\* Back in the event loop: a state that is not ready is brought up to date.
Answer(t) ==
  /\ th[t].pc = "answering"
  /\ status' = IF status.state # "ready" /\ pipe # NoModel
               THEN [state |-> "ready", model |-> cur] ELSE status
  /\ Return(t)
  /\ UNCHANGED <<pipe, cur, cache, loader, infer, pulling, ops>>

(* POST /load *)

\* A generation can end a loading state, so tasks can queue on their lock.
Load(t, m) ==
  /\ status.state # "loading"
  /\ Begin(t, "load", "waiting", m, m)
  /\ tasks' = Append(tasks, t)
  /\ status' = [state |-> "loading", model |-> m]
  /\ UNCHANGED <<pipe, cur, cache, loader, infer, pulling, ops>>

LoadTask(t) ==
  /\ th[t].pc = "waiting" /\ Head(tasks) = t
  /\ Goto(t, "locking")
  /\ UNCHANGED <<pipe, cur, cache, loader, infer, tasks, pulling, status, ops>>

(* load(), called by both *)

\* What load() returns to: generate() goes on, _load_task publishes.
Loaded(t) ==
  /\ loader' = Nobody
  /\ \/ /\ th[t].op = "generate"
        /\ Goto(t, "running")
        /\ UNCHANGED <<tasks, status>>
     \/ /\ th[t].op = "load"
        /\ Return(t)
        /\ status' = [state |-> "ready", model |-> th[t].model]

\* Mutant: load() does not take _load_lock.
MutLock(t) ==
  /\ th[t].pc = "locking"
  /\ loader' = t
  /\ Goto(t, "loading")
  /\ UNCHANGED <<pipe, cur, cache, infer, tasks, pulling, status, ops>>

Lock(t) ==
  /\ th[t].pc = "locking" /\ loader = Nobody
  /\ \/ /\ pipe # NoModel /\ cur = th[t].model
        /\ Loaded(t)
     \/ /\ ~(pipe # NoModel /\ cur = th[t].model)
        /\ loader' = t
        /\ Goto(t, "loading")
        /\ UNCHANGED <<tasks, status>>
  /\ UNCHANGED <<pipe, cur, cache, infer, pulling, ops>>

\* from_pretrained downloads what the cache lacks.
Pretrained(t) ==
  /\ th[t].pc = "loading"
  /\ cache' = [cache EXCEPT ![th[t].model] = "full"]
  /\ pipe' = th[t].model
  /\ Goto(t, "publishing")
  /\ UNCHANGED <<cur, loader, infer, tasks, pulling, status, ops>>

LoadFails(t) ==
  /\ th[t].pc = "loading"
  /\ Raise(t)
  /\ UNCHANGED <<pipe, cur, cache, pulling, ops>>

Publish(t) ==
  /\ th[t].pc = "publishing"
  /\ cur' = th[t].model
  /\ Loaded(t)
  /\ UNCHANGED <<pipe, cache, infer, pulling, ops>>

(* POST /models/delete *)

Delete(t, m) ==
  /\ Begin(t, "delete", "deleting", m, m)
  /\ UNCHANGED <<pipe, cur, cache, loader, infer, tasks, pulling, status, ops>>

ReadCurrent(t) ==
  /\ th[t].pc = "deleting"
  /\ Goto(t, IF cur = th[t].model THEN "unloading" ELSE "removing")
  /\ UNCHANGED <<pipe, cur, cache, loader, infer, tasks, pulling, status, ops>>

Unload(t) ==
  /\ th[t].pc = "unloading" /\ loader = Nobody
  /\ loader' = t
  /\ pipe' = NoModel
  /\ Goto(t, "unloaded")
  /\ UNCHANGED <<cur, cache, infer, tasks, pulling, status, ops>>

Unloaded(t) ==
  /\ th[t].pc = "unloaded"
  /\ cur' = NoModel
  /\ loader' = Nobody
  /\ Goto(t, "removing")
  /\ UNCHANGED <<pipe, cache, infer, tasks, pulling, status, ops>>

RemoveFiles(t) ==
  /\ th[t].pc = "removing"
  /\ cache' = [cache EXCEPT ![th[t].model] = "absent"]
  /\ Return(t)
  /\ UNCHANGED <<pipe, cur, loader, infer, pulling, status, ops>>

(* POST /pull *)

\* The status only says "downloading" once the size of the model is known.
Pull(t, m) ==
  /\ ~pulling
  /\ Begin(t, "pull", "sizing", m, m)
  /\ UNCHANGED <<pipe, cur, cache, loader, infer, tasks, pulling, status, ops>>

Sized(t) ==
  /\ th[t].pc = "sizing"
  /\ pulling' = TRUE
  /\ cache' = [cache EXCEPT ![th[t].model] = IF @ = "absent" THEN "partial" ELSE @]
  /\ Goto(t, "pulling")
  /\ UNCHANGED <<pipe, cur, loader, infer, tasks, status, ops>>

\* Completed or failed, with what was fetched left in the cache.
PullEnds(t) ==
  /\ th[t].pc = "pulling"
  /\ pulling' = FALSE
  /\ cache' \in {cache, [cache EXCEPT ![th[t].model] = "full"]}
  /\ Return(t)
  /\ UNCHANGED <<pipe, cur, loader, infer, status, ops>>

-----------------------------------------------------------------------------

Request(t) ==
  \/ \E asked \in Model \cup {NoModel} : Generate(t, asked)
  \/ \E m \in Model : Load(t, m) \/ Delete(t, m) \/ Pull(t, m)

Work(t) ==
  \/ Enter(t) \/ Pick(t) \/ Check(t) \/ NameModel(t) \/ Run(t) \/ Answer(t)
  \/ LoadTask(t) \/ Lock(t) \/ Pretrained(t) \/ LoadFails(t) \/ Publish(t)
  \/ ReadCurrent(t) \/ Unload(t) \/ Unloaded(t) \/ RemoveFiles(t)
  \/ Sized(t) \/ PullEnds(t)

Next == \E t \in Thread : Request(t) \/ Work(t)
Spec == Init /\ [][Next]_vars

\* Threads run, and neither lock starves a thread that waits for it.
Fairness == \A t \in Thread : SF_vars(Work(t))
FairSpec == Spec /\ Fairness

-----------------------------------------------------------------------------

\* Whoever finds _load_lock free finds the pipeline and its name together,
\* whatever loads, generations and deletions came before.
PipeMatches == loader = Nobody => pipe = cur

\* Generations and downloads alone: the model asked for is the one used, and
\* under _infer_lock there is a pipeline to run.
UsedIsAsked ==
  ops \subseteq {"generate", "pull"} =>
    \A t \in Thread :
      /\ (th[t].pc = "answering" /\ th[t].asked # NoModel) => th[t].model = th[t].asked
      /\ th[t].pc = "running" => pipe # NoModel

\* Generations and downloads of the pipeline use the model that they were asked for, and no other.
ImagesAreRight == PipeMatches /\ UsedIsAsked

\* Every generation ends, whatever fails in the loads and deletions around it.
GenerationsEnd == \A t \in Thread : []<>(th[t].op # "generate")

=============================================================================
