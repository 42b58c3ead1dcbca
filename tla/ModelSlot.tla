----------------------------- MODULE ModelSlot -----------------------------
(***************************************************************************)
(* What a node promises the backend about its chat model: one slot, a      *)
(* published state for it, and at most one model that answers.  It is the  *)
(* contract that /load/status and llama-server keep together.              *)
(***************************************************************************)
CONSTANTS Model, NoModel

VARIABLES
  load,    \* the published state and file
  served   \* the model that answers requests, or NoModel

slotVars == <<load, served>>

Idle == [state |-> "idle", file |-> NoModel]

Init == load = Idle /\ served = NoModel

\* A load is accepted only when none is in progress.
Request(f) ==
  /\ load.state # "loading"
  /\ load' = [state |-> "loading", file |-> f]
  /\ served' = served

\* The server may be lost at any time.  Once the load is over only the
\* published file comes up; before that the server it replaces still may.
Lose == served' = NoModel /\ load' = load
Serve(f) ==
  /\ load.state # "idle" /\ served = NoModel
  /\ load.state # "loading" => f = load.file
  /\ served' = f
  /\ load' = load

Ready ==
  /\ load.state = "loading" /\ served = load.file
  /\ load' = [load EXCEPT !.state = "ready"]
  /\ served' = served

Fail ==
  /\ load.state = "loading"
  /\ load' = [load EXCEPT !.state = "error"]
  /\ served' = served

\* A new life of the node: nothing published, then what the boot found.
Reset == load' = Idle /\ served' = NoModel
Boot(f) ==
  /\ load = Idle
  /\ \/ load' = [state |-> "ready", file |-> f] /\ served' \in {f, NoModel}
     \/ load' = [state |-> "error", file |-> f] /\ served' = NoModel

Next ==
  \/ \E f \in Model : Request(f) \/ Boot(f) \/ Serve(f)
  \/ Lose \/ Ready \/ Fail \/ Reset

Spec == Init /\ [][Next]_slotVars

\* Whoever reads "ready" for a file is never answered by another model.
ReadyNeverLies == load.state = "ready" => served \in {load.file, NoModel}

=============================================================================
