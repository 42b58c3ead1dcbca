--------------------------- MODULE DesktopBridge ---------------------------
(***************************************************************************)
(* Runs of desktop actions and macros on the machine of a user: a run      *)
(* writes one request after the other in Redis, publishes each to the      *)
(* user's channel and polls for its result (desktop/bridge.py, builtin_    *)
(* tools.py, api/desktop.py); the desktop application executes what its    *)
(* stream brings, one event after the other (web/src/lib/realtime.ts).     *)
(***************************************************************************)
EXTENDS Naturals, Sequences, SequencesExt

CONSTANTS
  Run,       \* runs of a macro, or of a single action
  Client,    \* desktop applications of the user
  MaxSteps,  \* bound on the steps of a macro
  MaxDrops   \* bound on the streams that break and the applications that close

ASSUME StepAssumption == MaxSteps \in Nat \ {0} /\ MaxDrops \in Nat

VARIABLES
  caps,    \* is there a key of capabilities
  run,     \* the runs
  key,     \* the requests in Redis
  client,  \* the applications: their stream, its unread events, the action under way
  done,    \* history: the steps each application executed well, in order
  drops    \* streams broken and applications closed so far

bridgeVars == <<caps, run, key, client, done, drops>>

StepOf == Run \X (1..MaxSteps)
NoEvent == <<>>
RunEnded == {"ok", "partial", "answered", "refused", "failed"}

BridgeInit ==
  /\ caps \in BOOLEAN
  /\ run \in [Run -> [pc : {"new"}, kind : {"route", "tool", "action"}, steps : 1..MaxSteps,
                      step : {1}, failed : {FALSE}]]
  /\ \A r \in Run : run[r].kind = "action" => run[r].steps = 1
  /\ key = [q \in StepOf |-> "none"]
  /\ client = [c \in Client |-> [on |-> FALSE, queue |-> <<>>, doing |-> NoEvent, result |-> "none"]]
  /\ done = [c \in Client |-> <<>>]
  /\ drops = 0

-----------------------------------------------------------------------------

(* The backend *)

RunAt(r, pc) == run[r].pc = pc
RunGoto(r, pc) == run' = [run EXCEPT ![r].pc = pc]

\* Mutant: one key for all steps of a run.
MutRequestOf(r, k) == <<r, 1>>

\* A new identifier for every request.
RequestOf(r, k) == <<r, k>>
Asked(r) == RequestOf(r, run[r].step)

Started(r, kind, ok) ==
  /\ RunAt(r, "new") /\ run[r].kind = kind
  /\ RunGoto(r, IF ok THEN "asking" ELSE "refused")
  /\ UNCHANGED <<caps, key, client, done, drops>>

\* The button of a page: the macro may be gone, and the route wants a client.
RunMacro(r) == \E found \in BOOLEAN : Started(r, "route", found /\ caps)

\* A call of run_macro: the name may match no macro; no client is looked for.
CallMacro(r) == \E found \in BOOLEAN : Started(r, "tool", found)

\* A call of run_desktop_action: the step may be invalid, or its application not among
\* those the client found, as far as they are known.
CallAction(r) == \E valid \in BOOLEAN : Started(r, "action", valid)

\* request_action: the key, then the event for whoever listens; publish gives up
\* after three attempts and nobody looks.
AskStep(r) ==
  /\ RunAt(r, "asking")
  /\ RunGoto(r, "waiting")
  /\ key' = [key EXCEPT ![Asked(r)] = "pending"]
  /\ client' \in {client,
                  [c \in Client |-> IF client[c].on
                    THEN [client[c] EXCEPT !.queue = Append(@, <<r, run[r].step>>)]
                    ELSE client[c]]}
  /\ UNCHANGED <<caps, done, drops>>

\* Redis does not answer the run: the request or the call fails.
RedisFails(r) ==
  /\ RunAt(r, "asking") \/ RunAt(r, "waiting")
  /\ RunGoto(r, "failed")
  /\ UNCHANGED <<caps, key, client, done, drops>>

\* Every step of a macro is run, whatever became of the ones before; the answer to
\* a single action is ok and holds its result.
StepResult(r, well) ==
  LET failed == run[r].failed \/ ~well
      last == run[r].step = run[r].steps
  IN run' = [run EXCEPT ![r] =
       [pc |-> IF ~last THEN "asking"
               ELSE IF @.kind = "action" THEN "answered"
               ELSE IF failed THEN "partial" ELSE "ok",
        kind |-> @.kind, steps |-> @.steps, failed |-> failed,
        step |-> IF last THEN @.step ELSE @.step + 1]]

PollStep(r) ==
  /\ RunAt(r, "waiting")
  /\ key[Asked(r)] # "pending"
  /\ StepResult(r, key[Asked(r)] = "ok")
  /\ UNCHANGED <<caps, key, client, done, drops>>

\* Mutant: only a result ends the wait.
MutTimeOut(r) ==
  /\ RunAt(r, "waiting")
  /\ key[Asked(r)] = "gone"
  /\ StepResult(r, FALSE)
  /\ UNCHANGED <<caps, key, client, done, drops>>

\* The deadline is looked at before the key: a result may just have come.
TimeOut(r) ==
  /\ RunAt(r, "waiting")
  /\ StepResult(r, FALSE)
  /\ UNCHANGED <<caps, key, client, done, drops>>

(* Redis *)

\* A key lives longer than the wait for it.
KeyExpires(q) ==
  /\ key[q] \notin {"none", "gone"}
  /\ ~(RunAt(q[1], "waiting") /\ Asked(q[1]) = q)
  /\ key' = [key EXCEPT ![q] = "gone"]
  /\ UNCHANGED <<caps, run, client, done, drops>>

\* The hellos do not arrive any more.
CapsExpire ==
  /\ caps
  /\ caps' = FALSE
  /\ UNCHANGED <<run, key, client, done, drops>>

\* It restarts from an image older than the requests.
RedisRestarts ==
  /\ drops < MaxDrops
  /\ drops' = drops + 1
  /\ key' = [q \in StepOf |-> IF key[q] = "none" THEN "none" ELSE "gone"]
  /\ UNCHANGED <<caps, run, client, done>>

(* The applications *)

Hello ==
  /\ ~caps
  /\ caps' = TRUE
  /\ UNCHANGED <<run, key, client, done, drops>>

\* A stream is opened once all events of the last one are handled.
Listen(c) ==
  /\ ~client[c].on /\ client[c].queue = <<>> /\ client[c].doing = NoEvent
  /\ client' = [client EXCEPT ![c].on = TRUE]
  /\ UNCHANGED <<caps, run, key, done, drops>>

\* The stream breaks: the events not read yet are lost.
BreakStream(c) ==
  /\ client[c].on /\ drops < MaxDrops
  /\ drops' = drops + 1
  /\ \E n \in 0..Len(client[c].queue) :
       client' = [client EXCEPT ![c] = [on |-> FALSE, queue |-> SubSeq(@.queue, 1, n),
                                        doing |-> @.doing, result |-> @.result]]
  /\ UNCHANGED <<caps, run, key, done>>

CloseApp(c) ==
  /\ client[c].on /\ drops < MaxDrops
  /\ drops' = drops + 1
  /\ client' = [client EXCEPT ![c] = [on |-> FALSE, queue |-> <<>>, doing |-> NoEvent,
                                      result |-> "none"]]
  /\ UNCHANGED <<caps, run, key, done>>

\* handleEvent: the action is executed, well or not ...
ExecuteStep(c) ==
  /\ client[c].doing = NoEvent /\ client[c].queue # <<>>
  /\ \E result \in {"ok", "error"} :
       /\ client' = [client EXCEPT ![c] = [on |-> @.on, queue |-> Tail(@.queue),
                                           doing |-> Head(@.queue), result |-> result]]
       /\ done' = IF result = "ok" THEN [done EXCEPT ![c] = Append(@, Head(client[c].queue))]
                  ELSE done
  /\ UNCHANGED <<caps, run, key, drops>>

\* ... and its result posted before the next event is looked at.  submit_result
\* refuses it when the key is gone; an answer that fails is ignored.
PostResult(c) ==
  LET q == RequestOf(client[c].doing[1], client[c].doing[2]) IN
  /\ client[c].doing # NoEvent
  /\ client' = [client EXCEPT ![c] = [on |-> @.on, queue |-> @.queue, doing |-> NoEvent,
                                      result |-> "none"]]
  /\ key' \in {key, IF key[q] = "gone" THEN key
                    ELSE [key EXCEPT ![q] = client[c].result]}
  /\ UNCHANGED <<caps, run, done, drops>>

-----------------------------------------------------------------------------

BridgeNext ==
  \/ \E r \in Run : RunMacro(r) \/ CallMacro(r) \/ CallAction(r)
  \/ \E r \in Run : AskStep(r) \/ PollStep(r) \/ TimeOut(r) \/ RedisFails(r)
  \/ \E q \in StepOf : KeyExpires(q)
  \/ \E c \in Client : Listen(c) \/ BreakStream(c) \/ CloseApp(c) \/ ExecuteStep(c) \/ PostResult(c)
  \/ CapsExpire \/ Hello \/ RedisRestarts

BridgeSpec == BridgeInit /\ [][BridgeNext]_bridgeVars

\* Redis answers or fails, and time passes; nothing is asked of the applications.
BridgeFairSpec ==
  /\ BridgeSpec
  /\ \A r \in Run : WF_bridgeVars(AskStep(r)) /\ WF_bridgeVars(PollStep(r) \/ TimeOut(r))

-----------------------------------------------------------------------------

\* A run of a macro that answers "ok" had each of its steps executed well by an
\* application, and no application executed two of them out of order: late results,
\* broken streams and lost events end up as "partial".
OkMeansDone ==
  \A r \in Run : RunAt(r, "ok") =>
    /\ \A k \in 1..run[r].steps : \E c \in Client : Contains(done[c], <<r, k>>)
    /\ \A c \in Client : \A i, j \in 1..Len(done[c]) :
         (i < j /\ done[c][i][1] = r /\ done[c][j][1] = r) => done[c][i][2] < done[c][j][2]

\* Every run that began ends, with no application, a slow one or one that comes back.
RunsEnd == \A r \in Run : RunAt(r, "asking") ~> run[r].pc \in RunEnded

=============================================================================
