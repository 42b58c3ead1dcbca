---------------------------- MODULE ToolApproval ----------------------------
(***************************************************************************)
(* A tool call from the moment its reply loads the tools to the message    *)
(* that answers it: _execute_tool_call (orchestrator/chat_loop.py), the    *)
(* approval requests in Redis (tools/approval.py), the container of the    *)
(* call (tools/runner.py) and the administrator (api/tools.py).            *)
(*                                                                         *)
(* Each call has a request, an execution row and a container of its own.   *)
(* Time passes in ticks; a call that polls does so between two ticks,      *)
(* unless Redis does not answer it.  An error of Redis ends the reply:     *)
(* only a timeout is caught, and only around the polls.                    *)
(***************************************************************************)
EXTENDS Naturals, FiniteSets

CONSTANTS
  Call,       \* tool calls, each of a reply of its own
  Decider,    \* requests of users that decide
  TTL,        \* _TTL of an approval request, in ticks
  PollLimit,  \* timeout_s of wait_for_decision
  WaitLimit,  \* TOOL_APPROVAL_TIMEOUT_S
  Nobody,
  Faults      \* what may happen besides

AllFaults == {"silent redis", "redis error", "cancel", "admin", "late"}
ASSUME TimeAssumption ==
  TTL \in Nat /\ PollLimit \in Nat \ {0} /\ WaitLimit \in Nat /\ PollLimit <= WaitLimit
ASSUME FaultAssumption == Faults \subseteq AllFaults

VARIABLES
  tool,    \* the row of the tool: is it there, does it require an approval
  call,    \* the calls
  req,     \* the request of each call in Redis: its status, its time to live
  decider, \* what each decider has read
  said,    \* the decisions written for each call
  exec,    \* the status of the execution row of each call
  box      \* the container of each call

vars == <<tool, call, req, decider, said, exec, box>>

Statuses == {"pending", "approved", "rejected"}
Ended == {"answered", "failed", "cancelled"}
PC == {"new", "loaded", "waiting", "granted", "running", "recording"} \cup Ended
NewCall == [pc |-> "new", asks |-> FALSE, waited |-> 0, hung |-> FALSE]
Gone == [status |-> "gone", ttl |-> 0]

TypeOK ==
  /\ tool \in [there : BOOLEAN, asks : BOOLEAN]
  /\ call \in [Call -> [pc : PC, asks : BOOLEAN, waited : 0..WaitLimit, hung : BOOLEAN]]
  /\ req \in [Call -> [status : Statuses \cup {"gone"}, ttl : 0..TTL]]
  /\ decider \in [Decider -> [call : Call \cup {Nobody}, status : Statuses]]
  /\ said \in [Call -> SUBSET Statuses]
  /\ exec \in [Call -> {"none", "running", "ok", "error", "timeout"}]
  /\ box \in [Call -> {"none", "up", "removed"}]

Init ==
  /\ tool \in [there : {TRUE}, asks : BOOLEAN]
  /\ call = [c \in Call |-> NewCall]
  /\ req = [c \in Call |-> Gone]
  /\ decider = [d \in Decider |-> [call |-> Nobody, status |-> "pending"]]
  /\ said = [c \in Call |-> {}]
  /\ exec = [c \in Call |-> "none"]
  /\ box = [c \in Call |-> "none"]

-----------------------------------------------------------------------------

At(c, pc) == call[c].pc = pc
Goto(c, pc) == call' = [call EXCEPT ![c] = [pc |-> pc, asks |-> @.asks, waited |-> 0, hung |-> @.hung]]

\* _load_active_tools, once for the reply: what it reads is kept.
LoadTools(c) ==
  /\ At(c, "new") /\ tool.there
  /\ call' = [call EXCEPT ![c] = [pc |-> "loaded", asks |-> tool.asks, waited |-> @.waited, hung |-> @.hung]]
  /\ UNCHANGED <<tool, req, decider, said, exec, box>>

Requested(c) == [req EXCEPT ![c] = [status |-> "pending", ttl |-> TTL]]

\* The arguments are refused, or a request is made, or none is needed.  Redis may
\* raise as the request is set, whether it took it or not; publish never raises.
Ask(c) ==
  /\ At(c, "loaded")
  /\ \/ Goto(c, "answered") /\ req' = req
     \/ call[c].asks /\ Goto(c, "waiting") /\ req' = Requested(c)
     \/ /\ call[c].asks /\ "redis error" \in Faults
        /\ Goto(c, "failed")
        /\ req' \in {req, Requested(c)}
     \/ ~call[c].asks /\ Goto(c, "granted") /\ req' = req
  /\ UNCHANGED <<tool, decider, said, exec, box>>

\* One turn of wait_for_decision: the deadline comes first.
Verdict(c) ==
  IF call[c].waited >= PollLimit \/ req[c].status = "gone" THEN "timeout" ELSE req[c].status

\* Mutant: only a rejection stops the call.
MutPoll(c) ==
  /\ At(c, "waiting") /\ ~call[c].hung
  /\ Verdict(c) # "pending"
  /\ Goto(c, IF Verdict(c) = "rejected" THEN "answered" ELSE "granted")
  /\ UNCHANGED <<tool, req, decider, said, exec, box>>

Poll(c) ==
  /\ At(c, "waiting") /\ ~call[c].hung
  /\ Verdict(c) # "pending"
  /\ Goto(c, IF Verdict(c) = "approved" THEN "granted" ELSE "answered")
  /\ UNCHANGED <<tool, req, decider, said, exec, box>>

\* Redis leaves a poll without an answer; only asyncio.wait_for ends it.
Hang(c) ==
  /\ "silent redis" \in Faults
  /\ At(c, "waiting") /\ ~call[c].hung
  /\ call' = [call EXCEPT ![c].hung = TRUE]
  /\ UNCHANGED <<tool, req, decider, said, exec, box>>

\* A poll raises: what is not a timeout ends the reply.
PollFails(c) ==
  /\ "redis error" \in Faults
  /\ At(c, "waiting")
  /\ call' = [call EXCEPT ![c] = [pc |-> "failed", asks |-> @.asks, waited |-> 0, hung |-> FALSE]]
  /\ UNCHANGED <<tool, req, decider, said, exec, box>>

Expire(c) ==
  /\ At(c, "waiting") /\ call[c].waited = WaitLimit
  /\ call' = [call EXCEPT ![c] = [pc |-> "answered", asks |-> @.asks, waited |-> 0, hung |-> FALSE]]
  /\ UNCHANGED <<tool, req, decider, said, exec, box>>

\* The secrets are resolved; the row, which refers to the tool, is committed and
\* the container started.
Execute(c) ==
  /\ At(c, "granted")
  /\ \/ Goto(c, "answered") /\ UNCHANGED <<exec, box>>
     \/ /\ tool.there
        /\ Goto(c, "running")
        /\ exec' = [exec EXCEPT ![c] = "running"]
        /\ box' = [box EXCEPT ![c] = "up"]
     \/ ~tool.there /\ Goto(c, "failed") /\ UNCHANGED <<exec, box>>
  /\ UNCHANGED <<tool, req, decider, said>>

\* The thread of the container ends by itself, whoever waits for it.
BoxEnds(c) ==
  /\ box[c] = "up"
  /\ box' = [box EXCEPT ![c] = "removed"]
  /\ call' = IF At(c, "running") THEN [call EXCEPT ![c].pc = "recording"] ELSE call
  /\ UNCHANGED <<tool, req, decider, said, exec>>

\* The row may have gone with its tool.
Record(c) ==
  /\ At(c, "recording")
  /\ \/ /\ exec[c] # "none"
        /\ \E s \in {"ok", "error", "timeout"} : exec' = [exec EXCEPT ![c] = s]
        /\ Goto(c, "answered")
     \/ /\ exec[c] = "none"
        /\ Goto(c, "failed")
        /\ exec' = exec
  /\ UNCHANGED <<tool, req, decider, said, box>>

\* The client of the reply leaves.
Cancel(c) ==
  /\ "cancel" \in Faults
  /\ call[c].pc \in {"loaded", "waiting", "granted", "running", "recording"}
  /\ call' = [call EXCEPT ![c] = [pc |-> "cancelled", asks |-> @.asks, waited |-> 0, hung |-> FALSE]]
  /\ UNCHANGED <<tool, req, decider, said, exec, box>>

(* Users and administrators *)

\* submit_decision reads the request, then writes it back with the decision; a
\* client knows a request from its approval_required event.
DecideRead(d, c) ==
  /\ decider[d].call = Nobody
  /\ req[c].status # "gone"
  /\ "late" \in Faults \/ At(c, "waiting")
  /\ \E s \in {"approved", "rejected"} : decider' = [decider EXCEPT ![d] = [call |-> c, status |-> s]]
  /\ UNCHANGED <<tool, call, req, said, exec, box>>

DecideWrite(d) ==
  LET c == decider[d].call IN
  /\ c # Nobody
  /\ req' = [req EXCEPT ![c] = [status |-> decider[d].status, ttl |-> TTL]]
  /\ said' = [said EXCEPT ![c] = @ \cup {decider[d].status}]
  /\ decider' = [decider EXCEPT ![d] = [call |-> Nobody, status |-> "pending"]]
  /\ UNCHANGED <<tool, call, exec, box>>

\* The decision is not written, and the user sees an error.
DecideFails(d) ==
  /\ "redis error" \in Faults
  /\ decider[d].call # Nobody
  /\ decider' = [decider EXCEPT ![d] = [call |-> Nobody, status |-> "pending"]]
  /\ UNCHANGED <<tool, call, req, said, exec, box>>

\* PATCH and DELETE of the tool; its executions go with it.
PatchTool ==
  /\ "admin" \in Faults /\ tool.there
  /\ tool' = [tool EXCEPT !.asks = ~@]
  /\ UNCHANGED <<call, req, decider, said, exec, box>>

DeleteTool ==
  /\ "admin" \in Faults /\ tool.there
  /\ tool' = [tool EXCEPT !.there = FALSE]
  /\ exec' = [c \in Call |-> "none"]
  /\ UNCHANGED <<call, req, decider, said, box>>

Tick ==
  /\ "silent redis" \in Faults \/ \A d \in Decider : decider[d].call = Nobody
  /\ \A c \in Call : At(c, "waiting") =>
       /\ call[c].waited < WaitLimit
       /\ call[c].hung \/ Verdict(c) = "pending"
  /\ \E c \in Call : At(c, "waiting") \/ req[c].ttl > 0
  /\ call' = [c \in Call |-> IF At(c, "waiting") THEN [call[c] EXCEPT !.waited = @ + 1]
                             ELSE call[c]]
  /\ req' = [c \in Call |-> IF req[c].ttl <= 1 THEN Gone
                            ELSE [req[c] EXCEPT !.ttl = @ - 1]]
  /\ UNCHANGED <<tool, decider, said, exec, box>>

-----------------------------------------------------------------------------

Reply(c) ==
  LoadTools(c) \/ Ask(c) \/ Poll(c) \/ Expire(c) \/ Execute(c) \/ BoxEnds(c) \/ Record(c)

Next ==
  \/ \E c \in Call : Reply(c) \/ Hang(c) \/ PollFails(c) \/ Cancel(c)
  \/ \E d \in Decider : DecideWrite(d) \/ DecideFails(d) \/ \E c \in Call : DecideRead(d, c)
  \/ PatchTool \/ DeleteTool \/ Tick

Spec == Init /\ [][Next]_vars

\* Time passes, polls are made, containers have a deadline and requests end.
FairSpec ==
  /\ Spec
  /\ WF_vars(Tick)
  /\ \A c \in Call : WF_vars(Reply(c))
  /\ \A d \in Decider : WF_vars(DecideWrite(d))

-----------------------------------------------------------------------------

\* A call whose reply read that the tool requires an approval has no container
\* before someone approved that very call, whatever several deciders, late answers,
\* a silent Redis and administrators do.
RunsOnlyApproved ==
  \A c \in Call : (box[c] # "none" /\ call[c].asks) => "approved" \in said[c]

\* No container outlives the trace of its execution, unless the tool itself was
\* deleted: what runs is accounted for.
BoxIsRecorded ==
  \A c \in Call : (box[c] = "up" /\ tool.there) => exec[c] = "running"

\* Whatever deciders, requests and administrators do, a container is allowed by the
\* approval that its reply asked for, and accounted for by its row.
BoxesAreAllowed == RunsOnlyApproved /\ BoxIsRecorded

\* Every call gets its answer or fails, decided or not, with Redis or without.
CallsEnd == \A c \in Call : At(c, "loaded") ~> call[c].pc \in Ended

=============================================================================
