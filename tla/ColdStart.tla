----------------------------- MODULE ColdStart -----------------------------
(***************************************************************************)
(* Chats of the backend that need a model on one node: each runs           *)
(* ensure_model_loaded against the control API of AgentControl, then posts *)
(* its request to llama-server.                                            *)
(***************************************************************************)
EXTENDS AgentControl

CONSTANT Client   \* concurrent calls of ensure_model_loaded

VARIABLE chat     \* for each of them: where it is and the model it wants

allVars == <<vars, chat>>

ChatPC == {"idle", "posting", "polling", "ensured"}
ChatTypeOK == chat \in [Client -> [pc : ChatPC, model : Model \cup {NoModel}]]

NoChat == [pc |-> "idle", model |-> NoModel]

ColdInit == Init /\ chat = [c \in Client |-> NoChat]

Goto(c, pc) == chat' = [chat EXCEPT ![c].pc = pc]
Raise(c) == chat' = [chat EXCEPT ![c] = NoChat]

\* GET /status answers with the server's process and model: the short cut is
\* taken as soon as the process exists.
CheckStatus(c, f) ==
  /\ up /\ chat[c].pc = "idle"
  /\ chat' = [chat EXCEPT ![c] =
       [pc |-> IF Running /\ cur = f THEN "ensured" ELSE "posting", model |-> f]]
  /\ UNCHANGED vars

\* POST /models/load: 404 raises, any other answer leads to the polling; an
\* agent that does not answer raises.
PostLoad(c) ==
  /\ chat[c].pc = "posting"
  /\ LET f == chat[c].model IN
     \/ /\ up /\ LoadReply(f) = "accepted"
        /\ \E t \in Task : task[t] = Free /\ AcceptLoad(t, f)
        /\ Goto(c, "polling")
     \/ /\ up /\ LoadReply(f) \in {"loading", "409"}
        /\ Goto(c, "polling")
        /\ UNCHANGED vars
     \/ /\ ~up \/ LoadReply(f) = "404"
        /\ Raise(c)
        /\ UNCHANGED vars

\* Mutant: any "ready" ends the wait.
MutPollReady(c) ==
  /\ up /\ chat[c].pc = "polling"
  /\ load.state = "ready"
  /\ Goto(c, "ensured")
  /\ UNCHANGED vars

\* GET /load/status: ready for this file ends the wait, error raises.
PollReady(c) ==
  /\ up /\ chat[c].pc = "polling"
  /\ load.state = "ready" /\ load.file = chat[c].model
  /\ Goto(c, "ensured")
  /\ UNCHANGED vars

PollError(c) ==
  /\ up /\ chat[c].pc = "polling"
  /\ load.state = "error"
  /\ Raise(c)
  /\ UNCHANGED vars

\* Mutant: the deadline is only looked at while the agent says "loading".
MutPollTimeout(c) ==
  /\ chat[c].pc = "polling"
  /\ up /\ load.state = "loading"
  /\ Raise(c)
  /\ UNCHANGED vars

\* The deadline of 180 seconds.
PollTimeout(c) ==
  /\ chat[c].pc = "polling"
  /\ Raise(c)
  /\ UNCHANGED vars

\* The chat goes on with its request, whatever becomes of it.
PostChat(c) ==
  /\ chat[c].pc = "ensured"
  /\ Raise(c)
  /\ UNCHANGED vars

Chat(c) ==
  \/ \E f \in Model : CheckStatus(c, f)
  \/ PostLoad(c) \/ PollReady(c) \/ PollError(c) \/ PollTimeout(c) \/ PostChat(c)

ColdNext ==
  \/ Next /\ chat' = chat
  \/ \E c \in Client : Chat(c)

ColdSpec == ColdInit /\ [][ColdNext]_allVars

\* The polling coroutine keeps its deadline, and the agent its own fairness.
ColdFairness ==
  /\ Fairness
  /\ \A c \in Client :
       /\ WF_allVars(PollReady(c) \/ PollError(c) \/ PollTimeout(c))
       /\ WF_allVars(PostLoad(c))
       /\ WF_allVars(PostChat(c))
FairColdSpec == ColdSpec /\ ColdFairness

-----------------------------------------------------------------------------

\* When the polling of ensure_model_loaded succeeds, llama-server is not
\* running another model than the one asked for, however many loads the
\* other chats post in between.
PolledNeverWrong ==
  [][\A c \in Client :
       (chat[c].pc = "polling" /\ chat'[c].pc = "ensured") =>
         (Running => proc[ref].model = chat[c].model)]_allVars

\* Every ensure_model_loaded returns or raises.
ChatsEnd ==
  \A c \in Client : chat[c].pc \in {"posting", "polling"} ~> chat[c].pc \in {"ensured", "idle"}

-----------------------------------------------------------------------------

(* AgentControl implements ModelSlot as long as loads are the only locked *)
(* operation: neither /models/unload, nor /config, nor the update loop.   *)

Served == IF Running /\ Serving(ref) THEN proc[ref].model ELSE NoModel

Slot == INSTANCE ModelSlot WITH served <- Served

\* Every step of the agent is a step of the slot the backend reasons with,
\* or leaves the slot as it is.
ImplementsSlot == Slot!Spec

\* A file that /load/status calls ready is never answered for by another model.
ReadyNeverLies == Slot!ReadyNeverLies

=============================================================================
