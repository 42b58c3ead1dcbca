-------------------------- MODULE ConnectorRoutes --------------------------
(***************************************************************************)
(* The conversation of one channel of a connector (connectors/bridge.py):  *)
(* messages come through sockets, several at a time, find or create the    *)
(* route of their channel, and are answered by detached tasks, while       *)
(* users delete conversations, whose routes go with them.                  *)
(*                                                                         *)
(* A conversation is named after the message that creates it.  The insert  *)
(* of a route waits for a transaction that has inserted one.               *)
(***************************************************************************)
EXTENDS FiniteSets, Naturals

CONSTANTS Message, Nobody
ASSUME NobodyAssumption == Nobody \notin Message

VARIABLES
  handler, \* where the handling of each message is
  conv,    \* the conversations: none, there or gone
  route    \* the conversation of the route, or Nobody

vars == <<handler, conv, route>>

Ended == {"answered", "dropped", "asserted"}

TypeOK ==
  /\ handler \in [Message -> {"new", "insert", "commit", "created", "lost", "reread", "task"}
                             \cup Ended]
  /\ conv \in [Message -> {"none", "there", "gone"}]
  /\ route \in Message \cup {Nobody}

Init ==
  /\ handler = [m \in Message |-> "new"]
  /\ conv = [m \in Message |-> "none"]
  /\ route = Nobody

-----------------------------------------------------------------------------

At(m, pc) == handler[m] = pc
Goto(m, pc) == handler' = [handler EXCEPT ![m] = pc]
Move(m, from, to) == At(m, from) /\ Goto(m, to)

\* The first select.
Lookup(m) ==
  /\ Move(m, "new", IF route = Nobody THEN "insert" ELSE "task")
  /\ UNCHANGED <<conv, route>>

\* Mutant: the select is trusted, the last insert wins.
MutInsertRoute(m) ==
  /\ Move(m, "insert", "commit")
  /\ UNCHANGED <<conv, route>>

\* INSERT ... ON CONFLICT DO NOTHING, in the transaction of the conversation.
InsertRoute(m) ==
  /\ \A n \in Message : ~At(n, "commit")
  /\ Move(m, "insert", IF route = Nobody THEN "commit" ELSE "lost")
  /\ UNCHANGED <<conv, route>>

Commit(m) ==
  /\ Move(m, "commit", "created")
  /\ conv' = [conv EXCEPT ![m] = "there"]
  /\ route' = m

\* Its conversation is deleted in its own transaction: nobody has seen it.
Lose(m) ==
  /\ Move(m, "lost", "reread")
  /\ UNCHANGED <<conv, route>>

\* The route is read again, and asserted to be there.
Reread(m) ==
  /\ \/ Move(m, "created", IF route = m THEN "task" ELSE "asserted")
     \/ Move(m, "reread", IF route = Nobody THEN "asserted" ELSE "task")
  /\ UNCHANGED <<conv, route>>

\* Mutant: the task waits for the route to come back.
MutAnswer(m) ==
  /\ route # Nobody
  /\ Move(m, "task", "answered")
  /\ UNCHANGED <<conv, route>>

\* The detached task looks for the route anew.
Answer(m) ==
  /\ Move(m, "task", IF route = Nobody THEN "dropped" ELSE "answered")
  /\ UNCHANGED <<conv, route>>

DeleteConversation(c) ==
  /\ conv[c] = "there"
  /\ conv' = [conv EXCEPT ![c] = "gone"]
  /\ route' = IF route = c THEN Nobody ELSE route
  /\ UNCHANGED handler

-----------------------------------------------------------------------------

Step(m) ==
  Lookup(m) \/ InsertRoute(m) \/ Commit(m) \/ Lose(m) \/ Reread(m) \/ Answer(m)

Next == \E m \in Message : Step(m) \/ DeleteConversation(m)

Spec == Init /\ [][Next]_vars

\* The handlers are coroutines of the event loop; users are not fair.
FairSpec == Spec /\ \A m \in Message : WF_vars(Step(m))

-----------------------------------------------------------------------------

\* Messages that arrive together share one conversation, the one of the route: none
\* is left over by a race that was lost, and no route leads to one that has gone.
OneConversation == {c \in Message : conv[c] = "there"} = {route} \ {Nobody}

\* Every message is handled to its end, no two inserts waiting for each other.
MessagesEnd == <>(\A m \in Message : handler[m] \in Ended)

=============================================================================
