--------------------------- MODULE ConnectorLife ---------------------------
(***************************************************************************)
(* The life of one persistent connector: its row, its container (one at a  *)
(* time, by name), the requests and commands on it (api/connectors.py,     *)
(* connectors/manager.py), the Celery monitor (workers/tasks.py) and the   *)
(* WebSockets of the container (api/realtime/connector_ws.py).             *)
(*                                                                         *)
(* A container is known by the token it was given; the token of the row    *)
(* stands for its hash.  A process works on the copy of the row it read,   *)
(* and a commit writes the attributes that differ from that copy.          *)
(***************************************************************************)
EXTENDS Naturals, FiniteSets

CONSTANTS
  Job,        \* slots for requests and commands of users
  Monitor,    \* slots for runs of the monitor
  Socket,     \* slots for WebSockets
  MaxToken,   \* bound: tokens that are generated
  MaxEvents,  \* bound: requests, failures and lost connections
  FaultSets   \* what may happen besides, for several kinds of behaviours

AllFaults == {"overlap", "dies", "run", "stuck", "image", "install"}
ASSUME BoundAssumption == MaxToken \in Nat \ {0} /\ MaxEvents \in Nat
ASSUME FaultAssumption == FaultSets \subseteq SUBSET AllFaults

VARIABLES
  row,     \* the row of connectors
  box,     \* the container, and the token in its environment
  proc,    \* requests, commands and runs of the monitor
  socket,  \* the token each socket came with (0: closed), and is its client there
  tokens,  \* the last token generated
  events,  \* requests, failures and lost connections so far
  faults   \* what may happen in this behaviour, which never changes

lifeVars == <<row, box, proc, socket, tokens, events, faults>>

Proc == Job \cup Monitor
Token == 0..MaxToken
Status == {"stopped", "starting", "running", "crashed"}
NoBox == [state |-> "none", token |-> 0]
IdleProc == [pc |-> "idle", kind |-> "none", enabled |-> FALSE, status |-> "stopped", cid |-> 0,
             token |-> 0, old |-> 0, state |-> "stopped", box |-> 0]

LifeTypeOK ==
  /\ row \in [there : BOOLEAN, enabled : BOOLEAN, status : Status, cid : Token, hash : Token]
  /\ box \in [state : {"none", "up", "exited", "failed"}, token : Token]
  /\ proc \in [Proc -> [pc : {"idle", "clear", "remove", "run", "stop", "rm", "inspect", "store",
                              "delete", "decide"},
                        kind : {"none", "start", "stop", "delete", "refresh"},
                        enabled : BOOLEAN, status : Status, cid : Token,
                        token : Token, old : Token, state : Status, box : Token]]
  /\ socket \in [Socket -> [token : Token, live : BOOLEAN]]
  /\ tokens \in Token
  /\ events \in 0..MaxEvents
  /\ faults \in FaultSets

\* Installed, and not started yet.
LifeInit ==
  /\ row = [there |-> TRUE, enabled |-> TRUE, status |-> "stopped", cid |-> 0, hash |-> 1]
  /\ box = NoBox
  /\ proc = [p \in Proc |-> IdleProc]
  /\ socket = [s \in Socket |-> [token |-> 0, live |-> FALSE]]
  /\ tokens = 1
  /\ events = 0
  /\ faults \in FaultSets

-----------------------------------------------------------------------------

ProcAt(p, pc) == proc[p].pc = pc
ProcGoto(p, pc) == proc' = [proc EXCEPT ![p].pc = pc]
Done(p, state, cid) ==
  proc' = [proc EXCEPT ![p].pc = "store", ![p].state = state, ![p].box = cid]
Quiet == \A p \in Proc : ProcAt(p, "idle")
Spend == events < MaxEvents /\ events' = events + 1

\* A process begins on a copy of the row.
Begin(p, pc, kind) ==
  /\ ProcAt(p, "idle") /\ row.there
  /\ "overlap" \in faults \/ Quiet
  /\ proc' = [proc EXCEPT ![p] = [IdleProc EXCEPT !.pc = pc, !.kind = kind,
                !.enabled = row.enabled, !.status = row.status, !.cid = row.cid,
                !.token = IF kind = "start" THEN tokens + 1 ELSE 0]]

Rotate == tokens < MaxToken /\ tokens' = tokens + 1

\* Mutant: the new token is given to the container and its hash not stored.
MutStart(j) ==
  /\ Begin(j, "clear", "start") /\ Spend /\ Rotate
  /\ UNCHANGED <<row, box, socket, faults>>

\* start, or the last steps of a quick install, which enables the connector.
Start(j) ==
  /\ Begin(j, "clear", "start") /\ Spend /\ Rotate
  /\ \E on \in {row.enabled, TRUE} : row' = [row EXCEPT !.hash = tokens', !.enabled = on]
  /\ UNCHANGED <<box, socket, faults>>

Stop(j) ==
  /\ Begin(j, "stop", "stop") /\ Spend
  /\ UNCHANGED <<row, box, socket, tokens, faults>>

Delete(j) ==
  /\ Begin(j, "stop", "delete") /\ Spend
  /\ UNCHANGED <<row, box, socket, tokens, faults>>

Refresh(j) ==
  /\ Begin(j, "inspect", "refresh") /\ Spend
  /\ UNCHANGED <<row, box, socket, tokens, faults>>

Patch ==
  /\ row.there /\ Spend
  /\ "overlap" \in faults \/ Quiet
  /\ row' = [row EXCEPT !.enabled = ~@]
  /\ UNCHANGED <<box, proc, socket, tokens, faults>>

\* An install on an existing connector: the token is rotated, nothing is started.
Install ==
  /\ "install" \in faults /\ row.there /\ Spend /\ Rotate
  /\ row' = [row EXCEPT !.hash = tokens']
  /\ UNCHANGED <<box, proc, socket, faults>>

\* Every run of the monitor looks at the connector.
Watch(m) ==
  /\ Begin(m, "inspect", "none")
  /\ UNCHANGED <<row, box, socket, tokens, events, faults>>

(* manager.start: the secrets, the image, the old container, the new one *)

Unready(p) ==
  /\ "image" \in faults /\ ProcAt(p, "clear") /\ Spend
  /\ \E cid \in {0, proc[p].cid} : Done(p, "crashed", cid)
  /\ UNCHANGED <<row, box, socket, tokens, faults>>

StopOld(p) ==
  /\ ProcAt(p, "clear")
  /\ \/ box.state = "none" /\ ProcGoto(p, "run") /\ UNCHANGED <<box, events>>
     \/ /\ box.state # "none"
        /\ box' = IF box.state = "up" THEN [box EXCEPT !.state = "exited"] ELSE box
        /\ proc' = [proc EXCEPT ![p].pc = "remove", ![p].old = box.token]
        /\ events' = events
     \/ /\ box.state # "none" /\ "stuck" \in faults /\ Spend
        /\ ProcGoto(p, "run") /\ box' = box
  /\ UNCHANGED <<row, socket, tokens, faults>>

\* A container that is no longer there is no error.
RemoveOld(p) ==
  /\ ProcAt(p, "remove")
  /\ ProcGoto(p, "run")
  /\ \/ box' = (IF box.token = proc[p].old THEN NoBox ELSE box) /\ events' = events
     \/ "stuck" \in faults /\ Spend /\ box' = box
  /\ UNCHANGED <<row, socket, tokens, faults>>

\* Refused under a name that is taken; or the daemon fails, the container created or not.
RunBox(p) ==
  /\ ProcAt(p, "run")
  /\ \/ /\ box.state # "none"
        /\ Done(p, "crashed", 0)
        /\ UNCHANGED <<box, events>>
     \/ /\ box.state = "none"
        /\ box' = [state |-> "up", token |-> proc[p].token]
        /\ Done(p, "starting", proc[p].token)
        /\ events' = events
     \/ /\ box.state = "none" /\ "run" \in faults /\ Spend
        /\ Done(p, "crashed", 0)
        /\ box' \in {NoBox, [state |-> "failed", token |-> proc[p].token]}
  /\ UNCHANGED <<row, socket, tokens, faults>>

(* manager.stop *)

StopBox(p) ==
  /\ ProcAt(p, "stop")
  /\ \/ box.state = "none" /\ Done(p, "stopped", 0) /\ UNCHANGED <<box, events>>
     \/ /\ box.state # "none"
        /\ box' = IF box.state = "up" THEN [box EXCEPT !.state = "exited"] ELSE box
        /\ proc' = [proc EXCEPT ![p].pc = "rm", ![p].old = box.token]
        /\ events' = events
     \/ /\ box.state # "none" /\ "stuck" \in faults /\ Spend
        /\ Done(p, "crashed", 0) /\ box' = box
  /\ UNCHANGED <<row, socket, tokens, faults>>

\* Here a container that is no longer there is one.
RemoveBox(p) ==
  /\ ProcAt(p, "rm")
  /\ \/ /\ box.token = proc[p].old
        /\ box' = NoBox /\ Done(p, "stopped", 0) /\ events' = events
     \/ /\ box.token # proc[p].old
        /\ box' = box /\ Done(p, "crashed", 0) /\ events' = events
     \/ "stuck" \in faults /\ Spend /\ box' = box /\ Done(p, "crashed", 0)
  /\ UNCHANGED <<row, socket, tokens, faults>>

(* manager.refresh_status *)

StateOf(b) ==
  CASE b.state = "up" -> "running" [] b.state = "failed" -> "crashed" [] OTHER -> "stopped"

Inspect(p) ==
  /\ ProcAt(p, "inspect")
  /\ Done(p, StateOf(box), box.token)
  /\ UNCHANGED <<row, box, socket, tokens, events, faults>>

\* The commit, and what follows it.
Store(p) ==
  LET q == proc[p] IN
  /\ ProcAt(p, "store")
  /\ row' = IF row.there
            THEN [row EXCEPT !.status = IF q.state = q.status THEN @ ELSE q.state,
                             !.cid = IF q.box = q.cid THEN @ ELSE q.box]
            ELSE row
  /\ proc' = [proc EXCEPT ![p] =
       CASE row.there /\ q.kind = "delete" -> [q EXCEPT !.pc = "delete"]
         [] row.there /\ q.kind = "none" -> [q EXCEPT !.pc = "decide", !.status = q.state, !.cid = q.box]
         [] OTHER -> IdleProc]
  /\ UNCHANGED <<box, socket, tokens, events, faults>>

DeleteRow(p) ==
  /\ ProcAt(p, "delete")
  /\ row' = [row EXCEPT !.there = FALSE]
  /\ proc' = [proc EXCEPT ![p] = IdleProc]
  /\ UNCHANGED <<box, socket, tokens, events, faults>>

Restarts(q) == q.enabled /\ (q.state = "crashed" \/ (q.state = "stopped" /\ q.cid # 0))

\* The monitor restarts the connector with a new token, or has done.
Decide(m) ==
  /\ ProcAt(m, "decide")
  /\ \/ /\ Restarts(proc[m]) /\ row.there /\ Rotate
        /\ row' = [row EXCEPT !.hash = tokens']
        /\ proc' = [proc EXCEPT ![m].pc = "clear", ![m].kind = "start", ![m].token = tokens']
     \/ /\ ~(Restarts(proc[m]) /\ row.there)
        /\ proc' = [proc EXCEPT ![m] = IdleProc]
        /\ UNCHANGED <<row, tokens>>
  /\ UNCHANGED <<box, socket, events, faults>>

(* The container *)

\* A container that Docker does not restart: stopped by hand, or it cannot be.
BoxDies ==
  /\ "dies" \in faults /\ box.state = "up" /\ Spend
  /\ \E s \in {"exited", "failed"} : box' = [box EXCEPT !.state = s]
  /\ UNCHANGED <<row, proc, socket, tokens, faults>>

Alive(s) == socket[s].live /\ box.state = "up" /\ box.token = socket[s].token

Connect(s) ==
  /\ socket[s].token = 0 /\ box.state = "up"
  /\ \A t \in Socket : ~Alive(t)
  /\ row.there /\ row.enabled /\ row.hash = box.token
  /\ socket' = [socket EXCEPT ![s] = [token |-> box.token, live |-> TRUE]]
  /\ UNCHANGED <<row, box, proc, tokens, events, faults>>

\* Every message says that the connector runs.
Speak(s) ==
  /\ Alive(s) /\ row.there
  /\ row' = [row EXCEPT !.status = "running"]
  /\ UNCHANGED <<box, proc, socket, tokens, events, faults>>

Drop(s) ==
  /\ Alive(s) /\ Spend
  /\ socket' = [socket EXCEPT ![s].live = FALSE]
  /\ UNCHANGED <<row, box, proc, tokens, faults>>

\* The end of a socket says that it does not, even if another one has been opened.
Close(s) ==
  /\ socket[s].token # 0 /\ ~Alive(s)
  /\ socket' = [socket EXCEPT ![s] = [token |-> 0, live |-> FALSE]]
  /\ row' = IF row.there /\ row.status = "running" THEN [row EXCEPT !.status = "stopped"] ELSE row
  /\ UNCHANGED <<box, proc, tokens, events, faults>>

-----------------------------------------------------------------------------

LifeStep(p) ==
  \/ StopOld(p) \/ RemoveOld(p) \/ RunBox(p) \/ StopBox(p) \/ RemoveBox(p)
  \/ Inspect(p) \/ Store(p) \/ DeleteRow(p) \/ Decide(p)

LifeNext ==
  \/ \E j \in Job : Start(j) \/ Stop(j) \/ Delete(j) \/ Refresh(j)
  \/ \E m \in Monitor : Watch(m)
  \/ \E p \in Proc : LifeStep(p) \/ Unready(p)
  \/ Patch \/ Install \/ BoxDies
  \/ \E s \in Socket : Connect(s) \/ Speak(s) \/ Drop(s) \/ Close(s)

LifeSpec == LifeInit /\ [][LifeNext]_lifeVars

\* Docker answers, the monitor runs every 30 s and dead sockets are noticed; users,
\* failures and messages are not fair.
LifeFairSpec ==
  /\ LifeSpec
  /\ \A p \in Proc : WF_lifeVars(LifeStep(p))
  /\ \A m \in Monitor : WF_lifeVars(Watch(m))
  /\ \A s \in Socket : WF_lifeVars(Close(s))

-----------------------------------------------------------------------------

\* Operations one at a time, whose containers may die and not start.  Left out is what
\* does change the token or the row under a container: operations that overlap, a start
\* that has stored its token and then misses a secret or the image, a stop or a
\* removal that fails, a new installation.
Serial == faults \subseteq {"dies", "run"}

\* Between two operations that do not overlap and find what they need (Serial), the
\* container that runs can open a socket: it holds the token whose hash is stored.  And
\* a connector that was deleted has no container left.
TokenMatches ==
  Serial /\ Quiet =>
    IF row.there THEN box.state = "up" => box.token = row.hash ELSE box.state = "none"

\* Once users and failures are quiet, the status of the row is the state of the
\* container, whatever overlapped before: sockets, stale copies, failed starts.
StatusSettles == <>[](row.there => row.status = StateOf(box))

=============================================================================
