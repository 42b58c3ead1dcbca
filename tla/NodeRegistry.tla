---------------------------- MODULE NodeRegistry ----------------------------
(***************************************************************************)
(* The rows of the nodes and of their models: heartbeats of the agents,    *)
(* creation and deletion by users (api/nodes.py), the poll of the hosts    *)
(* without agent and the sweep (workers/tasks.py).                         *)
(*                                                                         *)
(* A request or a poll is a transaction.  What it writes is seen at its    *)
(* commit; a row it has written, or a name it has inserted, is locked      *)
(* until then, and who waits for whom is broken by the database when it    *)
(* becomes a circle.  A tick is five seconds.                              *)
(***************************************************************************)
EXTENDS Naturals, FiniteSets

CONSTANTS
  Name,          \* names of nodes
  Reported,         \* models a node may report
  Beat,          \* heartbeat requests in progress
  Cycle,         \* polls in progress
  Admin,         \* deletion requests in progress
  Nobody,
  MaxId,         \* ids a name may have had that somebody still remembers
  OfflineAfter,  \* node_offline_after_s, in ticks
  Period,        \* of poll-direct-nodes
  ProbeTime,     \* of a host that does not answer: two requests of 5 s
  Worlds         \* what may happen: operations, names, who is there, hosts that always
                 \* answer, models that may be reported

AllReports == {"beat", "poll", "create", "delete", "clock"}
ASSUME WorldAssumption ==
  Worlds \subseteq [ops : SUBSET AllReports, names : SUBSET Name,
                    actors : SUBSET (Beat \cup Cycle \cup Admin), up : SUBSET Name, models : SUBSET Reported]
ASSUME ActorAssumption ==
  /\ Beat \cap Cycle = {} /\ Beat \cap Admin = {} /\ Cycle \cap Admin = {}
  /\ Nobody \notin Beat \cup Cycle \cup Admin
ASSUME TimeAssumption == {OfflineAfter, Period, ProbeTime, MaxId} \subseteq Nat \ {0}

VARIABLES
  world,  \* one of Worlds, for ever
  row,    \* the committed row of each name; id 0 is no row
  last,   \* the models of the report each row was last written from
  lock,   \* who has written the row, or inserted the name, and not committed
  mlock,  \* who has deleted the rows of its models and not committed
  beat, cycle, admin,
  since   \* ticks since the last poll was started

registryVars == <<world, row, last, lock, mlock, beat, cycle, admin, since>>

Never == OfflineAfter + Period + ProbeTime  \* an age from which all are alike
Age == 0..Never
Id == 0..MaxId
NoRow == [id |-> 0, direct |-> FALSE, online |-> FALSE, age |-> Never, models |-> {}]
NoBeat == [pc |-> "idle", name |-> Nobody, id |-> 0, online |-> FALSE, models |-> {}, known |-> {}, age |-> 0]
NoWork == [id |-> 0, online |-> FALSE, answer |-> "none", known |-> {}, found |-> {}, age |-> 0]
NoCycle == [pc |-> "idle", todo |-> {}, cur |-> Nobody, waited |-> 0, work |-> [n \in Name |-> NoWork]]
NoAdmin == [pc |-> "idle", name |-> Nobody, id |-> 0]

Row == [id : Id, direct : BOOLEAN, online : BOOLEAN, age : Age, models : SUBSET Reported]
Work == [id : Id, online : BOOLEAN, answer : {"none", "heard", "silent"},
         known : SUBSET Reported, found : SUBSET Reported, age : Age]
RegistryActor == Beat \cup Cycle \cup Admin

RegistryTypeOK ==
  /\ world \in Worlds
  /\ row \in [Name -> Row]
  /\ last \in [Name -> SUBSET Reported]
  /\ lock \in [Name -> RegistryActor \cup {Nobody}] /\ mlock \in [Name -> RegistryActor \cup {Nobody}]
  /\ beat \in [Beat -> [pc : {"idle", "read", "locked", "stored"}, name : Name \cup {Nobody}, id : Id,
                        online : BOOLEAN, models : SUBSET Reported, known : SUBSET Reported, age : Age]]
  /\ cycle \in [Cycle -> [pc : {"idle", "next", "probing", "flushing", "closing"}, todo : SUBSET Name,
                          cur : Name \cup {Nobody}, waited : 0..ProbeTime, work : [Name -> Work]]]
  /\ admin \in [Admin -> [pc : {"idle", "probed", "read", "deleting"}, name : Name \cup {Nobody}, id : Id]]
  /\ since \in 0..Period

\* A polled world starts with its hosts registered.
RegistryInit ==
  /\ world \in Worlds
  /\ row = [n \in Name |-> IF "poll" \in world.ops /\ n \in world.names
                           THEN [id |-> 1, direct |-> TRUE, online |-> TRUE, age |-> 0, models |-> {}]
                           ELSE NoRow]
  /\ last = [n \in Name |-> {}]
  /\ lock = [n \in Name |-> Nobody] /\ mlock = [n \in Name |-> Nobody]
  /\ beat = [b \in Beat |-> NoBeat]
  /\ cycle = [c \in Cycle |-> NoCycle]
  /\ admin = [a \in Admin |-> NoAdmin]
  /\ since = 0

-----------------------------------------------------------------------------

May(op, x) == op \in world.ops /\ x \in world.actors
Timed == "clock" \in world.ops
There(n, id) == row[n].id = id
Unlocked(l, a) == [n \in Name |-> IF l[n] = a THEN Nobody ELSE l[n]]

\* A fresh uuid: one that neither a row nor a request has of this name.
Remembered(n) ==
  {row[n].id} \cup {beat[b].id : b \in {b \in Beat : beat[b].name = n}}
  \cup {cycle[c].work[n].id : c \in Cycle} \cup {admin[a].id : a \in {a \in Admin : admin[a].name = n}}
NewIds(n) == (1..MaxId) \ Remembered(n)

\* The models table after the upsert: what is added and removed was decided by
\* comparing the report with the rows read before.  They are read with the row of
\* the node locked, so two inserts of one model never meet.
Upserted(models, known, found) == (models \ (known \ found)) \cup (found \ known)

\* SQLAlchemy writes a column only when it differs from what was read.
Written(committed, read, new) == IF read = new THEN committed ELSE new

(* Heartbeats *)

\* The row is looked up by name; an agent that timed out sends the next report
\* while this one is still served.
BeatRead(b, n) ==
  /\ May("beat", b) /\ n \in world.names /\ beat[b].pc = "idle"
  /\ row[n].id # 0 \/ NewIds(n) # {}
  /\ \E ms \in SUBSET world.models :
       beat' = [beat EXCEPT ![b] = [pc |-> "read", name |-> n, id |-> row[n].id, online |-> row[n].online,
                                    models |-> ms, known |-> {}, age |-> 0]]
  /\ UNCHANGED <<world, row, last, lock, mlock, cycle, admin, since>>

BeatEnds(b) == beat' = [beat EXCEPT ![b] = NoBeat]

\* Mutant: the models are compared with the rows read before the node was written.
MutBeatFlush(b) ==
  LET n == beat[b].name IN
  /\ beat[b].pc = "read"
  /\ There(n, beat[b].id)
  /\ beat' = [beat EXCEPT ![b].pc = "locked", ![b].known = row[n].models]
  /\ UNCHANGED <<world, row, last, lock, mlock, cycle, admin, since>>

\* db.flush(): INSERT or UPDATE of the node, which waits for whoever has written it;
\* then the models are read, and stay as they are until the commit.
BeatFlush(b) ==
  LET n == beat[b].name IN
  /\ beat[b].pc = "read" /\ lock[n] = Nobody
  /\ \/ /\ There(n, beat[b].id)
        /\ lock' = [lock EXCEPT ![n] = b]
        /\ beat' = [beat EXCEPT ![b].pc = "locked", ![b].known = row[n].models]
     \/ \* the name was inserted, or the row deleted, in between: the request fails
        /\ ~There(n, beat[b].id)
        /\ lock' = lock
        /\ BeatEnds(b)
  /\ UNCHANGED <<world, row, last, mlock, cycle, admin, since>>

BeatCommit(b) ==
  LET h == beat[b]
      n == h.name
  IN
  /\ h.pc = "locked" /\ mlock[n] = Nobody
  /\ lock' = Unlocked(lock, b)
  /\ \E id \in (IF h.id = 0 THEN NewIds(n) ELSE {h.id}) :
       /\ row' = [row EXCEPT ![n] =
            [id |-> id, direct |-> FALSE, online |-> Written(row[n].online, h.online, TRUE), age |-> h.age,
             models |-> Upserted(row[n].models, h.known, h.models)]]
       /\ beat' = [beat EXCEPT ![b].pc = "stored", ![b].id = id]
  /\ last' = [last EXCEPT ![n] = h.models]
  /\ UNCHANGED <<world, mlock, cycle, admin, since>>

\* The measurement is inserted in a transaction of its own, which refers to the node.
\* The answer reads node.id, which the rollback of a failed insert has expired.
BeatMetric(b) ==
  /\ beat[b].pc = "stored"
  /\ BeatEnds(b)
  /\ UNCHANGED <<world, row, last, lock, mlock, cycle, admin, since>>

(* Users *)

\* POST: the name is free, the host is probed, the row is inserted, whatever happened
\* during the probe; the unique name refuses a second one.
CreateRead(a, n) ==
  /\ May("create", a) /\ n \in world.names /\ admin[a].pc = "idle"
  /\ row[n].id = 0 /\ NewIds(n) # {}
  /\ admin' = [admin EXCEPT ![a] = [pc |-> "probed", name |-> n, id |-> 0]]
  /\ UNCHANGED <<world, row, last, lock, mlock, beat, cycle, since>>

CreateInsert(a) ==
  LET n == admin[a].name IN
  /\ admin[a].pc = "probed" /\ lock[n] = Nobody
  /\ admin' = [admin EXCEPT ![a] = NoAdmin]
  /\ \/ row[n].id # 0 /\ UNCHANGED <<row, last>>
     \/ /\ row[n].id = 0
        /\ \E id \in NewIds(n), ms \in SUBSET world.models, reached \in BOOLEAN :
             /\ reached \/ ms = {}
             /\ row' = [row EXCEPT ![n] = [id |-> id, direct |-> TRUE, online |-> reached,
                                           age |-> IF reached THEN 0 ELSE Never, models |-> ms]]
             /\ last' = [last EXCEPT ![n] = ms]
  /\ UNCHANGED <<world, lock, mlock, beat, cycle, since>>

\* DELETE: the rows of the models go first, then the row of the node; rows of
\* models inserted in between go with the node.
DeleteRead(a, n) ==
  /\ May("delete", a) /\ admin[a].pc = "idle"
  /\ row[n].id # 0
  /\ admin' = [admin EXCEPT ![a] = [pc |-> "read", name |-> n, id |-> row[n].id]]
  /\ UNCHANGED <<world, row, last, lock, mlock, beat, cycle, since>>

DeleteModels(a) ==
  LET n == admin[a].name IN
  /\ admin[a].pc = "read" /\ mlock[n] = Nobody
  /\ admin' = [admin EXCEPT ![a].pc = "deleting"]
  /\ mlock' = IF There(n, admin[a].id) /\ row[n].models # {} THEN [mlock EXCEPT ![n] = a] ELSE mlock
  /\ UNCHANGED <<world, row, last, lock, beat, cycle, since>>

DeleteNode(a) ==
  LET n == admin[a].name IN
  /\ admin[a].pc = "deleting" /\ lock[n] = Nobody
  /\ admin' = [admin EXCEPT ![a] = NoAdmin]
  /\ mlock' = Unlocked(mlock, a)
  /\ IF There(n, admin[a].id)
     THEN row' = [row EXCEPT ![n] = NoRow] /\ last' = [last EXCEPT ![n] = {}]
     ELSE UNCHANGED <<row, last>>
  /\ UNCHANGED <<world, lock, beat, cycle, since>>

(* poll_direct_nodes *)

\* All rows without agent are read; none is read again during the cycle.
CycleStart(c) ==
  /\ May("poll", c) /\ cycle[c].pc = "idle"
  /\ Timed => since = Period
  /\ since' = 0
  /\ LET direct == {n \in Name : row[n].id # 0 /\ row[n].direct} IN
     /\ direct # {}
     /\ cycle' = [cycle EXCEPT ![c] =
          [pc |-> "next", todo |-> direct, cur |-> Nobody, waited |-> 0,
           work |-> [n \in Name |-> IF n \in direct THEN [NoWork EXCEPT !.id = row[n].id, !.online = row[n].online]
                                    ELSE NoWork]]]
  /\ UNCHANGED <<world, row, last, lock, mlock, beat, admin>>

\* The time that will be written is taken before the host is asked.
CycleProbe(c) ==
  /\ cycle[c].pc = "next"
  /\ \E n \in cycle[c].todo :
       cycle' = [cycle EXCEPT ![c] = [pc |-> "probing", todo |-> @.todo \ {n}, cur |-> n, waited |-> 0,
                                      work |-> [@.work EXCEPT ![n].age = 0]]]
  /\ UNCHANGED <<world, row, last, lock, mlock, beat, admin, since>>

Answered(c, answer, found, pc) ==
  cycle' = [cycle EXCEPT ![c] = [pc |-> pc, todo |-> @.todo, cur |-> @.cur, waited |-> 0,
                                 work |-> [@.work EXCEPT ![cycle[c].cur].answer = answer,
                                                         ![cycle[c].cur].found = found]]]

\* probe: GET /v1/models, then GET /api/tags, 5 s each.  The query for the known
\* models flushes the row first.
CycleHeard(c) ==
  /\ cycle[c].pc = "probing"
  /\ Timed => cycle[c].cur \in world.up
  /\ \E ms \in SUBSET world.models : Answered(c, "heard", ms, "flushing")
  /\ UNCHANGED <<world, row, last, lock, mlock, beat, admin, since>>

CycleSilent(c) ==
  /\ cycle[c].pc = "probing" /\ cycle[c].cur \notin world.up
  /\ Timed => cycle[c].waited = ProbeTime
  /\ Answered(c, "silent", {}, "next")
  /\ UNCHANGED <<world, row, last, lock, mlock, beat, admin, since>>

\* The rows this cycle has changed and the database does not know of yet.
Dirty(c) ==
  {n \in Name : lock[n] # c /\ LET w == cycle[c].work[n]
                              IN w.answer = "heard" \/ (w.answer = "silent" /\ w.online)}

CycleClose(c) ==
  /\ cycle[c].pc = "next" /\ cycle[c].todo = {}
  /\ cycle' = [cycle EXCEPT ![c].pc = "closing"]
  /\ UNCHANGED <<world, row, last, lock, mlock, beat, admin, since>>

\* One UPDATE of a flush; a row that is gone ends the whole cycle, and with it what
\* it had to write of the other nodes.
CycleWrite(c, n) ==
  /\ cycle[c].pc \in {"flushing", "closing"}
  /\ n \in Dirty(c) /\ lock[n] = Nobody
  /\ IF There(n, cycle[c].work[n].id)
     THEN /\ lock' = [lock EXCEPT ![n] = c]
          /\ cycle' = cycle
     ELSE /\ lock' = Unlocked(lock, c)
          /\ cycle' = [cycle EXCEPT ![c] = NoCycle]
  /\ UNCHANGED <<world, row, last, mlock, beat, admin, since>>

CycleModels(c) ==
  LET n == cycle[c].cur IN
  /\ cycle[c].pc = "flushing" /\ Dirty(c) = {}
  /\ cycle' = [cycle EXCEPT ![c].pc = "next", ![c].work[n].known = row[n].models]
  /\ UNCHANGED <<world, row, last, lock, mlock, beat, admin, since>>

\* Mutant: the time is written only when the node comes back.
MutCycleRow(r, w) ==
  IF w.answer = "silent" THEN [r EXCEPT !.online = Written(r.online, w.online, FALSE)]
  ELSE [r EXCEPT !.online = Written(r.online, w.online, TRUE),
                 !.age = IF r.online THEN @ ELSE w.age,
                 !.models = Upserted(r.models, w.known, w.found)]

\* What a cycle writes of one node.
CycleRow(r, w) ==
  IF w.answer = "silent" THEN [r EXCEPT !.online = Written(r.online, w.online, FALSE)]
  ELSE [r EXCEPT !.online = Written(r.online, w.online, TRUE), !.age = w.age,
                 !.models = Upserted(r.models, w.known, w.found)]

\* db.commit(), once for all nodes.
CycleCommit(c) ==
  LET work == cycle[c].work
      mine == {n \in Name : lock[n] = c}
      heard == {n \in Name : work[n].answer = "heard"}
  IN
  /\ cycle[c].pc = "closing" /\ Dirty(c) = {}
  /\ \A n \in heard : mlock[n] = Nobody
  /\ lock' = Unlocked(lock, c)
  /\ cycle' = [cycle EXCEPT ![c] = NoCycle]
  /\ row' = [n \in Name |-> IF n \in mine THEN CycleRow(row[n], work[n]) ELSE row[n]]
  /\ last' = [n \in Name |-> IF n \in heard THEN work[n].found ELSE last[n]]
  /\ UNCHANGED <<world, mlock, beat, admin, since>>

(* The database and time *)

Waits(x, y) ==
  /\ y # Nobody /\ x # y
  /\ \/ x \in Beat /\ beat[x].pc = "read" /\ lock[beat[x].name] = y
     \/ x \in Beat /\ beat[x].pc = "locked" /\ mlock[beat[x].name] = y
     \/ x \in Admin /\ admin[x].pc = "deleting" /\ lock[admin[x].name] = y
     \/ x \in Admin /\ admin[x].pc = "read" /\ mlock[admin[x].name] = y
     \/ /\ x \in Cycle /\ cycle[x].pc \in {"flushing", "closing"}
        /\ \/ \E n \in Dirty(x) : lock[n] = y
           \/ /\ cycle[x].pc = "closing" /\ Dirty(x) = {}
              /\ \E n \in Name : cycle[x].work[n].answer = "heard" /\ mlock[n] = y

\* Circles of two or three: there are no longer ones among so few rows.
Deadlocked(x) ==
  \E y \in RegistryActor : Waits(x, y) /\ (Waits(y, x) \/ \E z \in RegistryActor : Waits(y, z) /\ Waits(z, x))

\* The database aborts one of those that wait for each other.
Abort(x) ==
  /\ Deadlocked(x)
  /\ lock' = Unlocked(lock, x) /\ mlock' = Unlocked(mlock, x)
  /\ beat' = IF x \in Beat THEN [beat EXCEPT ![x] = NoBeat] ELSE beat
  /\ cycle' = IF x \in Cycle THEN [cycle EXCEPT ![x] = NoCycle] ELSE cycle
  /\ admin' = IF x \in Admin THEN [admin EXCEPT ![x] = NoAdmin] ELSE admin
  /\ UNCHANGED <<world, row, last, since>>

\* mark_offline_nodes: one UPDATE, which looks at the condition again after it has
\* waited for a row.
Sweep ==
  LET silent == {n \in Name : row[n].online /\ row[n].age > OfflineAfter} IN
  /\ silent # {} /\ \A n \in silent : lock[n] = Nobody
  /\ row' = [n \in Name |-> IF n \in silent THEN [row[n] EXCEPT !.online = FALSE] ELSE row[n]]
  /\ UNCHANGED <<world, last, lock, mlock, beat, cycle, admin, since>>

\* A host that answers does so at once, the beat of Celery is on time, and so is a
\* worker.
OnTime(c) ==
  \/ cycle[c].pc = "idle"
  \/ cycle[c].pc = "probing" /\ cycle[c].cur \notin world.up /\ cycle[c].waited < ProbeTime
  \/ cycle[c].pc \in {"flushing", "closing"} /\ \E y \in Cycle : Waits(c, y)

Older(age) == IF age < Never THEN age + 1 ELSE Never

Tick ==
  /\ Timed
  /\ "poll" \in world.ops => since < Period \/ \A c \in Cycle : cycle[c].pc # "idle"
  /\ \A c \in Cycle : OnTime(c)
  /\ since' = IF since < Period THEN since + 1 ELSE Period
  /\ row' = [n \in Name |-> [row[n] EXCEPT !.age = Older(@)]]
  /\ cycle' = [c \in Cycle |->
       [cycle[c] EXCEPT !.waited = IF cycle[c].pc = "probing" THEN @ + 1 ELSE @,
                        !.work = [n \in Name |-> [cycle[c].work[n] EXCEPT !.age = Older(@)]]]]
  /\ beat' = [b \in Beat |-> [beat[b] EXCEPT !.age = IF beat[b].pc = "idle" THEN 0 ELSE Older(@)]]
  /\ UNCHANGED <<world, last, lock, mlock, admin>>

-----------------------------------------------------------------------------

BeatStep(b) == BeatFlush(b) \/ BeatCommit(b) \/ BeatMetric(b)
CycleStep(c) ==
  \/ CycleProbe(c) \/ CycleHeard(c) \/ CycleSilent(c) \/ CycleClose(c)
  \/ CycleModels(c) \/ CycleCommit(c) \/ \E n \in Name : CycleWrite(c, n)
AdminStep(a) == CreateInsert(a) \/ DeleteModels(a) \/ DeleteNode(a)

RegistryNext ==
  \/ \E b \in Beat : BeatStep(b) \/ \E n \in Name : BeatRead(b, n)
  \/ \E a \in Admin : AdminStep(a) \/ \E n \in Name : CreateRead(a, n) \/ DeleteRead(a, n)
  \/ \E c \in Cycle : CycleStart(c) \/ CycleStep(c)
  \/ \E x \in RegistryActor : Abort(x)
  \/ Sweep \/ Tick


-----------------------------------------------------------------------------

\* The models of a node are those of the report its row was last written from:
\* reports, polls and deletions that overlap never leave a mixture of two.
ModelsAreReported == \A n \in Name : row[n].models = last[n]

\* Node.is_online of a host that answers every probe is always true: neither the
\* probes of a host that does not answer nor overlapping polls make it look gone.
AnsweringIsOnline ==
  Timed => \A n \in world.up : row[n].age < OfflineAfter

=============================================================================
