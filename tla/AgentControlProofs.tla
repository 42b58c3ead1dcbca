------------------------- MODULE AgentControlProofs -------------------------
(***************************************************************************)
(* Theorems about AgentControl, for every number of requests, processes    *)
(* and models; then about ColdStart, the agent with the chats that call    *)
(* it.                                                                     *)
(***************************************************************************)
EXTENDS ColdStart, TLAPS


(* The lock.  The inductive invariant adds to LockDiscipline that the slot *)
(* of a request is either free or at a point of a locked operation, and    *)
(* that an agent that is down has no task at all.                          *)
TaskShape ==
  /\ \A t \in Actor : task[t].pc = "free" => task[t] = Free
  /\ \A t \in Task : task[t].pc \in {"free", "waiting"} \cup Working
  /\ ~up => queue = << >> /\ task = AllFree

LockInv == TypeOK /\ LockDiscipline /\ TaskShape

\* A call of stop() moves its actor to one of the three points it was given
\* and keeps or drops the reference to the process.
LEMMA BeginStopSpec ==
  ASSUME TypeOK, NEW t \in Actor, NEW op, NEW m, NEW exit, NEW drain, NEW after,
         BeginStop(t, op, m, exit, drain, after)
  PROVE  \E pc \in {exit, drain, after}, v \in Pid \cup {NoPid} :
           /\ task' = [task EXCEPT ![t] = [op |-> op, model |-> m,
                                           pc |-> pc, victim |-> v]]
           /\ ref' \in {ref, NoPid}
           /\ v # NoPid => v = ref /\ Running /\ ref' = ref /\ pc = exit
           /\ v = NoPid => ref' = NoPid /\ ~Running /\ pc \in {drain, after}
  <1>1. CASE Running
    <2>1. StopWait = "exit" BY <1>1 DEF StopWait
    <2>2. ref # NoPid /\ ref \in Pid BY <1>1 DEF Running, TypeOK
    <2> QED BY <1>1, <2>1, <2>2 DEF BeginStop
  <1>2. CASE ~Running /\ (ref # NoPid \/ Draining)
    <2>1. StopWait = "drain" BY <1>2 DEF StopWait
    <2> QED BY <1>2, <2>1 DEF BeginStop
  <1>3. CASE ~Running /\ ~(ref # NoPid \/ Draining)
    <2>1. StopWait = "none" BY <1>3 DEF StopWait
    <2> QED BY <1>3, <2>1 DEF BeginStop
  <1> QED BY <1>1, <1>2, <1>3

\* Dropping the head of a queue without repetitions drops its element.
LEMMA TailOfDistinct ==
  ASSUME NEW S, NEW q \in Seq(S), q # << >>,
         \A i, j \in 1..Len(q) : q[i] = q[j] => i = j
  PROVE  /\ \A i, j \in 1..Len(Tail(q)) : Tail(q)[i] = Tail(q)[j] => i = j
         /\ \A i \in 1..Len(Tail(q)) : Tail(q)[i] # q[1]
  <1>1. Len(q) \in Nat \ {0} /\ Len(Tail(q)) = Len(q) - 1
        /\ \A i \in 1..Len(Tail(q)) : Tail(q)[i] = q[i + 1]
    OBVIOUS
  <1>2. ASSUME NEW i \in 1..Len(Tail(q)), NEW j \in 1..Len(Tail(q)),
               Tail(q)[i] = Tail(q)[j]
        PROVE i = j
    <2>1. i + 1 \in 1..Len(q) /\ j + 1 \in 1..Len(q) BY <1>1
    <2>2. q[i + 1] = q[j + 1] BY <1>1, <1>2
    <2>3. i + 1 = j + 1 BY <2>1, <2>2
    <2> QED BY <2>3
  <1>3. ASSUME NEW i \in 1..Len(Tail(q)), Tail(q)[i] = q[1]
        PROVE FALSE
    <2>1. i + 1 \in 1..Len(q) /\ 1 \in 1..Len(q) BY <1>1
    <2>2. q[i + 1] = q[1] BY <1>1, <1>3
    <2>3. i + 1 = 1 BY <2>1, <2>2
    <2> QED BY <2>3
  <1> QED BY <1>2, <1>3

\* The end of a holder hands the lock to the next waiter, and the queue
\* stays what LockDiscipline says.
LEMMA HolderEndKeepsLock ==
  ASSUME LockInv, NEW t \in Task, task[t].pc # "free", Holder(t), Finish(t),
         up' = up
  PROVE  /\ queue' \in Seq(Task) /\ task' \in [Actor -> Activity]
         /\ LockDiscipline' /\ TaskShape'
  <1> USE DEF Actor
  <1>1. Holder(t) /\ queue \in Seq(Task) /\ queue # << >> /\ queue[1] = t
    BY DEF LockInv, LockDiscipline, Holder, TypeOK
  <1>0. /\ \A i, j \in 1..Len(Tail(queue)) :
             Tail(queue)[i] = Tail(queue)[j] => i = j
        /\ \A i \in 1..Len(Tail(queue)) : Tail(queue)[i] # queue[1]
    BY <1>1, TailOfDistinct DEF LockInv, LockDiscipline
  <1>2. queue' = Tail(queue) /\ task' = [task EXCEPT ![t] = Free]
    BY DEF Finish, Release
  <1>3. queue' \in Seq(Task) /\ Len(queue') = Len(queue) - 1
        /\ \A i \in 1..Len(queue') : queue'[i] = queue[i + 1]
    BY <1>1, <1>2
  <1>4. task' \in [Actor -> Activity]
    BY <1>2 DEF LockInv, TypeOK, Activity, Free, AllOps, PC
  <1>5. \A u \in Task : u # t => task'[u] = task[u]
    BY <1>2 DEF LockInv, TypeOK
  <1>6. task'[t] = Free
    BY <1>2 DEF LockInv, TypeOK
  <1>7. \A u \in Task : u # t => task[u].pc \notin Working
    BY <1>1 DEF LockInv, LockDiscipline, Holder
  <1>8. LockDiscipline'
    <2>1. \A u \in Task : task'[u].pc \in Working => Holder(u)'
      BY <1>5, <1>6, <1>7 DEF Free, Working
    <2>2. \A i, j \in 1..Len(queue') : queue'[i] = queue'[j] => i = j
      BY <1>0, <1>2
    <2>3. ASSUME NEW u \in Task
          PROVE task'[u].pc # "free" <=> \E i \in 1..Len(queue') : queue'[i] = u
      <3>1. CASE u = t
        <4>1. \A i \in 1..Len(queue') : queue'[i] # t
          BY <1>0, <1>1, <1>2
        <4> QED BY <4>1, <3>1, <1>6 DEF Free
      <3>2. CASE u # t
        <4>1. (\E i \in 1..Len(queue') : queue'[i] = u)
              <=> (\E i \in 1..Len(queue) : queue[i] = u)
          <5>1. ASSUME NEW i \in 1..Len(queue), queue[i] = u
                PROVE \E k \in 1..Len(queue') : queue'[k] = u
            <6>1. i # 1 BY <5>1, <3>2, <1>1
            <6>2. i - 1 \in 1..Len(queue') /\ queue'[i - 1] = queue[i]
              BY <6>1, <5>1, <1>1, <1>3
            <6> QED BY <6>2, <5>1
          <5>2. ASSUME NEW i \in 1..Len(queue'), queue'[i] = u
                PROVE \E k \in 1..Len(queue) : queue[k] = u
            <6>1. i + 1 \in 1..Len(queue) /\ queue'[i] = queue[i + 1]
              BY <5>2, <1>1, <1>3
            <6> QED BY <6>1, <5>2
          <5> QED BY <5>1, <5>2
        <4> QED BY <4>1, <3>2, <1>5 DEF LockInv, LockDiscipline
      <3> QED BY <3>1, <3>2
    <2> QED BY <2>1, <2>2, <2>3 DEF LockDiscipline
  <1>9. TaskShape'
    <2>1. up BY <1>1 DEF LockInv, TaskShape
    <2> QED BY <2>1, <1>2 DEF LockInv, TaskShape, TypeOK, Free, Working
  <1> QED BY <1>3, <1>4, <1>8, <1>9

\* A request that joins the queue in a free slot waits in it once.
LEMMA EnqueueKeepsLock ==
  ASSUME LockInv, up, up' = up, NEW t \in Task, NEW x \in Activity,
         task[t].pc = "free", task' = [task EXCEPT ![t] = x],
         queue' = Append(queue, t),
         x.pc = "waiting" \/ (x.pc \in Working /\ queue = << >>)
  PROVE  /\ queue' \in Seq(Task) /\ task' \in [Actor -> Activity]
         /\ LockDiscipline' /\ TaskShape'
  <1> USE DEF Actor
  <1>1. queue \in Seq(Task) /\ task \in [Actor -> Activity]
    BY DEF LockInv, TypeOK
  <1>2. queue' \in Seq(Task) /\ Len(queue') = Len(queue) + 1
        /\ queue'[Len(queue) + 1] = t
        /\ \A i \in 1..Len(queue) : queue'[i] = queue[i]
    BY <1>1
  <1>3. \A i \in 1..Len(queue) : queue[i] # t
    BY DEF LockInv, LockDiscipline
  <1>4. task'[t] = x /\ \A u \in Task : u # t => task'[u] = task[u]
    BY <1>1
  <1>5. x.pc # "free" BY DEF Working
  <1>6. LockDiscipline'
    <2>1. ASSUME NEW u \in Task, task'[u].pc \in Working PROVE Holder(u)'
      <3>1. CASE u = t
        <4>1. queue = << >> BY <2>1, <3>1, <1>4 DEF Working
        <4> QED BY <4>1, <3>1, <1>2 DEF Holder
      <3>2. CASE u # t
        <4>1. Holder(u) BY <2>1, <3>2, <1>4 DEF LockInv, LockDiscipline
        <4> QED BY <4>1, <1>1, <1>2 DEF Holder
      <3> QED BY <3>1, <3>2
    <2>2. ASSUME NEW i \in 1..Len(queue'), NEW j \in 1..Len(queue'),
                 queue'[i] = queue'[j]
          PROVE i = j
      BY <2>2, <1>1, <1>2, <1>3 DEF LockInv, LockDiscipline
    <2>3. ASSUME NEW u \in Task
          PROVE task'[u].pc # "free" <=> \E i \in 1..Len(queue') : queue'[i] = u
      <3>1. CASE u = t
        BY <3>1, <1>1, <1>2, <1>4, <1>5
      <3>2. CASE u # t
        <4>1. (\E i \in 1..Len(queue') : queue'[i] = u)
              <=> (\E i \in 1..Len(queue) : queue[i] = u)
          BY <3>2, <1>1, <1>2
        <4> QED BY <4>1, <3>2, <1>4 DEF LockInv, LockDiscipline
      <3> QED BY <3>1, <3>2
    <2> QED BY <2>1, <2>2, <2>3 DEF LockDiscipline
  <1>7. TaskShape'
    BY <1>1, <1>4, <1>5 DEF LockInv, TaskShape, Working
  <1>8. task' \in [Actor -> Activity]
    BY <1>1
  <1> QED BY <1>2, <1>6, <1>7, <1>8

\* The holder moves from point to point of its operation.
LEMMA HolderMoveKeepsLock ==
  ASSUME LockInv, up' = up, NEW t \in Task, NEW x \in Activity, Holder(t),
         task[t].pc # "free", x.pc \in Working,
         task' = [task EXCEPT ![t] = x], queue' = queue
  PROVE  /\ task' \in [Actor -> Activity]
         /\ LockDiscipline' /\ TaskShape'
  <1> USE DEF Actor
  <1>1. task \in [Actor -> Activity] /\ queue \in Seq(Task)
    BY DEF LockInv, TypeOK
  <1>2. task'[t] = x /\ \A u \in Task : u # t => task'[u] = task[u]
    BY <1>1
  <1>3. up
    BY <1>1 DEF LockInv, TaskShape, AllFree, Free
  <1>4. LockDiscipline'
    BY <1>1, <1>2 DEF LockInv, LockDiscipline, Holder, Working
  <1>5. TaskShape'
    BY <1>1, <1>2, <1>3 DEF LockInv, TaskShape, Working
  <1> QED BY <1>1, <1>4, <1>5

\* The two loops of main.py are not in the queue.
LEMMA LoopMoveKeepsLock ==
  ASSUME LockInv, up, up' = up, NEW t \in {Updater, Heartbeat}, NEW x \in Activity,
         x.pc = "free" => x = Free,
         task' = [task EXCEPT ![t] = x], queue' = queue
  PROVE  /\ task' \in [Actor -> Activity]
         /\ LockDiscipline' /\ TaskShape'
  <1> USE DEF Actor
  <1>1. task \in [Actor -> Activity] BY DEF LockInv, TypeOK
  <1>2. \A u \in Task : task'[u] = task[u]
    BY <1>1, ActorsAssumption
  <1>3. LockDiscipline' BY <1>2 DEF LockInv, LockDiscipline, Holder
  <1>4. TaskShape' BY <1>1, <1>2 DEF LockInv, TaskShape
  <1> QED BY <1>1, <1>3, <1>4

\* The end of a start() or of an unload, by a request or by a loop.
LEMMA EndKeepsLock ==
  ASSUME LockInv, up, up' = up, NEW t \in Actor, task[t].pc \in Working, Finish(t)
  PROVE  /\ queue' \in Seq(Task) /\ task' \in [Actor -> Activity]
         /\ LockDiscipline' /\ TaskShape'
  <1>1. CASE t \in Task
    <2>1. Holder(t) /\ task[t].pc # "free"
      BY <1>1 DEF LockInv, LockDiscipline, Working
    <2> QED BY <1>1, <2>1, HolderEndKeepsLock
  <1>2. CASE t \notin Task
    <2>1. t \in {Updater, Heartbeat} BY <1>2 DEF Actor
    <2>2. queue' = queue /\ task' = [task EXCEPT ![t] = Free]
      BY <1>2 DEF Finish, Release
    <2>3. Free \in Activity BY DEF Free, Activity, AllOps, PC
    <2>4. queue \in Seq(Task) BY DEF LockInv, TypeOK
    <2> QED BY <2>1, <2>2, <2>3, <2>4, LoopMoveKeepsLock
  <1> QED BY <1>1, <1>2

\* An actor inside stop() or start() moves on: it is the holder, or a loop.
LEMMA WorkMoveKeepsLock ==
  ASSUME LockInv, up, up' = up, NEW t \in Actor, NEW x \in Activity,
         task[t].pc \in Working \/ t \notin Task,
         x.pc \in Working \/ (t \notin Task /\ x.pc # "free"),
         task' = [task EXCEPT ![t] = x], queue' = queue
  PROVE  /\ task' \in [Actor -> Activity]
         /\ LockDiscipline' /\ TaskShape'
  <1>1. CASE t \in Task
    <2>1. Holder(t) /\ task[t].pc # "free"
      BY <1>1 DEF LockInv, LockDiscipline, Working
    <2>2. x.pc \in Working BY <1>1
    <2> QED BY <1>1, <2>1, <2>2, HolderMoveKeepsLock
  <1>2. CASE t \notin Task
    <2>1. t \in {Updater, Heartbeat} BY <1>2 DEF Actor
    <2>2. x.pc # "free" BY DEF Working
    <2> QED BY <2>1, <2>2, LoopMoveKeepsLock
  <1> QED BY <1>1, <1>2

\* Steps that leave the lock and the tasks alone.
LEMMA IdleKeepsLock ==
  ASSUME LockInv, up' = up \/ up', queue' = queue, task' = task
  PROVE  /\ queue' \in Seq(Task) /\ task' \in [Actor -> Activity]
         /\ LockDiscipline' /\ TaskShape'
  BY DEF LockInv, TypeOK, LockDiscipline, TaskShape, Holder

\* Only what is running can take a step of its own.
LEMMA BusyMeansUp ==
  ASSUME LockInv, NEW t \in Actor, task[t].pc # "free"
  PROVE  up
  BY DEF LockInv, TypeOK, TaskShape, AllFree, Free

\* The steps from a stopped server to a new one, in a task or at boot.
LEMMA StartingKeepsLock ==
  ASSUME LockInv, NEW t \in Actor, Starting(t)
  PROVE  LockInv'
  <1> USE DEF LockInv
  <1>1. CASE Stopped(t)
    <2>1. up BY <1>1, BusyMeansUp DEF Stopped, EndStop
    <2> DEFINE x == [task[t] EXCEPT !.pc = "draining", !.victim = NoPid]
    <2>2. x \in Activity /\ x.pc = "draining"
      BY DEF TypeOK, Activity, PC
    <2>3. task' = [task EXCEPT ![t] = x]
      BY <1>1 DEF Stopped, EndStop, TypeOK, Activity
    <2>4. task' \in [Actor -> Activity] /\ LockDiscipline' /\ TaskShape'
      BY <1>1, <2>1, <2>2, <2>3, WorkMoveKeepsLock DEF Stopped, EndStop, Working
    <2> QED BY <1>1, <2>4 DEF Stopped, EndStop, TypeOK
  <1>2. CASE Drained(t)
    <2>1. up BY <1>2, BusyMeansUp DEF Drained
    <2> DEFINE x == [task[t] EXCEPT !.pc = "spawning"]
    <2>2. x \in Activity /\ x.pc = "spawning"
      BY DEF TypeOK, Activity, PC
    <2>3. task' = [task EXCEPT ![t] = x]
      BY <1>2 DEF Drained, TypeOK, Activity
    <2>4. task' \in [Actor -> Activity] /\ LockDiscipline' /\ TaskShape'
      BY <1>2, <2>1, <2>2, <2>3, WorkMoveKeepsLock DEF Drained, Working
    <2> QED BY <1>2, <2>4 DEF Drained, TypeOK
  <1>3. CASE Spawned(t)
    <2>1. up BY <1>3, BusyMeansUp DEF Spawned
    <2> DEFINE x == [task[t] EXCEPT !.pc = "starting"]
    <2>2. x \in Activity /\ x.pc = "starting"
      BY DEF TypeOK, Activity, PC
    <2>3. task' = [task EXCEPT ![t] = x]
      BY <1>3 DEF Spawned, TypeOK, Activity
    <2>4. task' \in [Actor -> Activity] /\ LockDiscipline' /\ TaskShape'
      BY <1>3, <2>1, <2>2, <2>3, WorkMoveKeepsLock DEF Spawned, Working
    <2>5. task[t].model \in Model \cup {NoModel}
      BY DEF TypeOK, Activity
    <2>6. Born(task[t].model) \in Process
      BY <2>5 DEF Born, Process
    <2>7. cur' \in Model \cup {NoModel} /\ ref' \in Pid \cup {NoPid}
          /\ proc' \in [Pid -> Process]
      BY <1>3, <2>5, <2>6 DEF Spawned, TypeOK
    <2> QED BY <1>3, <2>4, <2>7 DEF Spawned, TypeOK
  <1>4. CASE Healthy(t)
    <2>1. up BY <1>4, BusyMeansUp DEF Healthy
    <2>2. queue' \in Seq(Task) /\ task' \in [Actor -> Activity]
          /\ LockDiscipline' /\ TaskShape'
      BY <1>4, <2>1, EndKeepsLock DEF Healthy, Working
    <2>3. load' \in Status
      BY <1>4 DEF Healthy, TypeOK, Status
    <2> QED BY <1>4, <2>2, <2>3 DEF Healthy, TypeOK
  <1>5. CASE ExitSeen(t) \/ StartTimeout(t) \/ SpawnFails(t)
    <2>1. task[t].pc \in Working /\ Failed(t)
          /\ UNCHANGED <<up, proc, ref, cur, disk, fetch>>
      BY <1>5 DEF ExitSeen, StartTimeout, SpawnFails, Working
    <2>2. up BY <2>1, BusyMeansUp DEF Working
    <2>3. queue' \in Seq(Task) /\ task' \in [Actor -> Activity]
          /\ LockDiscipline' /\ TaskShape'
      BY <2>1, <2>2, EndKeepsLock DEF Failed
    <2>4. load' \in Status
      BY <2>1 DEF Failed, TypeOK, Status
    <2> QED BY <2>1, <2>3, <2>4 DEF TypeOK
  <1> QED BY <1>1, <1>2, <1>3, <1>4, <1>5 DEF Starting

\* Points given to stop() by its callers: all are inside an operation.
LEMMA BeginKeepsLock ==
  ASSUME LockInv, up, up' = up, queue' = queue, NEW t \in Actor, NEW op \in AllOps,
         NEW m \in Model \cup {NoModel},
         NEW exit \in PC \ {"free", "waiting"}, NEW drain \in PC \ {"free", "waiting"},
         NEW after \in PC,
         BeginStop(t, op, m, exit, drain, after),
         StopWait # "none" \/ after \notin {"free", "waiting"},
         t \in Task => /\ Holder(t) /\ task[t].pc # "free"
                       /\ {exit, drain} \subseteq Working
                       /\ after \in Working \/ StopWait # "none"
  PROVE  /\ task' \in [Actor -> Activity] /\ ref' \in Pid \cup {NoPid}
         /\ LockDiscipline' /\ TaskShape'
  <1>1. TypeOK BY DEF LockInv
  <1>2. PICK pc \in {exit, drain, after}, v \in Pid \cup {NoPid} :
           /\ task' = [task EXCEPT ![t] = [op |-> op, model |-> m,
                                           pc |-> pc, victim |-> v]]
           /\ ref' \in {ref, NoPid}
           /\ v # NoPid => v = ref /\ Running /\ ref' = ref /\ pc = exit
           /\ v = NoPid => ref' = NoPid /\ ~Running /\ pc \in {drain, after}
    BY <1>1, BeginStopSpec
  <1> DEFINE x == [op |-> op, model |-> m, pc |-> pc, victim |-> v]
  <1>3. x \in Activity BY DEF Activity
  <1>4. pc = after /\ pc \notin {exit, drain} => StopWait = "none"
    BY <1>1, <1>2 DEF BeginStop, StopWait, TypeOK
  <1>5. x.pc # "free" /\ (t \in Task => x.pc \in Working)
    BY <1>4
  <1>6. ref' \in Pid \cup {NoPid} BY <1>1, <1>2 DEF TypeOK
  <1>7. CASE t \in Task
    <2>1. Holder(t) /\ task[t].pc # "free" /\ x.pc \in Working BY <1>5, <1>7
    <2> QED BY <1>2, <1>3, <1>6, <1>7, <2>1, HolderMoveKeepsLock
  <1>8. CASE t \notin Task
    <2>1. t \in {Updater, Heartbeat} BY <1>8 DEF Actor
    <2> QED BY <1>2, <1>3, <1>5, <1>6, <2>1, LoopMoveKeepsLock
  <1> QED BY <1>7, <1>8

\* A step of the task that holds the lock.
LEMMA LockedKeepsLock ==
  ASSUME LockInv, NEW t \in Task, Locked(t)
  PROVE  LockInv'
  <1> USE DEF LockInv
  <1>1. t \in Actor BY DEF Actor
  <1>2. task[t].pc # "free" BY DEF Locked, LoadTask, UnloadLocked, RestartTask, Unloaded
  <1>3. up BY <1>1, <1>2, BusyMeansUp
  <1>4. queue # << >> /\ queue \in Seq(Task)
    BY <1>2 DEF LockDiscipline, TypeOK
  <1>5. task[t].pc = "waiting" /\ Head(queue) = t => Holder(t)
    BY <1>4 DEF Holder
  <1>6. task[t].model \in Model \cup {NoModel}
    BY <1>1 DEF TypeOK, Activity
  <1>7. CASE LoadTask(t)
    <2>1. task' \in [Actor -> Activity] /\ ref' \in Pid \cup {NoPid}
          /\ LockDiscipline' /\ TaskShape'
      BY <1>1, <1>2, <1>3, <1>5, <1>6, <1>7, BeginKeepsLock
      DEF LoadTask, BeginStart, AllOps, PC, Working
    <2> QED BY <1>7, <2>1 DEF LoadTask, TypeOK
  <1>8. CASE RestartTask(t)
    <2>1. cur \in Model \cup {NoModel} BY DEF TypeOK
    <2>2. task' \in [Actor -> Activity] /\ ref' \in Pid \cup {NoPid}
          /\ LockDiscipline' /\ TaskShape'
      BY <1>1, <1>2, <1>3, <1>5, <1>8, <2>1, BeginKeepsLock
      DEF RestartTask, BeginStart, AllOps, PC, Working
    <2>3. load' \in Status BY <1>8, <2>1 DEF RestartTask, Status
    <2> QED BY <1>8, <2>2, <2>3 DEF RestartTask, TypeOK
  <1>9. CASE UnloadLocked(t) /\ StopWait # "none"
    <2>1. task' \in [Actor -> Activity] /\ ref' \in Pid \cup {NoPid}
          /\ LockDiscipline' /\ TaskShape'
      BY <1>1, <1>2, <1>3, <1>5, <1>9, BeginKeepsLock
      DEF UnloadLocked, AllOps, PC, Working
    <2> QED BY <1>9, <2>1 DEF UnloadLocked, TypeOK
  <1>10. CASE Unloaded(t)
    <2>1. queue' \in Seq(Task) /\ task' \in [Actor -> Activity]
          /\ LockDiscipline' /\ TaskShape'
      BY <1>1, <1>3, <1>10, EndKeepsLock DEF Unloaded, Working
    <2> QED BY <1>10, <2>1 DEF Unloaded, TypeOK, Idle, Status
  <1>11. CASE UnloadLocked(t) /\ StopWait = "none"
    <2>1. Holder(t) /\ Finish(t) /\ up' = up
      BY <1>5, <1>11 DEF UnloadLocked
    <2>2. queue' \in Seq(Task) /\ task' \in [Actor -> Activity]
          /\ LockDiscipline' /\ TaskShape'
      BY <2>1, HolderEndKeepsLock, <1>2
    <2> QED BY <1>11, <2>2 DEF UnloadLocked, TypeOK, Idle, Status
  <1> QED BY <1>7, <1>8, <1>9, <1>10, <1>11 DEF Locked

\* A request of the control API.
LEMMA RequestKeepsLock ==
  ASSUME LockInv, Request
  PROVE  LockInv'
  <1> USE DEF LockInv
  <1>1. ASSUME NEW t \in Task, NEW f \in Model, LoadModel(t, f) PROVE LockInv'
    <2> DEFINE x == [op |-> "load", pc |-> "waiting", model |-> f, victim |-> NoPid]
    <2>1. x \in Activity BY DEF Activity, AllOps, PC
    <2>2. queue' \in Seq(Task) /\ task' \in [Actor -> Activity]
          /\ LockDiscipline' /\ TaskShape'
      <3>1. task' = [task EXCEPT ![t] = x] /\ queue' = Append(queue, t)
            /\ task[t].pc = "free" /\ up /\ up' = up
        BY <1>1 DEF LoadModel, AcceptLoad, Free
      <3>2. x.pc = "waiting" OBVIOUS
      <3> HIDE DEF x
      <3> QED BY <2>1, <3>1, <3>2, EnqueueKeepsLock
    <2> QED BY <1>1, <2>2 DEF LoadModel, AcceptLoad, TypeOK, Status
  <1>2. ASSUME NEW t \in Task, PatchConfig(t) PROVE LockInv'
    <2> DEFINE x == [op |-> "restart", pc |-> "waiting", model |-> NoModel,
                     victim |-> NoPid]
    <2>1. x \in Activity BY DEF Activity, AllOps, PC
    <2>2. queue' \in Seq(Task) /\ task' \in [Actor -> Activity]
          /\ LockDiscipline' /\ TaskShape'
      <3>1. task' = [task EXCEPT ![t] = x] /\ queue' = Append(queue, t)
            /\ task[t].pc = "free" /\ up /\ up' = up
        BY <1>2 DEF PatchConfig, Free
      <3>2. x.pc = "waiting" OBVIOUS
      <3> HIDE DEF x
      <3> QED BY <2>1, <3>1, <3>2, EnqueueKeepsLock
    <2> QED BY <1>2, <2>2 DEF PatchConfig, TypeOK
  <1>3. ASSUME NEW t \in Task, UnloadModel(t) PROVE LockInv'
    <2>1. CASE queue # << >>
      <3> DEFINE x == [op |-> "unload", pc |-> "waiting", model |-> NoModel,
                       victim |-> NoPid]
      <3>1. x \in Activity BY DEF Activity, AllOps, PC
      <3>2. queue' \in Seq(Task) /\ task' \in [Actor -> Activity]
            /\ LockDiscipline' /\ TaskShape'
        <4>1. task' = [task EXCEPT ![t] = x] /\ queue' = Append(queue, t)
              /\ task[t].pc = "free" /\ up /\ up' = up
          BY <1>3, <2>1 DEF UnloadModel, Free
        <4>2. x.pc = "waiting" OBVIOUS
        <4> HIDE DEF x
        <4> QED BY <3>1, <4>1, <4>2, EnqueueKeepsLock
      <3> QED BY <1>3, <2>1, <3>2 DEF UnloadModel, TypeOK
    <2>2. CASE queue = << >> /\ StopWait # "none"
      <3>1. queue' = Append(queue, t) BY <1>3, <2>2 DEF UnloadModel
      <3>2. PICK pc \in {"stopping", "draining", "free"}, v \in Pid \cup {NoPid} :
              /\ task' = [task EXCEPT ![t] = [op |-> "unload", model |-> NoModel,
                                              pc |-> pc, victim |-> v]]
              /\ ref' \in {ref, NoPid}
              /\ v # NoPid => v = ref /\ Running /\ ref' = ref /\ pc = "stopping"
              /\ v = NoPid => ref' = NoPid /\ ~Running /\ pc \in {"draining", "free"}
        BY <1>3, <2>2, BeginStopSpec DEF UnloadModel, Actor
      <3> DEFINE x == [op |-> "unload", model |-> NoModel, pc |-> pc, victim |-> v]
      <3>3. pc # "free"
        <4>1. BeginStop(t, "unload", NoModel, "stopping", "draining", "free")
          BY <1>3, <2>2 DEF UnloadModel
        <4>2. StopWait \in {"exit", "drain"} BY <2>2 DEF StopWait
        <4>3. task'[t].pc = pc BY <3>2 DEF TypeOK, Actor
        <4> QED BY <4>1, <4>2, <4>3 DEF BeginStop, TypeOK, Actor
      <3>4. x \in Activity /\ x.pc \in Working
        BY <3>3 DEF Activity, AllOps, PC, Working
      <3>5. queue' \in Seq(Task) /\ task' \in [Actor -> Activity]
            /\ LockDiscipline' /\ TaskShape'
        <4>1. task' = [task EXCEPT ![t] = x] /\ queue' = Append(queue, t)
              /\ task[t].pc = "free" /\ up /\ up' = up /\ queue = << >>
          BY <1>3, <2>2, <3>1, <3>2 DEF UnloadModel, Free
        <4> HIDE DEF x
        <4> QED BY <3>4, <4>1, EnqueueKeepsLock
      <3>6. ref' \in Pid \cup {NoPid} BY <3>2 DEF TypeOK
      <3> QED BY <1>3, <2>2, <3>5, <3>6 DEF UnloadModel, TypeOK
    <2>3. CASE queue = << >> /\ StopWait = "none"
      <3>1. queue' \in Seq(Task) /\ task' \in [Actor -> Activity]
            /\ LockDiscipline' /\ TaskShape'
        BY <1>3, <2>3, IdleKeepsLock DEF UnloadModel
      <3> QED BY <1>3, <2>3, <3>1 DEF UnloadModel, TypeOK, Idle, Status
    <2> QED BY <2>1, <2>2, <2>3
  <1>4. ASSUME NEW f \in Model, DeleteModel(f) \/ StartDownload(f) PROVE LockInv'
    <2>1. queue' \in Seq(Task) /\ task' \in [Actor -> Activity]
          /\ LockDiscipline' /\ TaskShape'
      BY <1>4, IdleKeepsLock DEF DeleteModel, StartDownload
    <2> QED BY <1>4, <2>1 DEF DeleteModel, StartDownload, TypeOK
  <1> QED BY <1>1, <1>2, <1>3, <1>4 DEF Request

\* A step of the update loop or of the self-update.
LEMMA UpdateKeepsLock ==
  ASSUME LockInv, Update
  PROVE  LockInv'
  <1> USE DEF LockInv
  <1>1. Updater \in Actor /\ Updater \notin Task BY ActorsAssumption DEF Actor
  <1>2. task[Updater].pc # "free" => up BY <1>1, BusyMeansUp
  <1>3. CASE UpdateFetch
    <2> DEFINE x == [op |-> "update", pc |-> "fetching", model |-> NoModel,
                     victim |-> NoPid]
    <2>1. x \in Activity /\ x.pc = "fetching" BY DEF Activity, AllOps, PC
    <2>2. task' \in [Actor -> Activity] /\ LockDiscipline' /\ TaskShape'
      BY <1>3, <2>1, LoopMoveKeepsLock DEF UpdateFetch
    <2> QED BY <1>3, <2>2 DEF UpdateFetch, TypeOK
  <1>4. CASE UpdateAbandoned \/ UpdateMoveFails
    <2>1. Free \in Activity BY DEF Free, Activity, AllOps, PC
    <2>2. task[Updater].pc # "free"
      BY <1>4 DEF UpdateAbandoned, UpdateMoveFails, Swapping
    <2>3. task' \in [Actor -> Activity] /\ LockDiscipline' /\ TaskShape'
      BY <1>2, <1>4, <2>1, <2>2, LoopMoveKeepsLock DEF UpdateAbandoned, UpdateMoveFails
    <2> QED BY <1>4, <2>3 DEF UpdateAbandoned, UpdateMoveFails, TypeOK
  <1>5. CASE UpdateStops
    <2>1. task' \in [Actor -> Activity] /\ ref' \in Pid \cup {NoPid}
          /\ LockDiscipline' /\ TaskShape'
      BY <1>1, <1>2, <1>5, BeginKeepsLock DEF UpdateStops, AllOps, PC
    <2> QED BY <1>5, <2>1 DEF UpdateStops, TypeOK
  <1>6. CASE UpdateStopped
    <2> DEFINE x == [task[Updater] EXCEPT !.pc = "swapped", !.victim = NoPid]
    <2>1. x \in Activity /\ x.pc = "swapped"
      BY <1>1 DEF TypeOK, Activity, PC
    <2>2. task' = [task EXCEPT ![Updater] = x]
      BY <1>1, <1>6 DEF UpdateStopped, EndStop, TypeOK, Activity
    <2>3. task' \in [Actor -> Activity] /\ LockDiscipline' /\ TaskShape'
      BY <1>2, <1>6, <2>1, <2>2, LoopMoveKeepsLock DEF UpdateStopped, EndStop
    <2> QED BY <1>6, <2>3 DEF UpdateStopped, EndStop, TypeOK
  <1>7. CASE UpdateRestarts
    <2>1. task[Updater].pc # "free" BY <1>7 DEF UpdateRestarts, Swapping
    <2>2. cur \in Model \cup {NoModel} BY DEF TypeOK
    <2>3. task' \in [Actor -> Activity] /\ ref' \in Pid \cup {NoPid}
          /\ LockDiscipline' /\ TaskShape'
      BY <1>1, <1>2, <1>7, <2>1, <2>2, BeginKeepsLock
      DEF UpdateRestarts, BeginStart, AllOps, PC
    <2> QED BY <1>7, <2>3 DEF UpdateRestarts, TypeOK
  <1> QED BY <1>3, <1>4, <1>5, <1>6, <1>7 DEF Update

\* Every step keeps the lock with one holder.
LEMMA NextKeepsLock == LockInv /\ [Next]_vars => LockInv'
  <1> SUFFICES ASSUME LockInv, [Next]_vars PROVE LockInv' OBVIOUS
  <1> USE DEF LockInv
  <1>1. CASE Boot
    <2>1. queue' \in Seq(Task) /\ task' \in [Actor -> Activity]
          /\ LockDiscipline' /\ TaskShape'
      BY <1>1, IdleKeepsLock DEF Boot, BootIdle, BootMissing, BootAutoload
    <2>2. CASE BootIdle
      BY <2>1, <2>2 DEF BootIdle, TypeOK
    <2>3. ASSUME NEW f \in Model, BootMissing(f) PROVE LockInv'
      BY <2>1, <2>3 DEF BootMissing, TypeOK, Status
    <2>4. ASSUME NEW f \in Model, NEW st \in {"serving", "loading", "dead"},
                 BootAutoload(f, st)
          PROVE LockInv'
      <3>1. load' \in Status BY <2>4 DEF BootAutoload, Status
      <3>2. Dead \in Process /\ [model |-> f, st |-> st] \in Process
        BY DEF Dead, Process
      <3>3. proc' \in [Pid -> Process] /\ ref' \in Pid \cup {NoPid}
        BY <2>4, <3>2 DEF BootAutoload, TypeOK
      <3> QED BY <2>1, <2>4, <3>1, <3>3 DEF BootAutoload, TypeOK
    <2> QED BY <1>1, <2>2, <2>3, <2>4 DEF Boot
  <1>2. CASE Request
    BY <1>2, RequestKeepsLock
  <1>3. CASE DownloadEnds
    <2>1. queue' \in Seq(Task) /\ task' \in [Actor -> Activity]
          /\ LockDiscipline' /\ TaskShape'
      BY <1>3, IdleKeepsLock DEF DownloadEnds
    <2> QED BY <1>3, <2>1 DEF DownloadEnds, TypeOK
  <1>4. CASE \E t \in Task : Locked(t)
    BY <1>4, LockedKeepsLock
  <1>5. CASE \E t \in Actor : Starting(t)
    BY <1>5, StartingKeepsLock
  <1>6. CASE Update
    BY <1>6, UpdateKeepsLock
  <1>7. CASE SelfUpdate
    <2>1. Heartbeat \in Actor /\ Heartbeat \notin Task BY ActorsAssumption DEF Actor
    <2>2. task' \in [Actor -> Activity] /\ ref' \in Pid \cup {NoPid}
          /\ LockDiscipline' /\ TaskShape'
      BY <1>7, <2>1, BeginKeepsLock DEF SelfUpdate, AllOps, PC
    <2> QED BY <1>7, <2>2 DEF SelfUpdate, TypeOK
  <1>8. CASE Exit
    <2>1. AllFree \in [Actor -> Activity] /\ AllDead \in [Pid -> Process]
          /\ Idle \in Status
      BY DEF AllFree, Free, Activity, AllOps, PC, AllDead, Dead, Process, Idle, Status
    <2>2. TypeOK'
      <3>1. << >> \in Seq(Task) OBVIOUS
      <3>2. up' \in BOOLEAN /\ load' \in Status /\ queue' \in Seq(Task)
            /\ disk' \subseteq Model
        BY <1>8, <2>1, <3>1 DEF Exit, TypeOK
      <3>3. task' \in [Actor -> Activity] /\ proc' \in [Pid -> Process]
        BY <1>8, <2>1 DEF Exit
      <3>4. ref' = NoPid /\ cur' = NoModel /\ fetch' = NoModel
        BY <1>8 DEF Exit
      <3> QED BY <3>2, <3>3, <3>4 DEF TypeOK
    <2>3. \A t \in Actor : task'[t] = Free BY <1>8 DEF Exit, AllFree
    <2>4. LockDiscipline' /\ TaskShape'
      BY <1>8, <2>3 DEF Exit, LockDiscipline, TaskShape, Free, Working, Actor
    <2> QED BY <2>2, <2>4
  <1>9. CASE Processes
    <2>1. queue' \in Seq(Task) /\ task' \in [Actor -> Activity]
          /\ LockDiscipline' /\ TaskShape'
      BY <1>9, IdleKeepsLock DEF Processes, Serves, Dies
    <2>2. Dead \in Process BY DEF Dead, Process
    <2>3. proc' \in [Pid -> Process]
      BY <1>9, <2>2 DEF Processes, Serves, Dies, TypeOK, Process
    <2> QED BY <1>9, <2>1, <2>3 DEF Processes, Serves, Dies, TypeOK
  <1>10. CASE UNCHANGED vars
    <2>1. LockDiscipline' /\ TaskShape'
      BY <1>10, IdleKeepsLock DEF vars
    <2> QED BY <1>10, <2>1 DEF vars, TypeOK
  <1> QED BY <1>1, <1>2, <1>3, <1>4, <1>5, <1>6, <1>7, <1>8, <1>9, <1>10 DEF Next

\* The agent starts with a free lock.
LEMMA InitHasLock == Init => LockInv
  <1> SUFFICES ASSUME Init PROVE LockInv OBVIOUS
  <1>1. AllFree \in [Actor -> Activity] /\ AllDead \in [Pid -> Process]
        /\ Idle \in Status
    BY DEF AllFree, Free, Activity, AllOps, PC, AllDead, Dead, Process, Idle, Status
  <1>2. TypeOK
    <2>1. << >> \in Seq(Task) OBVIOUS
    <2>2. up \in BOOLEAN /\ load \in Status /\ queue \in Seq(Task)
          /\ disk \subseteq Model
      BY <1>1, <2>1 DEF Init
    <2>3. task \in [Actor -> Activity] /\ proc \in [Pid -> Process]
      BY <1>1 DEF Init
    <2>4. ref = NoPid /\ cur = NoModel /\ fetch = NoModel
      BY DEF Init
    <2> QED BY <2>2, <2>3, <2>4 DEF TypeOK
  <1>3. \A t \in Actor : task[t] = Free BY DEF Init, AllFree
  <1>4. LockDiscipline /\ TaskShape
    BY <1>3 DEF Init, LockDiscipline, TaskShape, Free, Working, Actor
  <1> QED BY <1>2, <1>4 DEF LockInv

\* The invariant of the lock holds in every state of the agent.
LEMMA LockInvariant == Spec => []LockInv
  BY InitHasLock, NextKeepsLock, PTL DEF Spec

\* Every variable of the agent keeps its type.
THEOREM TypeCorrect == Spec => []TypeOK
  <1>1. LockInv => TypeOK BY DEF LockInv
  <1> QED BY <1>1, LockInvariant, PTL

\* The operations that take _load_lock never overlap in LlamaServer, however
\* many requests are queued and whatever the loops of main.py do.
THEOREM LockIsExclusive == Spec => []LockDiscipline
  <1>1. LockInv => LockDiscipline BY DEF LockInv
  <1> QED BY <1>1, LockInvariant, PTL

-----------------------------------------------------------------------------
(* A published loading always has a load or a restart that will end it: a  *)
(* request keeps its operation until it ends, and ends with a new status.  *)

OwnerInv == LockInv /\ LoadingHasOwner

\* A change of one actor that keeps its operation keeps the owners.
LEMMA SameOpKeepsOwner ==
  ASSUME LockInv, LoadingHasOwner, NEW t \in Actor, NEW x,
         task' = [task EXCEPT ![t] = x], x.op = task[t].op \/ t \notin Task,
         load' = load \/ load'.state # "loading"
  PROVE  LoadingHasOwner'
  <1>1. \A u \in Task : task'[u].op = task[u].op
    BY DEF LockInv, TypeOK, Actor
  <1> QED BY <1>1 DEF LoadingHasOwner

\* What begins by stopping the server leaves the loading to the task that owns it.
LEMMA BeginKeepsOwner ==
  ASSUME LockInv, LoadingHasOwner, NEW t \in Actor, NEW op, NEW m, NEW exit,
         NEW drain, NEW after, BeginStop(t, op, m, exit, drain, after),
         op = task[t].op \/ t \notin Task, load' = load
  PROVE  LoadingHasOwner'
  <1>1. PICK pc \in {exit, drain, after}, v \in Pid \cup {NoPid} :
          task' = [task EXCEPT ![t] = [op |-> op, model |-> m,
                                       pc |-> pc, victim |-> v]]
    BY BeginStopSpec DEF LockInv
  <1> DEFINE x == [op |-> op, model |-> m, pc |-> pc, victim |-> v]
  <1>2. x.op = task[t].op \/ t \notin Task OBVIOUS
  <1> HIDE DEF x
  <1> QED BY <1>1, <1>2, SameOpKeepsOwner DEF x

\* No step leaves a published loading without its owner.
LEMMA NextKeepsOwner == OwnerInv /\ [Next]_vars => LoadingHasOwner'
  <1> SUFFICES ASSUME LockInv, LoadingHasOwner, [Next]_vars PROVE LoadingHasOwner'
    BY DEF OwnerInv
  <1>0. task \in [Actor -> Activity] /\ load \in Status BY DEF LockInv, TypeOK
  <1>1. CASE Boot
    BY <1>1 DEF Boot, BootIdle, BootMissing, BootAutoload, LoadingHasOwner
  <1>2. CASE Request
    <2>1. ASSUME NEW t \in Task, NEW f \in Model, LoadModel(t, f)
          PROVE LoadingHasOwner'
      <3>1. task'[t].op = "load" BY <1>0, <2>1 DEF LoadModel, AcceptLoad, Actor
      <3> QED BY <3>1 DEF LoadingHasOwner
    <2>2. ASSUME NEW t \in Task, UnloadModel(t) PROVE LoadingHasOwner'
      BY <1>0, <2>2 DEF UnloadModel, LoadingHasOwner, Idle
    <2>3. ASSUME NEW t \in Task, PatchConfig(t) PROVE LoadingHasOwner'
      <3>1. task[t].op = "none" /\ load' = load BY <2>3 DEF PatchConfig, Free
      <3>2. \A u \in Task : u # t => task'[u] = task[u]
        BY <1>0, <2>3 DEF PatchConfig, Actor
      <3> QED BY <3>1, <3>2 DEF LoadingHasOwner
    <2>4. ASSUME NEW f \in Model, DeleteModel(f) \/ StartDownload(f)
          PROVE LoadingHasOwner'
      BY <2>4 DEF DeleteModel, StartDownload, LoadingHasOwner
    <2> QED BY <1>2, <2>1, <2>2, <2>3, <2>4 DEF Request
  <1>3. CASE DownloadEnds
    BY <1>3 DEF DownloadEnds, LoadingHasOwner
  <1>4. ASSUME NEW t \in Task, Locked(t) PROVE LoadingHasOwner'
    <2>1. t \in Actor BY DEF Actor
    <2>2. CASE LoadTask(t)
      BY <2>1, <2>2, BeginKeepsOwner DEF LoadTask, BeginStart
    <2>3. CASE UnloadLocked(t) /\ StopWait # "none"
      BY <2>1, <2>3, BeginKeepsOwner DEF UnloadLocked
    <2>4. CASE UnloadLocked(t) /\ StopWait = "none"
      BY <2>4 DEF UnloadLocked, Idle, LoadingHasOwner
    <2>5. CASE Unloaded(t)
      BY <2>5 DEF Unloaded, Idle, LoadingHasOwner
    <2>6. CASE RestartTask(t)
      <3>1. BeginStop(t, "restart", cur, "stopping", "draining", "spawning")
        BY <2>6 DEF RestartTask, BeginStart
      <3>2. PICK pc, v :
              task' = [task EXCEPT ![t] = [op |-> "restart", model |-> cur,
                                           pc |-> pc, victim |-> v]]
        BY <2>1, <3>1, BeginStopSpec DEF LockInv
      <3>3. task'[t].op = "restart" BY <1>0, <2>1, <3>2
      <3> QED BY <3>3 DEF LoadingHasOwner
    <2> QED BY <1>4, <2>2, <2>3, <2>4, <2>5, <2>6 DEF Locked
  <1>5. ASSUME NEW t \in Actor, Starting(t) PROVE LoadingHasOwner'
    <2>1. CASE Stopped(t) \/ Drained(t) \/ Spawned(t)
      <3>1. task'[t].op = task[t].op /\ load' = load
            /\ \A u \in Actor : u # t => task'[u] = task[u]
        BY <1>0, <2>1 DEF Stopped, EndStop, Drained, Spawned, Activity
      <3> QED BY <3>1 DEF LoadingHasOwner, Actor
    <2>2. CASE Healthy(t) \/ ExitSeen(t) \/ StartTimeout(t) \/ SpawnFails(t)
      <3>1. Finish(t)
        BY <2>2 DEF Healthy, ExitSeen, StartTimeout, SpawnFails, Failed
      <3>2. CASE t \in Task
        <4>1. load'.state # "loading"
          BY <1>0, <2>2, <3>2
          DEF Healthy, ExitSeen, StartTimeout, SpawnFails, Failed, Status
        <4> QED BY <4>1 DEF LoadingHasOwner
      <3>3. CASE t \notin Task
        <4>1. load' = load
          BY <2>2, <3>3 DEF Healthy, ExitSeen, StartTimeout, SpawnFails, Failed
        <4>2. \A u \in Task : task'[u] = task[u]
          BY <1>0, <3>1, <3>3 DEF Finish, Actor
        <4> QED BY <4>1, <4>2 DEF LoadingHasOwner
      <3> QED BY <3>2, <3>3
    <2> QED BY <1>5, <2>1, <2>2 DEF Starting
  <1>6. CASE Update
    <2>1. Updater \in Actor /\ Updater \notin Task /\ load' = load
      BY <1>6, ActorsAssumption
      DEF Actor, Update, UpdateFetch, UpdateAbandoned, UpdateStops, UpdateStopped,
          EndStop, UpdateRestarts, UpdateMoveFails
    <2>2. CASE UpdateStops \/ UpdateRestarts
      BY <2>1, <2>2, BeginKeepsOwner DEF UpdateStops, UpdateRestarts, BeginStart
    <2>3. CASE UpdateFetch \/ UpdateAbandoned \/ UpdateStopped \/ UpdateMoveFails
      <3>1. \A u \in Task : task'[u] = task[u]
        BY <1>0, <2>1, <2>3
        DEF UpdateFetch, UpdateAbandoned, UpdateStopped, EndStop, UpdateMoveFails, Actor
      <3> QED BY <2>1, <3>1 DEF LoadingHasOwner
    <2> QED BY <1>6, <2>2, <2>3 DEF Update
  <1>7. CASE SelfUpdate
    <2>1. Heartbeat \in Actor /\ Heartbeat \notin Task BY ActorsAssumption DEF Actor
    <2> QED BY <1>7, <2>1, BeginKeepsOwner DEF SelfUpdate
  <1>8. CASE Exit
    BY <1>8 DEF Exit, Idle, LoadingHasOwner
  <1>9. CASE Processes
    BY <1>9 DEF Processes, Serves, Dies, LoadingHasOwner
  <1>10. CASE UNCHANGED vars
    BY <1>10 DEF vars, LoadingHasOwner
  <1> QED BY <1>1, <1>2, <1>3, <1>4, <1>5, <1>6, <1>7, <1>8, <1>9, <1>10 DEF Next

\* The 409 answers of /models/load and /models/unload cannot last for ever:
\* whatever says "loading" is pending, in every interleaving of the requests
\* and of the loops that do not take the lock.
THEOREM LoadingIsOwned == Spec => []LoadingHasOwner
  <1>1. Init => OwnerInv
    BY InitHasLock DEF OwnerInv, Init, Idle, LoadingHasOwner
  <1>2. OwnerInv /\ [Next]_vars => OwnerInv'
    BY NextKeepsLock, NextKeepsOwner DEF OwnerInv
  <1>3. OwnerInv => LoadingHasOwner BY DEF OwnerInv
  <1> QED BY <1>1, <1>2, <1>3, PTL DEF Spec

\* Both together, which the runs check as one property.
THEOREM TasksStayOrderly == Spec => []TasksAreOrderly
  <1>1. LockDiscipline /\ LoadingHasOwner => TasksAreOrderly BY DEF TasksAreOrderly
  <1> QED BY <1>1, LockIsExclusive, LoadingIsOwned, PTL

-----------------------------------------------------------------------------
(* Without the update loop no llama-server is ever left behind.  The heart *)
(* of the invariant: a process someone is stopping is the referenced one,  *)
(* or the reference is already gone; and whoever is about to spawn holds   *)
(* the lock and has seen every process die.                                *)

LeakInv ==
  /\ NoLeak
  /\ task[Updater] = Free
  /\ task[Heartbeat].pc \in {"free", "stopping", "draining"}
  /\ task[Heartbeat].op \in {"none", "selfupdate"}
  /\ \A t \in Actor : task[t].victim # NoPid =>
       task[t].pc = "stopping" /\ task[t].victim \in {ref} \cup {p \in Pid : ref = NoPid}
  /\ \A t \in Actor : task[t].pc = "stopping" => task[t].victim # NoPid
  /\ \A t \in Task : task[t].pc \in {"draining", "spawning"} =>
       \A p \in Pid : ~Alive(p)
  /\ ~up => \A p \in Pid : ~Alive(p)

FullInv == LockInv /\ LeakInv

\* stop() kills the referenced process, or finds that there is none left.
LEMMA BeginKeepsLeak ==
  ASSUME FullInv, up, up' = up, proc' = proc, NEW t \in Actor, t # Updater,
         NEW op, NEW m, NEW after, BeginStop(t, op, m, "stopping", "draining", after),
         t = Heartbeat => op = "selfupdate" /\ after = "draining",
         t \in Task => after \in {"spawning", "free"}
  PROVE  LeakInv'
  <1>0. TypeOK /\ task \in [Actor -> Activity] /\ NoPid \notin Pid
    BY ActorsAssumption DEF FullInv, LockInv, TypeOK
  <1>1. PICK pc \in {"stopping", "draining", after}, v \in Pid \cup {NoPid} :
          /\ task' = [task EXCEPT ![t] = [op |-> op, model |-> m,
                                          pc |-> pc, victim |-> v]]
          /\ ref' \in {ref, NoPid}
          /\ v # NoPid => v = ref /\ Running /\ ref' = ref /\ pc = "stopping"
          /\ v = NoPid => ref' = NoPid /\ ~Running /\ pc \in {"draining", after}
    BY <1>0, BeginStopSpec
  <1>2. task'[t] = [op |-> op, model |-> m, pc |-> pc, victim |-> v]
        /\ \A u \in Actor : u # t => task'[u] = task[u]
    BY <1>0, <1>1
  <1>3. \A p \in Pid : Alive(p)' <=> Alive(p) BY DEF Alive
  <1>4. ~Running => \A p \in Pid : ~Alive(p)
    BY <1>0 DEF FullInv, LeakInv, NoLeak, Running
  <1>5. NoLeak' BY <1>0, <1>1, <1>3, <1>4 DEF FullInv, LeakInv, NoLeak, Running
  <1>6. task'[Updater] = Free BY <1>2 DEF FullInv, LeakInv, Actor
  <1>7. task'[Heartbeat].pc \in {"free", "stopping", "draining"}
        /\ task'[Heartbeat].op \in {"none", "selfupdate"}
    BY <1>1, <1>2 DEF FullInv, LeakInv, Actor
  <1>8. ASSUME NEW u \in Actor, task'[u].victim # NoPid
        PROVE  task'[u].pc = "stopping"
               /\ task'[u].victim \in {ref'} \cup {p \in Pid : ref' = NoPid}
    <2>1. CASE u = t BY <1>1, <1>2, <1>8, <2>1
    <2>2. CASE u # t
      <3>1. task[u].pc = "stopping" /\ task'[u] = task[u]
            /\ task[u].victim \in {ref} \cup {p \in Pid : ref = NoPid}
            /\ task[u].victim \in Pid \cup {NoPid}
        BY <1>0, <1>2, <1>8, <2>2 DEF FullInv, LeakInv, Activity
      <3> QED BY <1>0, <1>1, <1>8, <3>1
    <2> QED BY <2>1, <2>2
  <1>9. ASSUME NEW u \in Task, task'[u].pc \in {"draining", "spawning"}
        PROVE  \A p \in Pid : ~Alive(p)'
    <2>1. CASE u = t
      <3>1. ~Running BY <1>1, <1>2, <1>9, <2>1
      <3> QED BY <1>3, <1>4, <3>1
    <2>2. CASE u # t BY <1>2, <1>3, <1>9, <2>2 DEF FullInv, LeakInv, Actor
    <2> QED BY <2>1, <2>2
  <1>10. ASSUME NEW u \in Actor, task'[u].pc = "stopping"
         PROVE  task'[u].victim # NoPid
    <2>1. CASE u # t BY <1>2, <1>10, <2>1 DEF FullInv, LeakInv
    <2>2. CASE u = t
      <3>1. t \in Task \/ t = Heartbeat BY DEF Actor
      <3>2. after # "stopping" BY <3>1
      <3>3. pc = "stopping" BY <1>2, <1>10, <2>2
      <3>4. v # NoPid BY <1>1, <3>2, <3>3
      <3> QED BY <1>2, <2>2, <3>4
    <2> QED BY <2>1, <2>2
  <1> QED BY <1>5, <1>6, <1>7, <1>8, <1>9, <1>10 DEF LeakInv

\* A step that changes no process and no reference, and frees an actor or
\* gives it a pc that makes no claim.
LEMMA CalmKeepsLeak ==
  ASSUME FullInv, up' = up, proc' = proc, ref' = ref, NEW t \in Task, NEW x,
         task' = [task EXCEPT ![t] = x], x.victim = NoPid,
         x.pc \notin {"stopping", "draining", "spawning"}
  PROVE  LeakInv'
  <1>0. task \in [Actor -> Activity] BY DEF FullInv, LockInv, TypeOK
  <1>1. t \in Actor /\ t # Updater /\ t # Heartbeat BY ActorsAssumption DEF Actor
  <1>2. task'[t] = x /\ \A u \in Actor : u # t => task'[u] = task[u]
    BY <1>0, <1>1
  <1>3. \A p \in Pid : Alive(p)' <=> Alive(p) BY DEF Alive
  <1> QED BY <1>1, <1>2, <1>3 DEF FullInv, LeakInv, NoLeak, Actor

\* The steps from a stopped server to a new one keep at most one alive.
LEMMA StartingKeepsLeak ==
  ASSUME FullInv, NEW t \in Actor, Starting(t)
  PROVE  LeakInv'
  <1>0. TypeOK /\ task \in [Actor -> Activity] /\ NoPid \notin Pid
        /\ (ref \in Pid \cup {NoPid})
    BY ActorsAssumption DEF FullInv, LockInv, TypeOK
  <1>1. task[t].pc \in Working /\ up' = up
    BY DEF Starting, Stopped, EndStop, Drained, Spawned, Healthy, ExitSeen,
           StartTimeout, SpawnFails, Working
  <1>2. t # Updater BY <1>1 DEF FullInv, LeakInv, Free, Working
  <1>3. up BY <1>1, BusyMeansUp DEF FullInv, Working
  <1>4. CASE Stopped(t)
    <2>1. task[t].pc = "stopping" /\ ~Alive(task[t].victim) /\ ref' = NoPid
          /\ proc' = proc /\ task' = [task EXCEPT ![t].pc = "draining",
                                                  ![t].victim = NoPid]
      BY <1>4 DEF Stopped, EndStop
    <2>2. /\ task'[t] = [task[t] EXCEPT !.pc = "draining", !.victim = NoPid]
          /\ \A u \in Actor : u # t => task'[u] = task[u]
      BY <1>0, <2>1 DEF Activity
    <2>3. task'[t].pc = "draining" /\ task'[t].victim = NoPid
          /\ task'[t].op = task[t].op
      BY <1>0, <2>2 DEF Activity
    <2>4. \A p \in Pid : ~Alive(p)
      <3>1. task[t].victim # NoPid BY <2>1 DEF FullInv, LeakInv
      <3> QED BY <1>0, <2>1, <3>1 DEF FullInv, LeakInv, NoLeak
    <2>5. \A p \in Pid : ~Alive(p)' BY <2>1, <2>4 DEF Alive
    <2>6. ASSUME NEW u \in Actor, task'[u].victim # NoPid
          PROVE  task'[u].pc = "stopping"
                 /\ task'[u].victim \in {ref'} \cup {p \in Pid : ref' = NoPid}
      BY <1>0, <2>1, <2>2, <2>3, <2>6 DEF FullInv, LeakInv, Activity
    <2>7. task'[Updater] = Free /\ task'[Heartbeat].pc \in {"free", "stopping", "draining"}
          /\ task'[Heartbeat].op \in {"none", "selfupdate"}
      BY <1>2, <2>2, <2>3 DEF FullInv, LeakInv, Actor
    <2>8. \A u \in Actor : task'[u].pc = "stopping" => task'[u].victim # NoPid
      BY <2>2, <2>3 DEF FullInv, LeakInv
    <2> QED BY <1>1, <1>3, <2>5, <2>6, <2>7, <2>8 DEF LeakInv, NoLeak
  <1>5. CASE Drained(t)
    <2>1. t \in Task
      BY <1>2, <1>5 DEF Drained, Starts, FullInv, LeakInv, Actor
    <2>2. task[t].pc = "draining" /\ task' = [task EXCEPT ![t].pc = "spawning"]
          /\ proc' = proc /\ ref' = ref
      BY <1>5 DEF Drained
    <2>3. task'[t].pc = "spawning" /\ task'[t].victim = task[t].victim
          /\ \A u \in Actor : u # t => task'[u] = task[u]
      BY <1>0, <2>2 DEF Activity
    <2>4. \A p \in Pid : ~Alive(p) /\ ~Alive(p)'
      BY <2>1, <2>2 DEF FullInv, LeakInv, Alive
    <2>5. t # Heartbeat BY <2>1, ActorsAssumption
    <2> QED BY <1>2, <1>3, <1>1, <2>2, <2>3, <2>4, <2>5
            DEF FullInv, LeakInv, NoLeak, Actor
  <1>6. CASE Spawned(t)
    <2>1. t \in Task /\ t # Heartbeat
      BY <1>2, <1>6, ActorsAssumption DEF Spawned, FullInv, LeakInv, Actor
    <2>2. \A p \in Pid : ~Alive(p)
      BY <1>6, <2>1 DEF Spawned, FullInv, LeakInv
    <2>3. \A u \in Actor : task[u].victim = NoPid
      BY <1>0, <1>6, <2>2 DEF Spawned, Activity
    <2>4. PICK p \in Pid : proc' = [proc EXCEPT ![p] = Born(task[t].model)] /\ ref' = p
      BY <1>6 DEF Spawned
    <2>5. task' = [task EXCEPT ![t].pc = "starting"] BY <1>6 DEF Spawned
    <2>6. task'[t].pc = "starting" /\ task'[t].victim = NoPid
          /\ \A u \in Actor : u # t => task'[u] = task[u]
      BY <1>0, <2>3, <2>5 DEF Activity
    <2>7. NoLeak'
      <3>1. \A q \in Pid : q # p => proc'[q] = proc[q]
        BY <1>0, <2>4 DEF TypeOK
      <3> QED BY <2>2, <2>4, <3>1 DEF NoLeak, Alive
    <2>8. ASSUME NEW u \in Task PROVE task'[u].pc \notin {"draining", "spawning"}
      <3>1. CASE u = t BY <2>6, <3>1
      <3>2. CASE u # t
        <4>1. Holder(t) BY <1>1, <2>1 DEF FullInv, LockInv, LockDiscipline
        <4>2. task[u].pc \notin Working
          BY <3>2, <4>1 DEF FullInv, LockInv, LockDiscipline, Holder
        <4> QED BY <2>6, <3>2, <4>2 DEF Working, Actor
      <3> QED BY <3>1, <3>2
    <2>9. \A u \in Actor : task'[u].victim = NoPid /\ task'[u].pc # "stopping"
      BY <2>3, <2>6 DEF FullInv, LeakInv
    <2> QED BY <1>1, <1>2, <1>3, <2>1, <2>6, <2>7, <2>8, <2>9
            DEF FullInv, LeakInv, Actor
  <1>7. CASE Healthy(t) \/ ExitSeen(t) \/ StartTimeout(t) \/ SpawnFails(t)
    <2>1. task[t].pc \in {"starting", "spawning"}
      BY <1>7 DEF Healthy, ExitSeen, StartTimeout, SpawnFails
    <2>2. t \in Task BY <1>2, <2>1 DEF FullInv, LeakInv, Actor
    <2>3. task' = [task EXCEPT ![t] = Free] /\ proc' = proc /\ ref' = ref
      BY <1>7 DEF Healthy, ExitSeen, StartTimeout, SpawnFails, Failed, Finish
    <2>4. Free.victim = NoPid /\ Free.pc = "free" BY DEF Free
    <2> QED BY <1>1, <2>2, <2>3, <2>4, CalmKeepsLeak
  <1> QED BY <1>4, <1>5, <1>6, <1>7 DEF Starting

\* A step that changes neither the processes nor the actors keeps LeakInv.
LEMMA StillKeepsLeak ==
  ASSUME FullInv, UNCHANGED <<task, proc, ref>>,
         up' = up \/ \A p \in Pid : ~Alive(p)
  PROVE  LeakInv'
  BY DEF FullInv, LeakInv, NoLeak, Alive

\* A step of the task that holds the lock loses no server.
LEMMA LockedKeepsLeak ==
  ASSUME FullInv, NEW t \in Task, Locked(t)
  PROVE  LeakInv'
  <1>0. TypeOK /\ task \in [Actor -> Activity] /\ t \in Actor
        /\ t # Updater /\ t # Heartbeat
    BY ActorsAssumption DEF FullInv, LockInv, TypeOK, Actor
  <1>1. task[t].pc # "free" /\ up' = up /\ proc' = proc
    BY DEF Locked, LoadTask, UnloadLocked, RestartTask, Unloaded
  <1>2. up BY <1>0, <1>1, BusyMeansUp DEF FullInv
  <1>3. Free.victim = NoPid /\ Free.pc = "free" BY DEF Free
  <1>4. CASE LoadTask(t) \/ RestartTask(t)
    <2>1. PICK op, m : BeginStop(t, op, m, "stopping", "draining", "spawning")
      BY <1>4 DEF LoadTask, RestartTask, BeginStart
    <2> QED BY <1>0, <1>1, <1>2, <2>1, BeginKeepsLeak
  <1>5. CASE UnloadLocked(t)
    <2>1. CASE StopWait # "none"
      <3>1. BeginStop(t, "unload", NoModel, "stopping", "draining", "free")
        BY <1>5, <2>1 DEF UnloadLocked
      <3> QED BY <1>0, <1>1, <1>2, <3>1, BeginKeepsLeak
    <2>2. CASE StopWait = "none"
      <3>1. ref' = ref /\ task' = [task EXCEPT ![t] = Free]
        BY <1>5, <2>2 DEF UnloadLocked, Finish
      <3> QED BY <1>1, <1>3, <3>1, CalmKeepsLeak
    <2> QED BY <2>1, <2>2
  <1>6. CASE Unloaded(t)
    <2>1. ref' = ref /\ task' = [task EXCEPT ![t] = Free]
      BY <1>6 DEF Unloaded, Finish
    <2> QED BY <1>1, <1>3, <2>1, CalmKeepsLeak
  <1> QED BY <1>4, <1>5, <1>6 DEF Locked

\* A request starts and stops no server.
LEMMA RequestKeepsLeak ==
  ASSUME FullInv, Request
  PROVE  LeakInv'
  <1>1. CASE \E f \in Model : DeleteModel(f) \/ StartDownload(f)
    BY <1>1, StillKeepsLeak DEF DeleteModel, StartDownload
  <1>2. ASSUME NEW t \in Task, NEW f \in Model, LoadModel(t, f)
        PROVE  LeakInv'
    <2> DEFINE x == [op |-> "load", pc |-> "waiting", model |-> f, victim |-> NoPid]
    <2>1. task' = [task EXCEPT ![t] = x] /\ up' = up /\ proc' = proc /\ ref' = ref
      BY <1>2 DEF LoadModel, AcceptLoad
    <2>2. x.victim = NoPid /\ x.pc = "waiting" OBVIOUS
    <2> HIDE DEF x
    <2> QED BY <2>1, <2>2, CalmKeepsLeak
  <1>3. ASSUME NEW t \in Task, PatchConfig(t) PROVE LeakInv'
    <2> DEFINE x == [op |-> "restart", pc |-> "waiting", model |-> NoModel,
                     victim |-> NoPid]
    <2>1. task' = [task EXCEPT ![t] = x] /\ up' = up /\ proc' = proc /\ ref' = ref
      BY <1>3 DEF PatchConfig
    <2>2. x.victim = NoPid /\ x.pc = "waiting" OBVIOUS
    <2> HIDE DEF x
    <2> QED BY <2>1, <2>2, CalmKeepsLeak
  <1>4. ASSUME NEW t \in Task, UnloadModel(t) PROVE LeakInv'
    <2>1. up /\ up' = up /\ proc' = proc BY <1>4 DEF UnloadModel
    <2>2. CASE queue # << >>
      <3> DEFINE x == [op |-> "unload", pc |-> "waiting", model |-> NoModel,
                       victim |-> NoPid]
      <3>1. task' = [task EXCEPT ![t] = x] /\ ref' = ref
        BY <1>4, <2>2 DEF UnloadModel
      <3>2. x.victim = NoPid /\ x.pc = "waiting" OBVIOUS
      <3> HIDE DEF x
      <3> QED BY <2>1, <3>1, <3>2, CalmKeepsLeak
    <2>3. CASE queue = << >> /\ StopWait # "none"
      <3>1. BeginStop(t, "unload", NoModel, "stopping", "draining", "free")
        BY <1>4, <2>3 DEF UnloadModel
      <3>2. t \in Actor /\ t # Updater /\ t # Heartbeat
        BY ActorsAssumption DEF Actor
      <3> QED BY <2>1, <3>1, <3>2, BeginKeepsLeak
    <2>4. CASE queue = << >> /\ StopWait = "none"
      BY <1>4, <2>4, StillKeepsLeak DEF UnloadModel
    <2> QED BY <2>2, <2>3, <2>4
  <1> QED BY <1>1, <1>2, <1>3, <1>4 DEF Request

\* A boot starts at most the server of the last configuration.
LEMMA BootKeepsLeak ==
  ASSUME FullInv, Boot
  PROVE  LeakInv'
  <1>0. TypeOK /\ (\A p \in Pid : ~Alive(p)) /\ task' = task /\ up' = TRUE
        /\ task = AllFree
    <2>1. ~up /\ up' = TRUE /\ task' = task
      BY DEF Boot, BootIdle, BootMissing, BootAutoload
    <2> QED BY <2>1 DEF FullInv, LockInv, TaskShape, LeakInv
  <1>1. CASE BootIdle \/ \E f \in Model : BootMissing(f)
    BY <1>0, <1>1, StillKeepsLeak DEF BootIdle, BootMissing
  <1>2. CASE \E f \in Model, st \in {"serving", "loading", "dead"} : BootAutoload(f, st)
    <2>1. PICK p \in Pid : ref' = p /\ \E x : proc' = [proc EXCEPT ![p] = x]
      BY <1>2 DEF BootAutoload
    <2>2. \A q \in Pid : q # p => proc'[q] = proc[q]
      BY <1>0, <2>1 DEF TypeOK
    <2>3. NoLeak' BY <1>0, <2>1, <2>2 DEF NoLeak, Alive
    <2>4. \A t \in Actor : task'[t] = Free BY <1>0 DEF AllFree
    <2>5. Updater \in Actor /\ Heartbeat \in Actor BY DEF Actor
    <2> QED BY <1>0, <2>3, <2>4, <2>5 DEF LeakInv, Free, Actor
  <1> QED BY <1>1, <1>2 DEF Boot

\* No step loses a server that runs.
LEMMA NextKeepsLeak ==
  ASSUME FullInv, [Next]_vars, "update" \notin Ops
  PROVE  LeakInv'
  <1>0. TypeOK /\ NoPid \notin Pid BY ActorsAssumption DEF FullInv, LockInv
  <1>1. CASE Boot BY <1>1, BootKeepsLeak
  <1>2. CASE Request BY <1>2, RequestKeepsLeak
  <1>3. CASE DownloadEnds BY <1>3, StillKeepsLeak DEF DownloadEnds
  <1>4. CASE \E t \in Task : Locked(t) BY <1>4, LockedKeepsLeak
  <1>5. CASE \E t \in Actor : Starting(t) BY <1>5, StartingKeepsLeak
  <1>6. CASE Update
    <2>1. task[Updater].pc = "free" BY DEF FullInv, LeakInv, Free
    <2> QED BY <1>6, <2>1 DEF Update, UpdateFetch, UpdateAbandoned, UpdateStops,
              UpdateStopped, EndStop, UpdateRestarts, UpdateMoveFails, Swapping
  <1>7. CASE SelfUpdate
    <2>1. Heartbeat \in Actor /\ Heartbeat # Updater /\ Heartbeat \notin Task
      BY ActorsAssumption DEF Actor
    <2> QED BY <1>7, <2>1, BeginKeepsLeak DEF SelfUpdate
  <1>8. CASE Exit
    <2>1. \A p \in Pid : ~Alive(p)' BY <1>8 DEF Exit, AllDead, Dead, Alive
    <2>2. \A t \in Actor : task'[t] = Free BY <1>8 DEF Exit, AllFree
    <2>3. Updater \in Actor /\ Heartbeat \in Actor BY DEF Actor
    <2> QED BY <2>1, <2>2, <2>3 DEF LeakInv, NoLeak, Free, Actor
  <1>9. CASE Processes
    <2>1. PICK p \in Pid : Serves(p) \/ Dies(p) BY <1>9 DEF Processes
    <2>2. up' = up /\ task' = task /\ ref' = ref
      BY <2>1 DEF Serves, Dies
    <2>3. \A q \in Pid : Alive(q)' => Alive(q)
      BY <1>0, <2>1 DEF Serves, Dies, Alive, Dead, TypeOK, Process
    <2> QED BY <2>2, <2>3 DEF FullInv, LeakInv, NoLeak
  <1>10. CASE UNCHANGED vars BY <1>10, StillKeepsLeak DEF vars
  <1> QED BY <1>1, <1>2, <1>3, <1>4, <1>5, <1>6, <1>7, <1>8, <1>9, <1>10 DEF Next

\* In an agent that never updates llama.cpp, every llama-server that is alive
\* is the one the agent refers to: neither the requests, nor the deadline of
\* a start, nor a self-update leaves a process with the port and the memory.
THEOREM NoServerLeaks ==
  ASSUME "update" \notin Ops
  PROVE  Spec => []NoLeak
  <1>1. Init => FullInv
    <2>1. SUFFICES ASSUME Init PROVE LeakInv
      BY InitHasLock DEF FullInv
    <2>2. \A p \in Pid : ~Alive(p) BY <2>1 DEF Init, AllDead, Dead, Alive
    <2>3. \A t \in Actor : task[t] = Free BY <2>1 DEF Init, AllFree
    <2>4. Updater \in Actor /\ Heartbeat \in Actor BY DEF Actor
    <2> QED BY <2>2, <2>3, <2>4 DEF LeakInv, NoLeak, Free, Actor
  <1>2. FullInv /\ [Next]_vars => FullInv'
    BY NextKeepsLock, NextKeepsLeak DEF FullInv
  <1>3. FullInv => NoLeak BY DEF FullInv, LeakInv
  <1> QED BY <1>1, <1>2, <1>3, PTL DEF Spec

-----------------------------------------------------------------------------

(***************************************************************************)
(* A node whose server is only loaded keeps the contract the backend       *)
(* relies on: for any number of models, of chats and of loads that wait,   *)
(* AgentControl implements ModelSlot, a file that is published as ready    *)
(* is never answered for by another model, and the polling of a chat never *)
(* ends on one.                                                            *)
(*                                                                         *)
(* The contract speaks of the published state and of the model that        *)
(* answers; what connects them in the agent is the request that loads, and *)
(* SlotInv says how: there is one at a time, the published file is its     *)
(* own, and the process it has started runs it.                            *)
(***************************************************************************)

\* Loads are the only locked operation; without them there is no chat either.
LoadsOnly == "load" \in Ops /\ Ops \subseteq {"load", "delete", "download", "selfupdate", "exit"}

Busy(t) == task[t].pc # "free"

SlotInv ==
  /\ ~up => load = Idle
  /\ \A t \in Task : Busy(t) =>
       /\ task[t].op = "load" /\ task[t].model \in Model
       /\ load = [state |-> "loading", file |-> task[t].model]
  /\ \A t, u \in Task : Busy(t) /\ Busy(u) => t = u
  /\ \A t \in Task : task[t].pc = "starting" /\ Running => proc[ref].model = task[t].model
  /\ Running => proc[ref].model \in Model
  /\ Running /\ load.state # "loading" => load.state # "idle" /\ proc[ref].model = load.file

\* A step of the agent, seen from the backend.
SlotStep == Slot!Next \/ UNCHANGED <<load, Served>>

-----------------------------------------------------------------------------

\* Nothing answers for a node whose process does not serve.
LEMMA ServedValue ==
  /\ Running /\ Serving(ref) => Served = proc[ref].model
  /\ ~(Running /\ Serving(ref)) => Served = NoModel
BY DEF Served

\* What runs and what answers do not change with the published state.
LEMMA SameServer ==
  ASSUME UNCHANGED <<proc, ref>>
  PROVE  (Running' <=> Running) /\ Served' = Served
BY DEF Running, Alive, Serving, Served

\* A reference that is dropped was one to a process that is gone.
LEMMA DroppedServer ==
  ASSUME proc' = proc, ref' \in {ref, NoPid}, Running => ref' = ref
  PROVE  (Running' <=> Running) /\ Served' = Served /\ (Running => proc'[ref'] = proc[ref])
BY DEF Running, Alive, Serving, Served

\* Stopping the server keeps what the backend sees of it, until the process dies.
LEMMA StopKeepsSlot ==
  ASSUME FullInv, SlotInv, up' = up, load' = load, proc' = proc, ref' \in {ref, NoPid},
         Running => ref' = ref, NEW t \in Actor, NEW x \in Activity,
         task' = [task EXCEPT ![t] = x],
         t \in Task => Busy(t) /\ x.op = "load" /\ x.model = task[t].model /\ x.pc # "starting"
  PROVE  SlotInv' /\ SlotStep
<1>1. /\ task'[t] = x
      /\ \A u \in Task : u # t => task'[u] = task[u]
  BY DEF FullInv, LockInv, TypeOK, Actor
<1>2. (Running' <=> Running) /\ Served' = Served /\ (Running => proc'[ref'] = proc[ref])
  BY DroppedServer
<1>3. \A u \in Task : /\ Busy(u)' => Busy(u)
                      /\ Busy(u) => task'[u].op = "load" /\ task'[u].model = task[u].model
                      /\ task'[u].pc = "starting" => task[u].pc = "starting"
  BY <1>1 DEF Busy, SlotInv
<1>4. SlotInv'
  <2>1. \A u \in Task : Busy(u)' =>
          /\ task'[u].op = "load" /\ task'[u].model \in Model
          /\ load' = [state |-> "loading", file |-> task'[u].model]
    BY <1>3 DEF SlotInv
  <2>2. \A u, w \in Task : Busy(u)' /\ Busy(w)' => u = w
    BY <1>3 DEF SlotInv
  <2>3. \A u \in Task : task'[u].pc = "starting" /\ Running' => proc'[ref'].model = task'[u].model
    BY <1>2, <1>3 DEF SlotInv, Busy
  <2> QED
    BY <1>2, <2>1, <2>2, <2>3 DEF SlotInv
<1> QED
  BY <1>2, <1>4 DEF SlotStep

\* A load that is over: with its file served, or with an error.
LEMMA EndKeepsSlot ==
  ASSUME FullInv, SlotInv, UNCHANGED <<up, proc, ref>>, NEW t \in Task, Busy(t), NEW s,
         task' = [task EXCEPT ![t] = Free], load' = [load EXCEPT !.state = s],
         s = "error" \/ (s = "ready" /\ Served = task[t].model),
         Running => proc[ref].model = task[t].model
  PROVE  SlotInv' /\ SlotStep
<1>1. /\ task'[t] = Free
      /\ \A u \in Task : u # t => task'[u] = task[u]
  BY DEF FullInv, LockInv, TypeOK, Actor
<1>2. (Running' <=> Running) /\ Served' = Served
  BY SameServer
<1>3. load = [state |-> "loading", file |-> task[t].model]
  BY DEF SlotInv
<1>4. load' = [state |-> s, file |-> task[t].model]
  BY <1>3
<1>5. \A u \in Task : ~Busy(u)'
  BY <1>1 DEF SlotInv, Busy, Free
<1>6. up
  BY BusyMeansUp DEF FullInv, Busy, Actor
<1>7. SlotInv'
  BY <1>2, <1>4, <1>5, <1>6 DEF SlotInv, Busy
<1>8. SlotStep
  <2>1. CASE s = "error"
    BY <1>2, <1>3, <2>1 DEF SlotStep, Slot!Next, Slot!Fail
  <2>2. CASE s = "ready"
    BY <1>2, <1>3, <2>2 DEF SlotStep, Slot!Next, Slot!Ready
  <2> QED
    BY <2>1, <2>2
<1> QED
  BY <1>7, <1>8

\* Handlers that publish nothing and touch no process.
LEMMA StillKeepsSlot ==
  ASSUME SlotInv, UNCHANGED <<load, task, proc, ref>>, up' = up \/ load = Idle
  PROVE  SlotInv' /\ SlotStep
<1>1. (Running' <=> Running) /\ Served' = Served
  BY SameServer
<1> QED
  BY <1>1 DEF SlotInv, Busy, SlotStep

\* A load that is accepted finds no other one.
LEMMA AcceptKeepsSlot ==
  ASSUME FullInv, SlotInv, NEW t \in Task, NEW f \in Model, LoadModel(t, f)
  PROVE  SlotInv' /\ SlotStep
<1> DEFINE x == [op |-> "load", pc |-> "waiting", model |-> f, victim |-> NoPid]
<1>1. /\ load.state # "loading" /\ load' = [state |-> "loading", file |-> f]
      /\ task' = [task EXCEPT ![t] = x] /\ up /\ UNCHANGED <<up, proc, ref>>
  BY DEF LoadModel, LoadReply, AcceptLoad
<1>2. /\ task'[t] = x
      /\ \A u \in Task : u # t => task'[u] = task[u]
  BY <1>1 DEF FullInv, LockInv, TypeOK, Actor
<1>3. x.op = "load" /\ x.model = f /\ x.pc = "waiting"
  OBVIOUS
<1> HIDE DEF x
<1>4. (Running' <=> Running) /\ Served' = Served
  BY <1>1, SameServer
<1>5. \A u \in Task : ~Busy(u)
  BY <1>1 DEF SlotInv
<1>6. \A u \in Task : u # t => ~Busy(u)'
  BY <1>2, <1>5 DEF Busy
<1>7. SlotInv'
  <2>1. \A u \in Task : Busy(u)' =>
          /\ task'[u].op = "load" /\ task'[u].model \in Model
          /\ load' = [state |-> "loading", file |-> task'[u].model]
    BY <1>1, <1>2, <1>3, <1>6
  <2>2. \A u, w \in Task : Busy(u)' /\ Busy(w)' => u = w
    BY <1>6
  <2>3. \A u \in Task : task'[u].pc # "starting"
    BY <1>2, <1>3, <1>6 DEF Busy
  <2>4. load'.state = "loading"
    BY <1>1
  <2> QED
    BY <1>1, <1>4, <2>1, <2>2, <2>3, <2>4 DEF SlotInv
<1> QED
  BY <1>1, <1>4, <1>7 DEF SlotStep, Slot!Next, Slot!Request

\* The agent starts again: with nothing, with an error, or with the model of its boot.
LEMMA BootKeepsSlot ==
  ASSUME FullInv, SlotInv, Boot
  PROVE  SlotInv' /\ SlotStep
<1>1. ~up /\ up' = TRUE /\ task' = task /\ task = AllFree /\ load = Idle
  BY DEF Boot, BootIdle, BootMissing, BootAutoload, SlotInv, FullInv, LockInv, TaskShape
<1>2. (\A p \in Pid : ~Alive(p)) /\ ref \in Pid \cup {NoPid} /\ proc \in [Pid -> Process]
  BY <1>1 DEF FullInv, LeakInv, LockInv, TypeOK
<1>3. ~Running /\ \A t \in Task : ~Busy(t)'
  BY <1>1, <1>2 DEF Running, Busy, AllFree, Free, Actor
<1>4. CASE BootIdle
  BY <1>1, <1>4, StillKeepsSlot DEF BootIdle
<1>5. ASSUME NEW f \in Model, BootMissing(f)
      PROVE  SlotInv' /\ SlotStep
  <2>1. UNCHANGED <<proc, ref>> /\ load' = [state |-> "error", file |-> f]
    BY <1>5 DEF BootMissing
  <2>2. ~Running' /\ Served' = NoModel
    BY <1>3, <2>1, SameServer, ServedValue
  <2>3. SlotInv'
    BY <1>1, <1>3, <2>1, <2>2 DEF SlotInv, Busy
  <2>4. Slot!Boot(f)
    BY <1>1, <2>1, <2>2 DEF Slot!Boot, Slot!Idle, Idle
  <2> QED
    BY <2>3, <2>4 DEF SlotStep, Slot!Next
<1>6. ASSUME NEW f \in Model, NEW st \in {"serving", "loading", "dead"}, BootAutoload(f, st)
      PROVE  SlotInv' /\ SlotStep
  <2> DEFINE y == IF st = "dead" THEN Dead ELSE [model |-> f, st |-> st]
  <2>1. PICK p \in Pid : proc' = [proc EXCEPT ![p] = y] /\ ref' = p
    BY <1>6 DEF BootAutoload
  <2>2. load' = [state |-> IF st = "dead" THEN "error" ELSE "ready", file |-> f]
    BY <1>6 DEF BootAutoload
  <2>3. proc'[ref'] = y /\ ref' # NoPid
    BY <1>2, <2>1, ActorsAssumption
  <2>4. CASE st = "dead"
    <3>1. ~Running'
      BY <2>3, <2>4 DEF Running, Alive, Dead
    <3>2. Served' = NoModel
      BY <3>1, ServedValue DEF Served
    <3>3. SlotInv'
      BY <1>1, <1>3, <3>1 DEF SlotInv, Busy
    <3>4. Slot!Boot(f)
      BY <1>1, <2>2, <2>4, <3>2 DEF Slot!Boot, Slot!Idle, Idle
    <3> QED
      BY <3>3, <3>4 DEF SlotStep, Slot!Next
  <2>5. CASE st # "dead"
    <3>1. proc'[ref'].model = f /\ Served' \in {f, NoModel}
      BY <2>3, <2>5 DEF Served
    <3>2. load' = [state |-> "ready", file |-> f]
      BY <2>2, <2>5
    <3>3. SlotInv'
      BY <1>1, <1>3, <3>1, <3>2 DEF SlotInv, Busy
    <3>4. Slot!Boot(f)
      BY <1>1, <3>1, <3>2 DEF Slot!Boot, Slot!Idle, Idle
    <3> QED
      BY <3>3, <3>4 DEF SlotStep, Slot!Next
  <2> QED
    BY <2>4, <2>5
<1> QED
  BY <1>4, <1>5, <1>6 DEF Boot

\* A start() on its way, and its end.
LEMMA StartingKeepsSlot ==
  ASSUME FullInv, SlotInv, NEW t \in Actor, Starting(t)
  PROVE  SlotInv' /\ SlotStep
<1>0. /\ task \in [Actor -> Activity] /\ ref \in Pid \cup {NoPid} /\ proc \in [Pid -> Process]
      /\ NoPid \notin Pid
  BY ActorsAssumption DEF FullInv, LockInv, TypeOK
<1>1. /\ t # Updater
      /\ t \in Task => task[t].op = "load" /\ task[t].model \in Model /\ Busy(t)
      /\ t \notin Task => t = Heartbeat
  <2>1. task[t].pc \notin {"free"}
    BY DEF Starting, Stopped, EndStop, Drained, Spawned, Healthy, ExitSeen, StartTimeout, SpawnFails
  <2> QED
    BY <2>1 DEF FullInv, LeakInv, Free, Busy, SlotInv, Actor
<1>2. task[t].pc \notin {"stopping", "draining"} => t \in Task
  BY <1>1 DEF FullInv, LeakInv, Starting, Stopped, EndStop, Drained, Spawned, Healthy,
              ExitSeen, StartTimeout, SpawnFails
<1>3. CASE Stopped(t)
  <2> DEFINE x == [task[t] EXCEPT !.pc = "draining", !.victim = NoPid]
  <2>1. /\ x \in Activity /\ x.op = task[t].op /\ x.model = task[t].model /\ x.pc = "draining"
        /\ task' = [task EXCEPT ![t] = x]
    BY <1>0, <1>3 DEF Stopped, EndStop, Activity, PC
  <2>2. ~Running
    BY <1>0, <1>3 DEF Stopped, EndStop, FullInv, LeakInv, Running
  <2>3. UNCHANGED <<up, load, proc>> /\ ref' = NoPid
    BY <1>3 DEF Stopped, EndStop
  <2> HIDE DEF x
  <2> QED
    BY <1>1, <2>1, <2>2, <2>3, StopKeepsSlot
<1>4. CASE Drained(t)
  <2>1. t \in Task
    <3>1. task[t].op # "selfupdate" /\ task[t].op # "none"
      BY <1>4 DEF Drained, Starts
    <3> QED
      BY <1>1, <3>1 DEF FullInv, LeakInv
  <2> DEFINE x == [task[t] EXCEPT !.pc = "spawning"]
  <2>2. /\ x \in Activity /\ x.op = task[t].op /\ x.model = task[t].model /\ x.pc = "spawning"
        /\ task' = [task EXCEPT ![t] = x]
    BY <1>0, <1>4 DEF Drained, Activity, PC
  <2>3. UNCHANGED <<up, load, proc, ref>>
    BY <1>4 DEF Drained
  <2> HIDE DEF x
  <2> QED
    BY <1>0, <1>1, <2>1, <2>2, <2>3, StopKeepsSlot
<1>5. CASE Spawned(t)
  <2>1. t \in Task
    BY <1>2, <1>5 DEF Spawned
  <2>2. \A p \in Pid : ~Alive(p)
    BY <1>5, <2>1 DEF Spawned, FullInv, LeakInv
  <2>3. PICK p \in Pid : proc' = [proc EXCEPT ![p] = Born(task[t].model)] /\ ref' = p
    BY <1>5 DEF Spawned
  <2>4. UNCHANGED <<up, load>> /\ task' = [task EXCEPT ![t].pc = "starting"]
    BY <1>5 DEF Spawned
  <2>5. Served = NoModel
    BY <1>0, <2>2 DEF Served, Running
  <2>6. proc'[ref'].model = task[t].model /\ proc'[ref'].st # "serving"
    BY <1>0, <2>3 DEF Born
  <2>7. Served' = NoModel
    BY <2>6 DEF Served, Serving
  <2>8. \A u \in Task : /\ task'[u].op = task[u].op /\ task'[u].model = task[u].model
                        /\ Busy(u)' => Busy(u)
    <3>1. \A u \in Actor : u # t => task'[u] = task[u]
      BY <1>0, <2>4
    <3>2. task'[t].op = task[t].op /\ task'[t].model = task[t].model
      BY <1>0, <2>4 DEF Activity
    <3> QED
      BY <1>1, <2>1, <3>1, <3>2 DEF Actor, Busy
  <2>9. load = [state |-> "loading", file |-> task[t].model]
    BY <1>1, <2>1 DEF SlotInv
  <2>10. SlotInv'
    <3>1. \A u \in Task : Busy(u)' => u = t
      BY <1>1, <2>1, <2>8 DEF SlotInv
    <3>2. task[t].model \in Model
      BY <1>1, <2>1
    <3>3. up
      BY <1>1, <2>1, BusyMeansUp DEF FullInv, Busy
    <3>4. \A u \in Task : Busy(u)' => /\ task'[u].op = "load" /\ task'[u].model \in Model
                                      /\ load' = [state |-> "loading", file |-> task'[u].model]
      BY <1>1, <2>1, <2>4, <2>8, <2>9, <3>1
    <3>5. \A u \in Task : task'[u].pc = "starting" => proc'[ref'].model = task'[u].model
      BY <2>6, <2>8, <3>1 DEF Busy
    <3> QED
      BY <2>4, <2>6, <2>9, <3>1, <3>2, <3>3, <3>4, <3>5 DEF SlotInv
  <2> QED
    BY <2>4, <2>5, <2>7, <2>10 DEF SlotStep
<1>6. CASE Healthy(t)
  <2>1. t \in Task
    BY <1>2, <1>6 DEF Healthy
  <2>2. /\ Running /\ task[t].pc = "starting" /\ \E p \in Pid : Serving(p)
        /\ load' = [load EXCEPT !.state = "ready"] /\ task' = [task EXCEPT ![t] = Free]
        /\ UNCHANGED <<up, proc, ref>>
    BY <1>6, <2>1 DEF Healthy, Finish
  <2>3. Serving(ref)
    BY <2>2 DEF FullInv, LeakInv, NoLeak, Serving, Alive
  <2>4. proc[ref].model = task[t].model
    BY <2>1, <2>2 DEF SlotInv
  <2>5. Served = task[t].model
    BY <2>2, <2>3, <2>4, ServedValue
  <2> QED
    BY <1>1, <2>1, <2>2, <2>4, <2>5, EndKeepsSlot
<1>7. CASE ExitSeen(t) \/ StartTimeout(t) \/ SpawnFails(t)
  <2>1. t \in Task
    BY <1>2, <1>7 DEF ExitSeen, StartTimeout, SpawnFails
  <2>2. /\ load' = [load EXCEPT !.state = "error"] /\ task' = [task EXCEPT ![t] = Free]
        /\ UNCHANGED <<up, proc, ref>>
    BY <1>7, <2>1 DEF ExitSeen, StartTimeout, SpawnFails, Failed, Finish
  <2>3. Running => proc[ref].model = task[t].model
    <3>1. CASE SpawnFails(t)
      BY <1>0, <2>1, <3>1 DEF SpawnFails, FullInv, LeakInv, Running
    <3>2. CASE ExitSeen(t) \/ StartTimeout(t)
      BY <2>1, <3>2 DEF ExitSeen, StartTimeout, SlotInv
    <3> QED
      BY <1>7, <3>1, <3>2
  <2> QED
    BY <1>1, <2>1, <2>2, <2>3, EndKeepsSlot
<1> QED
  BY <1>3, <1>4, <1>5, <1>6, <1>7 DEF Starting

\* The load that gets the lock stops the server it replaces.
LEMMA LockedKeepsSlot ==
  ASSUME FullInv, SlotInv, NEW t \in Task, Locked(t)
  PROVE  SlotInv' /\ SlotStep
<1>1. Busy(t)
  BY DEF Locked, LoadTask, UnloadLocked, RestartTask, Unloaded, Busy
<1>2. task[t].op = "load"
  BY <1>1 DEF SlotInv
<1>3. LoadTask(t)
  BY <1>2 DEF Locked, UnloadLocked, RestartTask, Unloaded
<1>4. UNCHANGED <<up, load, proc>> /\ TypeOK /\ t \in Actor
  BY <1>3 DEF LoadTask, FullInv, LockInv, Actor
<1>5. PICK pc \in {"stopping", "draining", "spawning"}, v \in Pid \cup {NoPid} :
        /\ task' = [task EXCEPT ![t] = [op |-> "load", model |-> task[t].model,
                                        pc |-> pc, victim |-> v]]
        /\ ref' \in {ref, NoPid}
        /\ v # NoPid => ref' = ref
        /\ v = NoPid => ~Running
  <2>1. BeginStop(t, "load", task[t].model, "stopping", "draining", "spawning")
    BY <1>3 DEF LoadTask, BeginStart
  <2> QED
    BY <1>4, <2>1, BeginStopSpec
<1> DEFINE x == [op |-> "load", model |-> task[t].model, pc |-> pc, victim |-> v]
<1>6. x.op = "load" /\ x.model = task[t].model /\ x.pc # "starting" /\ x \in Activity
  <2>1. task[t].model \in Model
    BY <1>1 DEF SlotInv
  <2> QED
    BY <2>1 DEF Activity, AllOps, PC
<1> HIDE DEF x
<1> QED
  BY <1>1, <1>4, <1>5, <1>6, StopKeepsSlot DEF x

\* The self-update stops the server without the lock.
LEMMA SelfUpdateKeepsSlot ==
  ASSUME FullInv, SlotInv, SelfUpdate
  PROVE  SlotInv' /\ SlotStep
<1>1. /\ UNCHANGED <<up, load, proc>> /\ TypeOK /\ Heartbeat \in Actor /\ Heartbeat \notin Task
  BY ActorsAssumption DEF SelfUpdate, FullInv, LockInv, Actor
<1>2. PICK pc \in {"stopping", "draining"}, v \in Pid \cup {NoPid} :
        /\ task' = [task EXCEPT ![Heartbeat] = [op |-> "selfupdate", model |-> NoModel,
                                                pc |-> pc, victim |-> v]]
        /\ ref' \in {ref, NoPid}
        /\ v # NoPid => ref' = ref
        /\ v = NoPid => ~Running
  <2>1. BeginStop(Heartbeat, "selfupdate", NoModel, "stopping", "draining", "draining")
    BY DEF SelfUpdate
  <2> QED
    BY <1>1, <2>1, BeginStopSpec
<1> DEFINE x == [op |-> "selfupdate", model |-> NoModel, pc |-> pc, victim |-> v]
<1>3. x \in Activity
  BY DEF Activity, AllOps, PC
<1> HIDE DEF x
<1> QED
  BY <1>1, <1>2, <1>3, StopKeepsSlot DEF x

\* The agent leaves, and its server with it.
LEMMA ExitKeepsSlot ==
  ASSUME Exit
  PROVE  SlotInv' /\ SlotStep
<1>1. up' = FALSE /\ load' = Idle /\ task' = AllFree /\ ref' = NoPid
  BY DEF Exit
<1>2. ~Running' /\ \A t \in Task : ~Busy(t)'
  BY <1>1 DEF Running, Busy, AllFree, Free, Actor
<1>3. Served' = NoModel
  BY <1>2 DEF Served
<1>4. SlotInv'
  BY <1>1, <1>2 DEF SlotInv, Busy
<1> QED
  BY <1>1, <1>3, <1>4 DEF SlotStep, Slot!Next, Slot!Reset, Slot!Idle, Idle

\* llama-server comes up with its model, or is gone.
LEMMA ProcessKeepsSlot ==
  ASSUME FullInv, SlotInv, NEW p \in Pid, Serves(p) \/ Dies(p)
  PROVE  SlotInv' /\ SlotStep
<1>0. proc \in [Pid -> Process] /\ NoPid \notin Pid
  BY ActorsAssumption DEF FullInv, LockInv, TypeOK
<1>1. UNCHANGED <<up, load, task, ref>> /\ Alive(p)
  BY DEF Serves, Dies, Alive
<1>2. p = ref /\ Running
  BY <1>0, <1>1 DEF FullInv, LeakInv, NoLeak, Running
<1>3. CASE Serves(p)
  <2>1. proc[p].st = "loading" /\ proc' = [proc EXCEPT ![p].st = "serving"]
    BY <1>3 DEF Serves
  <2>2. proc'[p].st = "serving" /\ proc'[p].model = proc[p].model
    BY <1>0, <2>1 DEF Process
  <2>3. Served = NoModel
    BY <1>2, <2>1 DEF Served, Serving
  <2>4. Running' /\ Served' = proc[p].model /\ proc'[ref'].model = proc[ref].model
    BY <1>1, <1>2, <2>2 DEF Running, Alive, Served, Serving
  <2>5. SlotInv'
    BY <1>1, <1>2, <2>4 DEF SlotInv, Busy
  <2>6. Slot!Serve(proc[p].model) /\ proc[p].model \in Model
    <3>1. proc[ref].model \in Model /\ load.state # "idle"
          /\ (load.state # "loading" => proc[ref].model = load.file)
      BY <1>2 DEF SlotInv
    <3> QED
      BY <1>1, <1>2, <2>3, <2>4, <3>1 DEF Slot!Serve
  <2> QED
    BY <2>5, <2>6 DEF SlotStep, Slot!Next
<1>4. CASE Dies(p)
  <2>1. proc'[p] = Dead
    BY <1>0, <1>4 DEF Dies
  <2>2. ~Running'
    BY <1>1, <1>2, <2>1 DEF Running, Alive, Dead
  <2>3. Served' = NoModel
    BY <2>2 DEF Served
  <2>4. SlotInv'
    BY <1>1, <2>2 DEF SlotInv, Busy
  <2> QED
    BY <1>1, <2>3, <2>4 DEF SlotStep, Slot!Next, Slot!Lose
<1> QED
  BY <1>3, <1>4

\* Every step of the agent is a step of the slot.
LEMMA NextKeepsSlot ==
  ASSUME LoadsOnly, FullInv, SlotInv, [Next]_vars
  PROVE  SlotInv' /\ SlotStep
<1>1. CASE Request
  <2>1. ASSUME NEW t \in Task, NEW f \in Model, LoadModel(t, f)
        PROVE  SlotInv' /\ SlotStep
    BY <2>1, AcceptKeepsSlot
  <2>2. ASSUME NEW t \in Task, UnloadModel(t) \/ PatchConfig(t)
        PROVE  FALSE
    BY <2>2 DEF LoadsOnly, UnloadModel, PatchConfig
  <2>3. ASSUME NEW f \in Model, DeleteModel(f) \/ StartDownload(f)
        PROVE  SlotInv' /\ SlotStep
    BY <2>3, StillKeepsSlot DEF DeleteModel, StartDownload
  <2> QED
    BY <1>1, <2>1, <2>2, <2>3 DEF Request
<1>2. CASE DownloadEnds
  BY <1>2, StillKeepsSlot DEF DownloadEnds
<1>3. CASE Update
  <2>1. task[Updater].pc = "free"
    BY DEF FullInv, LeakInv, Free
  <2> QED
    BY <1>3, <2>1 DEF LoadsOnly, Update, UpdateFetch, UpdateAbandoned, UpdateStops,
                      UpdateStopped, EndStop, UpdateRestarts, UpdateMoveFails, Swapping
<1>4. CASE UNCHANGED vars
  BY <1>4, StillKeepsSlot DEF vars
<1>5. CASE Boot
  BY <1>5, BootKeepsSlot
<1>6. CASE \E t \in Task : Locked(t)
  BY <1>6, LockedKeepsSlot
<1>7. CASE \E t \in Actor : Starting(t)
  BY <1>7, StartingKeepsSlot
<1>8. CASE SelfUpdate \/ Exit
  BY <1>8, SelfUpdateKeepsSlot, ExitKeepsSlot
<1>9. CASE Processes
  BY <1>9, ProcessKeepsSlot DEF Processes
<1> QED
  BY <1>1, <1>2, <1>3, <1>4, <1>5, <1>6, <1>7, <1>8, <1>9 DEF Next

-----------------------------------------------------------------------------

ColdInv == FullInv /\ SlotInv /\ ChatTypeOK

\* A chat that posts its load is a request like any other.
LEMMA ChatsStepAsRequests ==
  ASSUME LoadsOnly, TypeOK, [ColdNext]_allVars
  PROVE  [Next]_vars
<1>1. ASSUME NEW c \in Client, PostLoad(c)
      PROVE  [Next]_vars
  <2>1. CASE UNCHANGED vars
    BY <2>1
  <2>2. CASE \E t \in Task : /\ up /\ LoadReply(chat[c].model) = "accepted"
                             /\ task[t] = Free /\ AcceptLoad(t, chat[c].model)
    <3>1. PICK t \in Task : up /\ LoadReply(chat[c].model) = "accepted"
                            /\ task[t] = Free /\ AcceptLoad(t, chat[c].model)
      BY <2>2
    <3>2. chat[c].model \in Model
      BY <3>1 DEF LoadReply, TypeOK
    <3>3. LoadModel(t, chat[c].model)
      BY <3>1 DEF LoadsOnly, LoadModel
    <3> QED
      BY <3>2, <3>3 DEF Next, Request
  <2> QED
    BY <1>1, <2>1, <2>2 DEF PostLoad
<1> QED
  BY <1>1 DEF ColdNext, Chat, CheckStatus, PollReady, PollError, PollTimeout, PostChat, allVars, vars

\* The record of a chat keeps its type.
LEMMA ChatsKeepType ==
  ASSUME ChatTypeOK, [ColdNext]_allVars
  PROVE  ChatTypeOK'
<1>1. ASSUME NEW c \in Client, NEW pc \in ChatPC, Goto(c, pc)
      PROVE  ChatTypeOK'
  BY <1>1 DEF Goto, ChatTypeOK
<1>2. ASSUME NEW c \in Client, Raise(c)
      PROVE  ChatTypeOK'
  BY <1>2 DEF Raise, ChatTypeOK, NoChat, ChatPC
<1>3. ASSUME NEW c \in Client, NEW f \in Model, CheckStatus(c, f)
      PROVE  ChatTypeOK'
  BY <1>3 DEF CheckStatus, ChatTypeOK, ChatPC
<1>4. "polling" \in ChatPC /\ "ensured" \in ChatPC
  BY DEF ChatPC
<1>5. ASSUME NEW c \in Client, Chat(c)
      PROVE  ChatTypeOK'
  BY <1>1, <1>2, <1>3, <1>4, <1>5 DEF Chat, PostLoad, PollReady, PollError, PollTimeout, PostChat
<1>6. CASE UNCHANGED chat
  BY <1>6 DEF ChatTypeOK
<1> QED
  BY <1>5, <1>6 DEF ColdNext, allVars

\* It holds before the first boot.
LEMMA ColdStarts == ColdInit => ColdInv /\ Slot!Init
<1> SUFFICES ASSUME ColdInit
             PROVE  ColdInv /\ Slot!Init
  OBVIOUS
<1>1. Init /\ (\A p \in Pid : ~Alive(p)) /\ (\A t \in Actor : task[t] = Free)
  BY DEF ColdInit, Init, AllDead, Dead, Alive, AllFree
<1>2. LeakInv
  BY <1>1 DEF LeakInv, NoLeak, Free, Actor, Init
<1>3. ~Running /\ Served = NoModel
  BY <1>1 DEF Init, Running, Served
<1>4. SlotInv
  BY <1>1, <1>3 DEF SlotInv, Init, Busy, Free, Actor
<1>5. ChatTypeOK
  BY DEF ColdInit, ChatTypeOK, NoChat, ChatPC
<1>6. Slot!Init
  BY <1>1, <1>3 DEF Init, Slot!Init, Slot!Idle, Idle
<1> QED
  BY <1>1, <1>2, <1>4, <1>5, <1>6, InitHasLock DEF ColdInv, FullInv

\* It is kept by every step, and every step is one of the slot.
LEMMA ColdStep ==
  ASSUME LoadsOnly, ColdInv, [ColdNext]_allVars
  PROVE  ColdInv' /\ SlotStep
<1>1. [Next]_vars /\ ChatTypeOK'
  BY ChatsStepAsRequests, ChatsKeepType DEF ColdInv, FullInv, LockInv
<1>2. "update" \notin Ops
  BY DEF LoadsOnly
<1> QED
  BY <1>1, <1>2, NextKeepsLock, NextKeepsLeak, NextKeepsSlot DEF ColdInv, FullInv

\* The invariant of the theorems below.
LEMMA ColdInvariant ==
  ASSUME LoadsOnly
  PROVE  ColdSpec => []ColdInv
<1>1. ColdInv /\ [ColdNext]_allVars => ColdInv'
  BY ColdStep
<1> QED
  BY <1>1, ColdStarts, PTL DEF ColdSpec

\* The agent implements the contract that the backend reasons with: every
\* step, of whatever handler, is a step of ModelSlot or leaves the slot alone.
THEOREM AgentImplementsSlot ==
  ASSUME LoadsOnly
  PROVE  ColdSpec => ImplementsSlot
<1>1. ColdInv /\ [ColdNext]_allVars => [Slot!Next]_<<load, Served>>
  BY ColdStep DEF SlotStep
<1> QED
  BY <1>1, ColdStarts, ColdInvariant, PTL DEF ColdSpec, ImplementsSlot, Slot!Spec, Slot!slotVars

\* A file that /load/status calls ready is never answered for by another model.
THEOREM ReadyTellsTheModel ==
  ASSUME LoadsOnly
  PROVE  ColdSpec => []ReadyNeverLies
<1>1. ColdInv => ReadyNeverLies
  BY DEF ColdInv, SlotInv, ReadyNeverLies, Slot!ReadyNeverLies, Served
<1> QED
  BY <1>1, ColdInvariant, PTL

\* The polling of a chat never ends on a server that runs another model.
THEOREM PollingEndsOnTheModel ==
  ASSUME LoadsOnly
  PROVE  ColdSpec => PolledNeverWrong
<1> DEFINE Right(c) == (chat[c].pc = "polling" /\ chat'[c].pc = "ensured") =>
                         (Running => proc[ref].model = chat[c].model)
<1>1. ASSUME ColdInv, [ColdNext]_allVars, NEW c \in Client
      PROVE  Right(c)
  <2> USE <1>1
  <2>1. ASSUME PollReady(c)
        PROVE  Right(c)
    BY <2>1 DEF PollReady, ColdInv, SlotInv
  <2>2. ASSUME chat[c].pc = "polling", chat'[c].pc = "ensured"
        PROVE  PollReady(c)
    <3>1. chat \in [Client -> [pc : ChatPC, model : Model \cup {NoModel}]]
      BY DEF ColdInv, ChatTypeOK
    <3>2. PICK d \in Client : Chat(d)
      BY <2>2 DEF ColdNext, allVars
    <3>3. chat' = [chat EXCEPT ![d] = chat'[d]]
      BY <3>1, <3>2 DEF Chat, CheckStatus, PostLoad, PollReady, PollError, PollTimeout,
                       PostChat, Goto, Raise
    <3>4. d = c
      BY <2>2, <3>1, <3>3
    <3> QED
      BY <2>2, <3>1, <3>2, <3>4 DEF Chat, CheckStatus, PostLoad, PollError, PollTimeout,
                                    PostChat, Goto, Raise, NoChat
  <2> QED
    BY <2>1, <2>2
<1>2. ColdInv /\ [ColdNext]_allVars => [\A c \in Client : Right(c)]_allVars
  BY <1>1
<1> QED
  BY <1>2, ColdInvariant, PTL DEF ColdSpec, PolledNeverWrong
=============================================================================
