------------------------ MODULE AgentServicesProofs -------------------------
(***************************************************************************)
(* The promises of the agent's other services: images, downloads, the      *)
(* heartbeat and the configuration of llama-server, for any number of      *)
(* threads, models, requests and machines.                                 *)
(***************************************************************************)
EXTENDS ImagePipe, ModelDownloads, AgentPulse, NodeHardware, SequenceFacts,
        FiniteSetTheorems, TLAPS

ThreadState == [op : AllOps \cup {"none"}, pc : PC, asked : Model \cup {NoModel}, model : Model \cup {NoModel}]

PipeInv ==
  /\ th \in [Thread -> ThreadState]
  /\ loader \in Thread \cup {Nobody}
  /\ pipe \in Model \cup {NoModel} /\ cur \in Model \cup {NoModel}
  /\ \A t \in Thread : th[t].pc \in {"loading", "publishing", "unloaded"} <=> loader = t
  /\ PipeMatches
  /\ \A t \in Thread :
       /\ th[t].pc = "loading" => pipe = cur
       /\ th[t].pc = "publishing" => pipe = th[t].model
       /\ th[t].pc = "unloaded" => pipe = NoModel

\* Generations and downloads alone.  _infer_lock makes the pipeline the business of one thread.
Inside == {"picking", "checking", "naming", "locking", "loading", "publishing", "running"}

Sound(t, op, pc, wanted, meant, inf, p, c) ==
  /\ op \in {"none", "generate", "pull"}
  /\ pc \in Inside \cup {"free", "queued", "answering", "sizing", "pulling"}
  /\ pc \in Inside <=> inf = t
  /\ pc \in Inside \cup {"queued"} => op = "generate"
  /\ pc \in {"queued", "picking"} => meant = wanted
  /\ pc \in {"checking", "naming"} => wanted \in {NoModel, c}
  /\ pc \in {"locking", "loading", "publishing"} =>
       meant # NoModel /\ wanted \in {NoModel, meant}
  /\ pc = "running" => p # NoModel /\ wanted \in {NoModel, p}
  /\ pc = "answering" => wanted \in {NoModel, meant}

GenerationInv ==
  \A t \in Thread :
    Sound(t, th[t].op, th[t].pc, th[t].asked, th[t].model, infer, pipe, cur)

ImageInv ==
  /\ PipeInv
  /\ infer \in Thread \cup {Nobody}
  /\ ops \subseteq {"generate", "pull"} => GenerationInv

\* The step of a thread changes what that thread is doing, and no other one.
Moves(t, op, pc, wanted, meant) ==
  /\ th' \in [Thread -> ThreadState]
  /\ th'[t].op = op /\ th'[t].pc = pc /\ th'[t].asked = wanted /\ th'[t].model = meant
  /\ \A u \in Thread : u # t => th'[u] = th[u]

\* A thread whose record is replaced has moved, and no other thread.
LEMMA OneMoves ==
  ASSUME th \in [Thread -> ThreadState], NEW t \in Thread, NEW x \in ThreadState,
         th' = [th EXCEPT ![t] = x]
  PROVE  Moves(t, x.op, x.pc, x.asked, x.model)
BY DEF Moves

\* A thread that goes on keeps its operation and its names.
LEMMA GotoMoves ==
  ASSUME th \in [Thread -> ThreadState], NEW t \in Thread, NEW pc \in PC, Goto(t, pc)
  PROVE  Moves(t, th[t].op, pc, th[t].asked, th[t].model)
<1> DEFINE x == [th[t] EXCEPT !.pc = pc]
<1>1. /\ x \in ThreadState /\ x.op = th[t].op /\ x.pc = pc /\ x.asked = th[t].asked
      /\ x.model = th[t].model
  BY DEF ThreadState
<1>2. th' = [th EXCEPT ![t] = x]
  BY DEF Goto
<1> HIDE DEF x
<1> QED
  BY <1>1, <1>2, OneMoves

\* A thread that takes a name goes on with it.
LEMMA RenameMoves ==
  ASSUME th \in [Thread -> ThreadState], NEW t \in Thread, NEW pc \in PC,
         NEW m \in Model \cup {NoModel},
         th' = [th EXCEPT ![t].pc = pc, ![t].model = m]
  PROVE  Moves(t, th[t].op, pc, th[t].asked, m)
<1> DEFINE x == [th[t] EXCEPT !.pc = pc, !.model = m]
<1>1. /\ x \in ThreadState /\ x.op = th[t].op /\ x.pc = pc /\ x.asked = th[t].asked
      /\ x.model = m
  BY DEF ThreadState
<1>2. th' = [th EXCEPT ![t] = x]
  OBVIOUS
<1> HIDE DEF x
<1> QED
  BY <1>1, <1>2, OneMoves

\* An idle thread takes up an operation of those that are asked.
LEMMA BeginMoves ==
  ASSUME th \in [Thread -> ThreadState], NEW t \in Thread, NEW op \in AllOps, NEW pc \in PC,
         NEW wanted \in Model \cup {NoModel}, Begin(t, op, pc, wanted, wanted)
  PROVE  Moves(t, op, pc, wanted, wanted) /\ th[t].pc = "free" /\ op \in ops
<1> DEFINE x == [op |-> op, pc |-> pc, asked |-> wanted, model |-> wanted]
<1>1. x \in ThreadState /\ x.op = op /\ x.pc = pc /\ x.asked = wanted /\ x.model = wanted
  BY DEF ThreadState
<1>2. th' = [th EXCEPT ![t] = x] /\ th[t].pc = "free" /\ op \in ops
  BY DEF Begin, Idle
<1> HIDE DEF x
<1> QED
  BY <1>1, <1>2, OneMoves

\* A thread that has answered is idle.
LEMMA ReturnMoves ==
  ASSUME th \in [Thread -> ThreadState], NEW t \in Thread, Return(t)
  PROVE  Moves(t, "none", "free", NoModel, NoModel)
<1>1. Idle \in ThreadState
  BY DEF Idle, ThreadState, PC
<1> QED
  BY <1>1, OneMoves DEF Return, Idle

\* After a load the lock is free; a generation goes on, a load is over.
LEMMA LoadedMoves ==
  ASSUME th \in [Thread -> ThreadState], NEW t \in Thread, Loaded(t)
  PROVE  /\ loader' = Nobody
         /\ \/ /\ th[t].op = "generate"
               /\ Moves(t, "generate", "running", th[t].asked, th[t].model)
            \/ th[t].op = "load" /\ Moves(t, "none", "free", NoModel, NoModel)
BY GotoMoves, ReturnMoves DEF Loaded, PC

\* A step that touches neither the pipeline nor its lock.
LEMMA CalmKeepsPipe ==
  ASSUME PipeInv, NEW t \in Thread, NEW op, NEW pc, NEW wanted, NEW meant,
         Moves(t, op, pc, wanted, meant), UNCHANGED <<pipe, cur, loader>>,
         loader # t, pc \notin {"loading", "publishing", "unloaded"}
  PROVE  PipeInv'
BY DEF PipeInv, PipeMatches, Moves

\* What each step of a thread does to the pipeline.
LEMMA StepKeepsPipe ==
  ASSUME PipeInv, NEW t \in Thread, Request(t) \/ Work(t)
  PROVE  PipeInv'
<1> USE ThreadAssumption, ModelAssumption DEF PipeInv
<1> DEFINE Holds == th[t].pc \in {"loading", "publishing", "unloaded"}
<1>1. CASE Request(t)
  <2>1. \E op \in AllOps, pc \in {"queued", "waiting", "deleting", "sizing"}, wanted \in Model \cup {NoModel} :
          Begin(t, op, pc, wanted, wanted)
    BY <1>1 DEF Request, Generate, Load, Delete, Pull, AllOps
  <2>2. UNCHANGED <<pipe, cur, loader>>
    BY <1>1 DEF Request, Generate, Load, Delete, Pull
  <2>3. PICK op \in AllOps, pc \in {"queued", "waiting", "deleting", "sizing"}, wanted \in Model \cup {NoModel} :
          Begin(t, op, pc, wanted, wanted)
    BY <2>1
  <2>4. pc \in PC
    BY DEF PC
  <2>5. Moves(t, op, pc, wanted, wanted) /\ th[t].pc = "free"
    BY <2>3, <2>4, BeginMoves
  <2> QED
    BY <2>2, <2>5, CalmKeepsPipe
<1>2. CASE \E pc \in PC \ {"loading", "publishing", "unloaded"} :
             Goto(t, pc) /\ ~Holds /\ UNCHANGED <<pipe, cur, loader>>
  BY <1>2, GotoMoves, CalmKeepsPipe
<1>3. CASE Return(t) /\ ~Holds /\ UNCHANGED <<pipe, cur, loader>>
  BY <1>3, ReturnMoves, CalmKeepsPipe
<1>4. CASE Enter(t) \/ Check(t) \/ LoadTask(t) \/ ReadCurrent(t) \/ Sized(t)
  <2>1. \E pc \in {"picking", "naming", "running", "locking", "unloading", "removing", "pulling"} :
          Goto(t, pc) /\ ~Holds /\ UNCHANGED <<pipe, cur, loader>>
    BY <1>4 DEF Enter, Check, LoadTask, ReadCurrent, Sized
  <2> QED
    BY <1>2, <2>1 DEF PC
<1>5. CASE Answer(t) \/ RemoveFiles(t) \/ PullEnds(t)
  BY <1>3, <1>5 DEF Answer, RemoveFiles, PullEnds
<1>6. CASE Pick(t)
  <2>1. \/ \E pc \in {"locking", "checking"} : Goto(t, pc) /\ ~Holds /\ UNCHANGED <<pipe, cur, loader>>
        \/ Return(t) /\ ~Holds /\ UNCHANGED <<pipe, cur, loader>>
    BY <1>6 DEF Pick, Raise
  <2> QED
    BY <1>2, <1>3, <2>1 DEF PC
<1>7. CASE NameModel(t)
  <2> DEFINE m == IF cur # NoModel THEN cur ELSE DefaultModel
  <2>1. m \in Model \cup {NoModel} /\ "locking" \in PC
    BY DEF PC
  <2>2. th' = [th EXCEPT ![t].pc = "locking", ![t].model = m] /\ ~Holds /\ UNCHANGED <<pipe, cur, loader>>
    BY <1>7 DEF NameModel
  <2> HIDE DEF m
  <2>3. Moves(t, th[t].op, "locking", th[t].asked, m)
    BY <2>1, <2>2, RenameMoves
  <2> QED
    BY <2>2, <2>3, CalmKeepsPipe
<1>8. CASE Run(t)
  <2>1. CASE pipe = NoModel
    BY <1>3, <1>8, <2>1 DEF Run, Raise
  <2>2. CASE pipe # NoModel
    <3>1. th' = [th EXCEPT ![t].pc = "answering", ![t].model = pipe] /\ ~Holds
          /\ UNCHANGED <<pipe, cur, loader>>
      BY <1>8, <2>2 DEF Run
    <3>2. Moves(t, th[t].op, "answering", th[t].asked, pipe)
      BY <3>1, RenameMoves DEF PC
    <3> QED
      BY <3>1, <3>2, CalmKeepsPipe
  <2> QED
    BY <2>1, <2>2
<1>9. CASE Lock(t)
  <2>1. loader = Nobody /\ UNCHANGED <<pipe, cur>> /\ pipe = cur
    BY <1>9 DEF Lock, PipeMatches
  <2>2. CASE Loaded(t)
    BY <2>1, <2>2, LoadedMoves, CalmKeepsPipe
  <2>3. CASE loader' = t /\ Goto(t, "loading")
    <3>1. Moves(t, th[t].op, "loading", th[t].asked, th[t].model)
      BY <2>3, GotoMoves DEF PC
    <3> QED
      BY <2>1, <2>3, <3>1 DEF Moves, PipeMatches
  <2> QED
    BY <1>9, <2>2, <2>3 DEF Lock
<1>10. CASE Pretrained(t)
  <2>1. Moves(t, th[t].op, "publishing", th[t].asked, th[t].model)
    BY <1>10, GotoMoves DEF Pretrained, PC
  <2>2. loader = t /\ UNCHANGED <<cur, loader>> /\ pipe' = th[t].model
    BY <1>10 DEF Pretrained
  <2>3. th[t].model \in Model \cup {NoModel}
    BY DEF ThreadState
  <2> QED
    BY <2>1, <2>2, <2>3 DEF Moves, PipeMatches
<1>11. CASE LoadFails(t)
  <2>1. Moves(t, "none", "free", NoModel, NoModel)
    BY <1>11, ReturnMoves DEF LoadFails, Raise
  <2>2. loader = t /\ loader' = Nobody /\ UNCHANGED <<pipe, cur>> /\ pipe = cur
    BY <1>11 DEF LoadFails, Raise
  <2> QED
    BY <2>1, <2>2 DEF Moves, PipeMatches
<1>12. CASE Publish(t)
  <2>1. loader = t /\ loader' = Nobody /\ pipe' = pipe /\ cur' = pipe
    BY <1>12, LoadedMoves DEF Publish
  <2>2. \A u \in Thread : th'[u].pc \notin {"loading", "publishing", "unloaded"}
    BY <1>12, <2>1, LoadedMoves DEF Publish, Moves
  <2>3. th' \in [Thread -> ThreadState]
    BY <1>12, LoadedMoves DEF Publish, Moves
  <2> QED
    BY <2>1, <2>2, <2>3 DEF PipeMatches
<1>13. CASE Unload(t)
  <2>1. Moves(t, th[t].op, "unloaded", th[t].asked, th[t].model)
    BY <1>13, GotoMoves DEF Unload, PC
  <2>2. loader = Nobody /\ loader' = t /\ pipe' = NoModel /\ cur' = cur
    BY <1>13 DEF Unload
  <2> QED
    BY <2>1, <2>2 DEF Moves, PipeMatches
<1>14. CASE Unloaded(t)
  <2>1. Moves(t, th[t].op, "removing", th[t].asked, th[t].model)
    BY <1>14, GotoMoves DEF Unloaded, PC
  <2>2. loader = t /\ loader' = Nobody /\ cur' = NoModel /\ pipe' = pipe /\ pipe = NoModel
    BY <1>14 DEF Unloaded
  <2> QED
    BY <2>1, <2>2 DEF Moves, PipeMatches
<1> QED
  BY <1>1, <1>4, <1>5, <1>6, <1>7, <1>8, <1>9, <1>10, <1>11, <1>12, <1>13, <1>14 DEF Work

\* The thread that holds _infer_lock is the only one that the pipeline matters to.
LEMMA MoveKeepsGeneration ==
  ASSUME GenerationInv, NEW t \in Thread, NEW op, NEW pc, NEW wanted, NEW meant,
         Moves(t, op, pc, wanted, meant),
         infer = t \/ UNCHANGED <<pipe, cur>>,
         infer' = infer \/ {infer, infer'} \subseteq {t, Nobody},
         Sound(t, op, pc, wanted, meant, infer', pipe', cur')
  PROVE  GenerationInv'
<1>1. Sound(t, th'[t].op, th'[t].pc, th'[t].asked, th'[t].model, infer', pipe', cur')
  BY DEF Moves
<1>2. ASSUME NEW u \in Thread, u # t
      PROVE  Sound(u, th'[u].op, th'[u].pc, th'[u].asked, th'[u].model, infer', pipe', cur')
  <2>1. th'[u] = th[u]
    BY <1>2 DEF Moves
  <2>2. Sound(u, th[u].op, th[u].pc, th[u].asked, th[u].model, infer, pipe, cur)
    BY DEF GenerationInv
  <2>3. infer' = u <=> infer = u
    BY <1>2, ThreadAssumption
  <2>4. infer = u => UNCHANGED <<pipe, cur>>
    BY <1>2
  <2> QED
    BY <2>1, <2>2, <2>3, <2>4 DEF Sound, Inside
<1> QED
  BY <1>1, <1>2 DEF GenerationInv

\* Every step of a thread keeps the pipeline of a generation that runs its own.
LEMMA StepKeepsGeneration ==
  ASSUME PipeInv, infer \in Thread \cup {Nobody}, GenerationInv, ops \subseteq {"generate", "pull"},
         NEW t \in Thread, Request(t) \/ Work(t)
  PROVE  GenerationInv'
<1> DEFINE o == th[t].op
           a == th[t].asked
           m == th[t].model
<1> USE ThreadAssumption, ModelAssumption
<1>0. /\ Sound(t, o, th[t].pc, a, m, infer, pipe, cur)
      /\ th \in [Thread -> ThreadState]
      /\ a \in Model \cup {NoModel} /\ m \in Model \cup {NoModel}
  BY DEF GenerationInv, PipeInv, ThreadState
<1>1. Sound(t, "none", "free", NoModel, NoModel, IF infer = t THEN Nobody ELSE infer, pipe, cur)
  BY DEF Sound, Inside
<1>2. ASSUME Raise(t), UNCHANGED <<pipe, cur>>
      PROVE  GenerationInv'
  BY <1>0, <1>1, <1>2, ReturnMoves, MoveKeepsGeneration DEF Raise
<1>3. ASSUME Return(t), UNCHANGED <<pipe, cur, infer>>, infer # t
      PROVE  GenerationInv'
  BY <1>0, <1>1, <1>3, ReturnMoves, MoveKeepsGeneration
<1>4. ASSUME NEW pc \in PC, Goto(t, pc), infer = t \/ UNCHANGED <<pipe, cur>>,
             infer' = infer \/ {infer, infer'} \subseteq {t, Nobody},
             Sound(t, o, pc, a, m, infer', pipe', cur')
      PROVE  GenerationInv'
  BY <1>0, <1>4, GotoMoves, MoveKeepsGeneration
<1>5. CASE Request(t)
  <2>1. UNCHANGED <<pipe, cur, infer>>
    BY <1>5 DEF Request, Generate, Load, Delete, Pull
  <2>2. \/ \E wanted \in Model \cup {NoModel} : Begin(t, "generate", "queued", wanted, wanted)
        \/ \E wanted \in Model : Begin(t, "pull", "sizing", wanted, wanted)
    BY <1>5 DEF Request, Generate, Load, Delete, Pull, Begin
  <2>3. PICK op \in {"generate", "pull"}, wanted \in Model \cup {NoModel} :
          Begin(t, op, IF op = "generate" THEN "queued" ELSE "sizing", wanted, wanted)
    BY <2>2
  <2> DEFINE pc == IF op = "generate" THEN "queued" ELSE "sizing"
  <2>4. pc \in PC /\ op \in AllOps
    BY DEF PC, AllOps
  <2>5. Moves(t, op, pc, wanted, wanted) /\ th[t].pc = "free"
    BY <1>0, <2>3, <2>4, BeginMoves
  <2>6. Sound(t, op, pc, wanted, wanted, infer', pipe', cur')
    BY <1>0, <2>1, <2>3, <2>5 DEF Sound, Inside
  <2> QED
    BY <2>1, <2>5, <2>6, MoveKeepsGeneration
<1>6. CASE Enter(t)
  BY <1>0, <1>4, <1>6 DEF Enter, Sound, Inside, PC
<1>7. CASE Pick(t)
  <2>1. CASE Raise(t)
    BY <1>2, <1>7, <2>1 DEF Pick
  <2>2. CASE Goto(t, "locking") /\ infer' = infer
    BY <1>0, <1>4, <1>7, <2>2 DEF Pick, Sound, Inside, PC
  <2>3. CASE Goto(t, "checking") /\ infer' = infer /\ ~(a # NoModel /\ a # cur)
    BY <1>0, <1>4, <1>7, <2>3 DEF Pick, Sound, Inside, PC
  <2>4. CASE Goto(t, "locking") /\ infer' = infer /\ a # NoModel /\ a # cur
    BY <2>2, <2>4
  <2> QED
    BY <1>7, <2>1, <2>3, <2>4 DEF Pick
<1>8. CASE Check(t)
  <2>1. loader = Nobody \/ loader # t
    BY <1>8 DEF Check, PipeInv
  <2>2. infer = t
    BY <1>0, <1>8 DEF Check, Sound, Inside
  <2>3. loader = Nobody
    BY <2>1, <2>2 DEF PipeInv, GenerationInv, Sound, Inside
  <2>4. pipe = cur
    BY <2>3 DEF PipeInv, PipeMatches
  <2>5. CASE pipe = NoModel
    BY <1>0, <1>4, <1>8, <2>5 DEF Check, Sound, Inside, PC
  <2>6. CASE pipe # NoModel
    BY <1>0, <1>4, <1>8, <2>4, <2>6 DEF Check, Sound, Inside, PC
  <2> QED
    BY <2>5, <2>6
<1>9. CASE NameModel(t)
  <2> DEFINE n == IF cur # NoModel THEN cur ELSE DefaultModel
  <2>1. n \in Model \cup {NoModel} /\ n # NoModel /\ "locking" \in PC
        /\ (cur # NoModel => n = cur)
    BY DEF PC, PipeInv
  <2>2. th' = [th EXCEPT ![t].pc = "locking", ![t].model = n] /\ UNCHANGED <<pipe, cur, infer>>
        /\ th[t].pc = "naming"
    BY <1>9 DEF NameModel
  <2> HIDE DEF n
  <2>3. Moves(t, o, "locking", a, n)
    BY <1>0, <2>1, <2>2, RenameMoves
  <2>4. Sound(t, o, "locking", a, n, infer', pipe', cur')
    BY <1>0, <2>1, <2>2 DEF Sound, Inside
  <2> QED
    BY <2>2, <2>3, <2>4, MoveKeepsGeneration
<1>10. CASE Run(t)
  <2>1. CASE Raise(t)
    BY <1>2, <1>10, <2>1 DEF Run
  <2>2. CASE /\ th' = [th EXCEPT ![t].pc = "answering", ![t].model = pipe]
             /\ infer' = Nobody /\ pipe # NoModel
    <3>1. Moves(t, o, "answering", a, pipe)
      BY <1>0, <2>2, RenameMoves DEF PC, PipeInv
    <3>2. UNCHANGED <<pipe, cur>> /\ infer = t
      BY <1>0, <1>10 DEF Run, Sound, Inside
    <3>3. Sound(t, o, "answering", a, pipe, infer', pipe', cur')
      BY <1>0, <1>10, <2>2, <3>2 DEF Run, Sound, Inside
    <3> QED
      BY <2>2, <3>1, <3>2, <3>3, MoveKeepsGeneration
  <2> QED
    BY <1>10, <2>1, <2>2 DEF Run
<1>11. CASE Answer(t) \/ PullEnds(t)
  <2>1. Return(t) /\ UNCHANGED <<pipe, cur, infer>> /\ th[t].pc \in {"answering", "pulling"}
    BY <1>11 DEF Answer, PullEnds
  <2> QED
    BY <1>0, <1>3, <2>1 DEF Sound, Inside
<1>12. CASE Lock(t)
  <2>1. th[t].pc = "locking" /\ UNCHANGED <<pipe, cur, infer>>
    BY <1>12 DEF Lock
  <2>2. CASE Goto(t, "loading")
    BY <1>0, <1>4, <2>1, <2>2 DEF Sound, Inside, PC
  <2>3. CASE Loaded(t) /\ pipe # NoModel /\ cur = m
    <3>1. pipe = cur
      BY <1>12 DEF Lock, PipeInv, PipeMatches
    <3>2. Goto(t, "running")
      BY <1>0, <2>1, <2>3 DEF Loaded, Sound, Inside
    <3> QED
      BY <1>0, <1>4, <2>1, <2>3, <3>1, <3>2 DEF Sound, Inside, PC
  <2> QED
    BY <1>12, <2>2, <2>3 DEF Lock
<1>13. CASE Pretrained(t)
  BY <1>0, <1>4, <1>13 DEF Pretrained, Sound, Inside, PC
<1>14. CASE LoadFails(t)
  BY <1>2, <1>14 DEF LoadFails
<1>15. CASE Publish(t)
  <2>1. Goto(t, "running")
    BY <1>0, <1>15 DEF Publish, Loaded, Sound, Inside
  <2>2. pipe = m
    BY <1>15 DEF Publish, PipeInv
  <2> QED
    BY <1>0, <1>4, <1>15, <2>1, <2>2 DEF Publish, Sound, Inside, PC
<1>16. CASE Sized(t)
  BY <1>0, <1>4, <1>16 DEF Sized, Sound, Inside, PC
<1>17. CASE LoadTask(t) \/ ReadCurrent(t) \/ Unload(t) \/ Unloaded(t) \/ RemoveFiles(t)
  BY <1>0, <1>17 DEF LoadTask, ReadCurrent, Unload, Unloaded, RemoveFiles, Sound, Inside
<1> QED
  BY <1>5, <1>6, <1>7, <1>8, <1>9, <1>10, <1>11, <1>12, <1>13, <1>14, <1>15, <1>16, <1>17 DEF Work

\* The holder of _infer_lock is a thread.
LEMMA StepKeepsInfer ==
  ASSUME infer \in Thread \cup {Nobody}, NEW t \in Thread, Request(t) \/ Work(t)
  PROVE  infer' \in Thread \cup {Nobody} /\ ops' = ops
BY DEF Request, Generate, Load, Delete, Pull, Work, Enter, Pick, Check, NameModel, Run, Answer,
       LoadTask, Lock, Pretrained, LoadFails, Publish, ReadCurrent, Unload, Unloaded, RemoveFiles,
       Sized, PullEnds, Raise

\* The pipeline and the generations of the agent are as their threads need them.
LEMMA ImageInvariant == Spec => []ImageInv
<1>1. Init => ImageInv
  <2> SUFFICES ASSUME Init
               PROVE  ImageInv
    OBVIOUS
  <2>1. Idle \in ThreadState /\ Idle.pc = "free"
    BY DEF Idle, ThreadState, PC
  <2>2. th \in [Thread -> ThreadState] /\ \A t \in Thread : th[t] = Idle
    BY <2>1 DEF Init
  <2>3. PipeInv
    BY <2>1, <2>2, ThreadAssumption DEF Init, PipeInv, PipeMatches
  <2>4. GenerationInv
    BY <2>2, ThreadAssumption DEF Init, GenerationInv, Sound, Inside, Idle
  <2> QED
    BY <2>3, <2>4 DEF Init, ImageInv
<1>2. ImageInv /\ [Next]_vars => ImageInv'
  <2>1. ASSUME ImageInv, NEW t \in Thread, Request(t) \/ Work(t)
        PROVE  ImageInv'
    BY <2>1, StepKeepsPipe, StepKeepsGeneration, StepKeepsInfer DEF ImageInv
  <2>2. ASSUME ImageInv, UNCHANGED vars
        PROVE  ImageInv'
    BY <2>2 DEF ImageInv, PipeInv, PipeMatches, GenerationInv, vars
  <2> QED
    BY <2>1, <2>2 DEF Next
<1> QED
  BY <1>1, <1>2, PTL DEF Spec

\* The image pipeline and its name agree whenever _load_lock is free, and as long as only
\* generations and downloads are wanted for a generation uses the model it was wanted for.
THEOREM ImagesUseTheirModel == Spec => []ImagesAreRight
<1>1. ImageInv => ImagesAreRight
  BY ThreadAssumption DEF ImageInv, PipeInv, GenerationInv, Sound, ImagesAreRight, UsedIsAsked
<1> QED
  BY <1>1, ImageInvariant, PTL

-----------------------------------------------------------------------------

PullState == [step : PullStep \cup {"ended"}, file : File \cup {NoFile}]
Fetching(i) == pulls[i].step \in {"starting", "downloading"}

DownloadInv ==
  /\ pulls \in [1 .. MaxPulls -> PullState]
  /\ \A i \in 1 .. MaxPulls :
       Fetching(i) => download = [state |-> pulls[i].step, file |-> pulls[i].file]
  /\ \A i, j \in 1 .. MaxPulls : Fetching(i) /\ Fetching(j) => i = j

\* A set whose members are all the same has one at most.
LEMMA OneAtMost ==
  ASSUME NEW S, \A x, y \in S : x = y
  PROVE  Cardinality(S) <= 1
<1>1. CASE S = {}
  BY <1>1, FS_EmptySet
<1>2. CASE S # {}
  <2>1. PICK x \in S : S = {x}
    BY <1>2
  <2> QED
    BY <2>1, FS_Singleton
<1> QED
  BY <1>1, <1>2

\* A download that begins, goes on or ends while no other one runs.
LEMMA PullMoves ==
  ASSUME DownloadInv, NEW i \in 1 .. MaxPulls, NEW x \in PullState,
         pulls' = [pulls EXCEPT ![i] = x],
         \A j \in 1 .. MaxPulls : Fetching(j) => j = i,
         x.step \in {"starting", "downloading"} => download' = [state |-> x.step, file |-> x.file]
  PROVE  DownloadInv'
<1>1. pulls' \in [1 .. MaxPulls -> PullState]
  BY DEF DownloadInv
<1>2. pulls'[i] = x /\ \A j \in 1 .. MaxPulls : j # i => pulls'[j] = pulls[j]
  BY DEF DownloadInv
<1>3. \A j \in 1 .. MaxPulls : Fetching(j)' => j = i
  BY <1>2 DEF Fetching
<1> QED
  BY <1>1, <1>2, <1>3 DEF DownloadInv, Fetching

\* Every step of the downloads leaves at most one of them fetching.
LEMMA DownloadStep ==
  ASSUME DownloadInv, [DownloadNext]_downloadVars
  PROVE  DownloadInv'
<1>1. ASSUME NEW i \in 1 .. MaxPulls, NEW f \in File, AcceptPull(i, f)
      PROVE  DownloadInv'
  <2> DEFINE x == [step |-> "starting", file |-> f]
  <2>1. x \in PullState /\ x.step = "starting" /\ x.file = f
    BY DEF PullState, PullStep
  <2>2. pulls' = [pulls EXCEPT ![i] = x] /\ download' = [state |-> "starting", file |-> f]
    BY <1>1 DEF AcceptPull
  <2>3. \A j \in 1 .. MaxPulls : ~Fetching(j)
    BY <1>1 DEF AcceptPull, Busy, DownloadInv, Fetching
  <2> HIDE DEF x
  <2> QED
    BY <2>1, <2>2, <2>3, PullMoves
<1>2. ASSUME NEW i \in 1 .. MaxPulls, FetchBegins(i) \/ FetchEnds(i)
      PROVE  DownloadInv'
  <2> DEFINE x == [pulls[i] EXCEPT !.step = IF pulls[i].step = "starting" THEN "downloading" ELSE "ended"]
  <2>1. /\ x \in PullState /\ x.file = pulls[i].file
        /\ x.step = IF pulls[i].step = "starting" THEN "downloading" ELSE "ended"
    BY DEF PullState, PullStep, DownloadInv
  <2>2. pulls' = [pulls EXCEPT ![i] = x]
    BY <1>2 DEF FetchBegins, FetchEnds
  <2>3. \A j \in 1 .. MaxPulls : Fetching(j) => j = i
    BY <1>2 DEF FetchBegins, FetchEnds, DownloadInv, Fetching
  <2>4. x.step = "downloading" => download' = [state |-> x.step, file |-> x.file]
    BY <1>2, <2>1 DEF FetchBegins, FetchEnds
  <2>5. x.step \in {"downloading", "ended"}
    BY <2>1
  <2> HIDE DEF x
  <2> QED
    BY <2>1, <2>2, <2>3, <2>4, <2>5, PullMoves
<1>3. CASE AgentRestarts
  <2> DEFINE y(i) == IF pulls[i].step = "none" THEN pulls[i] ELSE [pulls[i] EXCEPT !.step = "ended"]
  <2>1. pulls' = [i \in 1 .. MaxPulls |-> y(i)]
    BY <1>3 DEF AgentRestarts
  <2>2. \A i \in 1 .. MaxPulls : y(i) \in PullState /\ y(i).step \in {"none", "ended"}
    BY DEF DownloadInv, PullState, PullStep
  <2> HIDE DEF y
  <2> QED
    BY <2>1, <2>2 DEF DownloadInv, Fetching
<1>4. CASE UNCHANGED <<download, pulls>>
  BY <1>4 DEF DownloadInv, Fetching
<1> QED
  BY <1>1, <1>2, <1>3, <1>4 DEF DownloadNext, DeleteFile, Track, Poll, RemovePopup, Tick,
     AnswerLost, downloadVars

\* The agent runs one download at a time, and what it publishes while one runs is that one.
THEOREM DownloadsAreSerial ==
  DownloadInit /\ [][DownloadNext]_downloadVars => []OneDownload
<1>1. DownloadInit => DownloadInv
  BY DEF DownloadInit, DownloadInv, PullState, PullStep, Fetching
<1>2. DownloadInv => OneDownload
  <2> SUFFICES ASSUME DownloadInv
               PROVE  OneDownload
    OBVIOUS
  <2> DEFINE S == {i \in 1 .. MaxPulls : pulls[i].step \in {"starting", "downloading"}}
  <2>1. \A i, j \in S : i = j
    BY DEF DownloadInv, Fetching
  <2>2. Cardinality(S) <= 1
    BY <2>1, OneAtMost
  <2> QED
    BY <2>2 DEF OneDownload, DownloadInv, Fetching
<1>3. DownloadInv /\ [DownloadNext]_downloadVars => DownloadInv'
  BY DownloadStep
<1> QED
  BY <1>1, <1>2, <1>3, PTL

-----------------------------------------------------------------------------

PulseInv ==
  /\ DOMAIN wire = Post
  /\ pulse = [pc |-> pulse.pc, ran |-> pulse.ran]
  /\ pulse.pc = "asking" => chatServer.model \in pulse.ran
  /\ \A i \in Post : wire[i] # NoReport => wire[i].sound
  /\ ReportsWereTrue

\* A report that is posted was true when it was made.
LEMMA PostsAreSound ==
  ASSUME PulseInv, NEW r, r.sound, Posts(r)
  PROVE  DOMAIN wire' = Post /\ \A i \in Post : wire'[i] # NoReport => wire'[i].sound
<1>1. PICK i \in Post : wire' = [wire EXCEPT ![i] = r]
  BY DEF Posts
<1> QED
  BY <1>1 DEF PulseInv

\* Every step of the heartbeat sends only what was true while it was put together.
LEMMA PulseStep ==
  ASSUME PulseInv, [PulseNext]_pulseVars
  PROVE  PulseInv'
<1> USE DEF PulseInv, ReportsWereTrue
<1>1. ASSUME NEW m \in ChatModel, ServerStarts(m)
      PROVE  PulseInv'
  <2>1. chatServer'.model = m /\ UNCHANGED <<wire, known>>
    BY <1>1 DEF ServerStarts
  <2>2. pulse' = [pc |-> pulse.pc, ran |-> IF pulse.pc = "asking" THEN pulse.ran \cup {m} ELSE pulse.ran]
    BY <1>1 DEF ServerStarts
  <2> QED
    BY <2>1, <2>2
<1>2. CASE ServerStops
  <2>1. chatServer'.model = chatServer.model /\ UNCHANGED <<wire, known, pulse>>
    BY <1>2 DEF ServerStops
  <2> QED
    BY <2>1
<1>3. CASE PulseBegins
  <2>1. CASE chatServer.run
    BY <1>3, <2>1 DEF PulseBegins
  <2>2. CASE ~chatServer.run
    <3>1. Report(FALSE, NoReport).sound
      BY DEF Report
    <3>2. Posts(Report(FALSE, NoReport)) /\ UNCHANGED <<chatServer, known>>
          /\ pulse' = [pc |-> "posting", ran |-> {}]
      BY <1>3, <2>2 DEF PulseBegins
    <3>3. DOMAIN wire' = Post /\ \A i \in Post : wire'[i] # NoReport => wire'[i].sound
      BY <3>1, <3>2, PostsAreSound
    <3> QED
      BY <3>2, <3>3
  <2> QED
    BY <2>1, <2>2
<1>4. CASE PulsePosts
  <2>1. Report(TRUE, chatServer.model).sound
    BY <1>4 DEF PulsePosts, Report
  <2>2. Posts(Report(TRUE, chatServer.model)) /\ UNCHANGED <<chatServer, known>>
        /\ pulse' = [pc |-> "posting", ran |-> {}]
    BY <1>4 DEF PulsePosts
  <2>3. DOMAIN wire' = Post /\ \A i \in Post : wire'[i] # NoReport => wire'[i].sound
    BY <2>1, <2>2, PostsAreSound
  <2> QED
    BY <2>2, <2>3
<1>5. CASE PulseEnds
  BY <1>5 DEF PulseEnds
<1>6. ASSUME NEW i \in Post, Deliver(i) \/ Lose(i)
      PROVE  PulseInv'
  <2>1. wire' = [wire EXCEPT ![i] = NoReport] /\ UNCHANGED <<chatServer, pulse>>
    BY <1>6 DEF Deliver, Lose
  <2>2. known'.sound
    BY <1>6 DEF Deliver, Lose
  <2> QED
    BY <2>1, <2>2
<1>7. CASE UNCHANGED <<chatServer, pulse, wire, known>>
  BY <1>7
<1> QED
  BY <1>1, <1>2, <1>3, <1>4, <1>5, <1>6, <1>7 DEF PulseNext, NamingStarts, NamingReady,
     NamingFails, NamingDies, NamingGoes, pulseVars

\* What the backend knows of llama-server ran at one moment while the report was made.
THEOREM ReportsAreTrue ==
  PulseInit /\ [][PulseNext]_pulseVars => []ReportsWereTrue
<1>1. PulseInit => PulseInv
  BY DEF PulseInit, PulseInv, ReportsWereTrue
<1>2. PulseInv => ReportsWereTrue
  BY DEF PulseInv
<1>3. PulseInv /\ [PulseNext]_pulseVars => PulseInv'
  BY PulseStep
<1> QED
  BY <1>1, <1>2, <1>3, PTL

-----------------------------------------------------------------------------

\* The memory of the cards together is a number of MB.
LEMMA VramIsNat == ASSUME NEW cards \in Seq(Nat) PROVE VramOf(cards) \in Nat
<1> DEFINE n == Len(cards)
           step == [i \in 1 .. n |-> [x \in Nat |-> x + cards[i]]]
           Eq(f) == f = [i \in 0 .. n |-> IF i = 0 THEN 0 ELSE f[i - 1] + cards[i]]
           sum == CHOOSE f : Eq(f)
<1>1. n \in Nat /\ 0 \in Nat /\ \A i \in 1 .. n : cards[i] \in Nat
  OBVIOUS
<1>2. step \in [1 .. n -> [Nat -> Nat]]
  <2>1. \A i \in 1 .. n : [x \in Nat |-> x + cards[i]] \in [Nat -> Nat]
    BY <1>1
  <2> QED
    BY <2>1
<1>3. PICK f \in [0 .. n -> Nat] : Computes(f, n, 0, step)
  <2> HIDE DEF n, step
  <2> QED
    BY <1>1, <1>2, Iterated
<1>4. f[0] = 0 /\ \A i \in 1 .. n : f[i] = f[i - 1] + cards[i]
  <2>0. \A i \in 1 .. n : i - 1 \in 0 .. n
    BY <1>1
  <2>1. \A i \in 1 .. n : f[i - 1] \in Nat /\ f[i] = step[i][f[i - 1]]
    <3> HIDE DEF n, step
    <3> QED
      BY <2>0, <1>3 DEF Computes
  <2>2. \A i \in 1 .. n : \A x \in Nat : step[i][x] = x + cards[i]
    OBVIOUS
  <2> QED
    BY <1>3, <2>1, <2>2 DEF Computes
<1>5. Eq(f)
  BY <1>4
<1>6. Eq(sum)
  <2> HIDE DEF Eq
  <2> QED
    BY <1>5
<1>7. VramOf(cards) = sum[n]
  BY DEF VramOf
<1> HIDE DEF sum
<1>8. sum[0] = 0 /\ \A i \in 1 .. n : sum[i] = sum[i - 1] + cards[i]
  <2>1. \A i \in 0 .. n : sum[i] = IF i = 0 THEN 0 ELSE sum[i - 1] + cards[i]
    BY <1>6
  <2> QED
    BY <1>1, <2>1
<1> DEFINE T == {i \in 0 .. n : sum[i] \in Nat}
<1>9. 0 \in T /\ \A i \in 1 .. n : i - 1 \in T => i \in T
  <2>1. 0 \in T
    BY <1>1, <1>8
  <2>2. ASSUME NEW i \in 1 .. n, sum[i - 1] \in Nat PROVE sum[i] \in Nat
    <3>1. sum[i] = sum[i - 1] + cards[i] /\ cards[i] \in Nat
      BY <1>1, <1>8
    <3> QED
      BY <2>2, <3>1
  <2> QED
    BY <1>1, <2>1, <2>2
<1>10. 0 .. n \subseteq T
  <2> HIDE DEF T
  <2> QED
    BY <1>1, <1>9, UpTo
<1> QED
  BY <1>1, <1>7, <1>10

\* A probe that finds a GPU tells its memory, and one that finds none says so.
LEMMA ProbeTypes ==
  ASSUME NEW h \in Machine
  PROVE  /\ Probe(h).class \in {"cpu", "cuda", "rocm"} /\ Probe(h).vram \in Nat /\ h.ram \in Nat
<1>1. h.nvidia \in Seq(Nat) /\ h.rocm \in Nat /\ h.ram \in Nat
  BY MachineAssumption
<1>2. VramOf(h.nvidia) \in Nat
  BY <1>1, VramIsNat
<1>3. AmdCards(h) # {} => FirstAmd(h).mb \in Nat
  <2> SUFFICES ASSUME AmdCards(h) # {} PROVE FirstAmd(h).mb \in Nat
    OBVIOUS
  <2> SUFFICES \E i \in AmdCards(h) : \A j \in AmdCards(h) : i <= j
    <3>1. \A i \in AmdCards(h) : h.drm[i].mb \in Nat
      <4>1. h.drm \in Seq(Card)
        BY MachineAssumption
      <4>2. \A i \in DOMAIN h.drm : h.drm[i] \in Card
        BY <4>1
      <4> QED
        BY <4>2 DEF AmdCards, Card
    <3> QED
      BY <3>1 DEF FirstAmd
  <2>1. AmdCards(h) \in SUBSET Nat
    <3>1. h.drm \in Seq(Card)
      BY MachineAssumption
    <3> QED
      BY <3>1 DEF AmdCards
  <2> QED
    BY <2>1, LeastNatural
<1> QED
  BY <1>1, <1>2, <1>3 DEF Probe, Cpu, Gpu

\* So does the estimate of a cache.
LEMMA CacheIsNat == ASSUME NEW ctx \in Nat, NEW mb \in Nat PROVE KvCache(ctx, mb) \in Nat
<1> DEFINE a == mb * ctx * 64
<1>1. a \in Nat
  OBVIOUS
<1> HIDE DEF a
<1>2. a \div 3125 \in Nat
  BY <1>1
<1> QED
  BY <1>2 DEF KvCache, Larger, a

\* The layers that the budget holds need no more than the reserve beyond it.
LEMMA LayersFit ==
  ASSUME NEW mb \in Nat \ {0}, NEW n \in Nat \ {0}, NEW budget \in Nat
  PROVE  LET L == Smaller(n, budget \div Larger(1, mb \div n)) IN
         L \in 0 .. n /\ (L * mb) \div n <= budget + n
<1> DEFINE q == mb \div n
           r == mb % n
           per == Larger(1, q)
           d == budget \div per
           L == Smaller(n, d)
<1>1. q \in Nat /\ r \in 0 .. n - 1 /\ mb = q * n + r
  OBVIOUS
<1>2. per \in Nat \ {0} /\ (q # 0 => per = q)
  BY <1>1 DEF Larger
<1> HIDE DEF q, r, per
<1>3. d \in Nat /\ d * per <= budget
  BY <1>2
<1> HIDE DEF d
<1>4. L \in 0 .. n /\ L <= d
  BY <1>3 DEF Smaller
<1> HIDE DEF L
<1>5. L * q <= budget
  <2>1. L * per <= d * per
    BY <1>2, <1>3, <1>4
  <2>2. CASE q = 0
    BY <1>4, <2>2
  <2>3. CASE q # 0
    BY <1>2, <1>3, <1>4, <2>1, <2>3
  <2> QED
    BY <2>2, <2>3
<1>6. L * mb <= (budget + n) * n
  <2> DEFINE Lq == L * q
             Lr == L * r
             bn == budget * n
             nn == n * n
  <2>1. L * mb = Lq * n + Lr
    BY <1>1, <1>4
  <2>2. Lq * n <= bn
    BY <1>1, <1>4, <1>5
  <2>3. Lr <= nn
    <3>1. Lr <= n * r
      BY <1>1, <1>4
    <3>2. n * r <= n * n
      BY <1>1
    <3> QED
      BY <1>1, <1>4, <3>1, <3>2
  <2>4. (budget + n) * n = bn + nn
    OBVIOUS
  <2>5. Lq * n \in Nat /\ Lr \in Nat /\ bn \in Nat /\ nn \in Nat
    BY <1>1, <1>4
  <2> DEFINE Lqn == Lq * n
  <2> HIDE DEF Lqn, Lq, Lr, bn, nn
  <2> QED
    BY <2>1, <2>2, <2>3, <2>4, <2>5 DEF Lqn
<1>7. (L * mb) \div n <= budget + n
  <2> DEFINE a == L * mb
             b == budget + n
             e == a \div n
  <2>1. a \in Nat /\ b \in Nat /\ a <= b * n
    BY <1>4, <1>6
  <2> HIDE DEF a, b
  <2>2. e \in Nat /\ e * n <= a
    BY <2>1
  <2> HIDE DEF e
  <2>3. e * n <= b * n
    BY <2>1, <2>2
  <2>4. e <= b
    <3> SUFFICES ASSUME b + 1 <= e PROVE FALSE
      BY <2>1, <2>2
    <3>1. (b + 1) * n <= e * n
      BY <2>1, <2>2
    <3>2. (b + 1) * n = b * n + n
      BY <2>1
    <3> DEFINE bn == b * n
               en == e * n
    <3>3. bn \in Nat /\ en \in Nat
      BY <2>1, <2>2
    <3> HIDE DEF bn, en
    <3> QED
      BY <3>1, <3>2, <3>3, <2>3 DEF bn, en
  <2> QED
    BY <2>4 DEF a, b, e
<1> QED
  BY <1>4, <1>7 DEF L, d, per, q

\* The configuration that is computed for a model fits in the machine.
LEMMA OptimalFits ==
  ASSUME NEW h \in Machine, NEW g \in Gguf, g.layers <= Overhead
  PROVE  FitsMemory(Probe(h), h.ram, g, Optimal(Probe(h), h, g))
<1> DEFINE c == Probe(h)
<1>1. /\ c.class \in {"cpu", "cuda", "rocm"} /\ c.vram \in Nat /\ h.ram \in Nat
      /\ g.mb \in Nat \ {0} /\ g.layers \in Nat
  BY ProbeTypes, MachineAssumption
<1> HIDE DEF c
<1>2. CASE c.class = "cpu"
  <2> DEFINE budget == h.ram - g.mb - 2048
             fits == {2} \cup {k \in {4, 8, 16} : budget >= 256 /\ KvCache(k, g.mb) <= budget}
             k == CpuCtx(h.ram, g.mb)
  <2>1. k \in fits
    <3> SUFFICES \E x \in fits : \A y \in fits : y <= x
      BY DEF CpuCtx
    <3> DEFINE In(x) == x \in fits
    <3>1. fits \subseteq {2, 4, 8, 16} /\ 2 \in fits
      OBVIOUS
    <3> HIDE DEF fits
    <3>2. CASE 16 \in fits
      BY <3>1, <3>2
    <3>3. CASE 16 \notin fits /\ 8 \in fits
      BY <3>1, <3>3
    <3>4. CASE 16 \notin fits /\ 8 \notin fits /\ 4 \in fits
      BY <3>1, <3>4
    <3>5. CASE 16 \notin fits /\ 8 \notin fits /\ 4 \notin fits
      BY <3>1, <3>5
    <3> QED
      BY <3>2, <3>3, <3>4, <3>5
  <2>2. k = 2 \/ KvCache(k, g.mb) <= budget
    BY <2>1
  <2>3. k \in Nat
    BY <2>1
  <2> HIDE DEF k
  <2>4. KvCache(k, g.mb) \in Nat
    BY <1>1, <2>3, CacheIsNat
  <2>5. k = 2 \/ g.mb + KvCache(k, g.mb) + 2048 <= h.ram
    BY <1>1, <2>2, <2>4
  <2>6. Optimal(c, h, g).layers = 0 /\ Optimal(c, h, g).ctx = k
    BY <1>2 DEF Optimal, k
  <2>7. FitsMemory(c, h.ram, g, Optimal(c, h, g))
    BY <1>2, <2>5, <2>6 DEF FitsMemory
  <2> QED
    BY <2>7 DEF c
<1>3. CASE c.class # "cpu"
  <2> DEFINE ctx == TierCtx(c.vram)
             fit == Smaller(ctx, PartialCtx)
             kv == KvCache(fit, g.mb)
             o == Optimal(c, h, g)
             f == FitGpuLayers(c.vram, g, ctx)
             budget == c.vram - kv - Overhead
  <2>1. o.layers = f.layers /\ o.ctx = f.ctx
    BY <1>3 DEF Optimal
  <2>2. ctx \in Nat /\ fit \in Nat
    <3>1. ctx \in {128, 64, 32, 16, 8, 4}
      <4> DEFINE v == c.vram
      <4>1. v \in Nat
        BY <1>1
      <4> HIDE DEF v
      <4>2. TierCtx(v) \in {128, 64, 32, 16, 8, 4}
        <5>1. CASE v >= 40000
          BY <4>1, <5>1 DEF TierCtx
        <5>2. CASE v \in 24000 .. 39999
          BY <4>1, <5>2 DEF TierCtx
        <5>3. CASE v \in 16000 .. 23999
          BY <4>1, <5>3 DEF TierCtx
        <5>4. CASE v \in 8000 .. 15999
          BY <4>1, <5>4 DEF TierCtx
        <5>5. CASE v \in 4000 .. 7999
          BY <4>1, <5>5 DEF TierCtx
        <5>6. CASE v < 4000
          BY <4>1, <5>6 DEF TierCtx
        <5> QED
          BY <4>1, <5>1, <5>2, <5>3, <5>4, <5>5, <5>6
      <4> QED
        BY <4>2 DEF v
    <3> HIDE DEF ctx
    <3> QED
      BY <3>1 DEF Smaller, PartialCtx
  <2> HIDE DEF ctx, fit
  <2>3. kv \in Nat
    BY <1>1, <2>2, CacheIsNat
  <2>4. CASE g.mb + KvCache(ctx, g.mb) + Overhead <= c.vram \/ g.layers = 0
    <3>1. f.layers = AllLayers /\ f.ctx = ctx
      BY <2>4 DEF FitGpuLayers
    <3> QED
      BY <1>3, <2>1, <2>4, <3>1 DEF FitsMemory, c
  <2>5. CASE ~(g.mb + KvCache(ctx, g.mb) + Overhead <= c.vram \/ g.layers = 0)
    <3>1. /\ f.layers = IF budget <= 0 THEN 0
                        ELSE Smaller(g.layers, budget \div Larger(1, g.mb \div g.layers))
          /\ f.ctx = fit
      BY <2>5 DEF FitGpuLayers, fit
    <3>2. CASE budget <= 0
      BY <1>3, <2>1, <3>1, <3>2 DEF FitsMemory, c
    <3>3. CASE ~(budget <= 0)
      <4> DEFINE mb == g.mb
                 n == g.layers
                 L == f.layers
      <4>1. budget \in Nat /\ mb \in Nat \ {0} /\ n \in Nat \ {0} /\ n <= 1024
        BY <1>1, <2>3, <2>5, <3>3 DEF Overhead
      <4>2. L = Smaller(n, budget \div Larger(1, mb \div n))
        BY <3>1, <3>3
      <4>3. budget + 1024 + kv = c.vram
        BY <1>1, <2>3 DEF Overhead
      <4> HIDE DEF budget, mb, n, L, kv, f, o
      <4>4. L \in 0 .. n /\ (L * mb) \div n <= budget + n
        BY <4>1, <4>2, LayersFit
      <4> DEFINE part == (L * mb) \div n
      <4>5. part \in Int
        BY <4>1, <4>4
      <4>6. part <= budget + n
        BY <4>4
      <4> HIDE DEF part
      <4>7. part + kv <= c.vram
        BY <1>1, <2>3, <4>1, <4>3, <4>5, <4>6
      <4>8. L = 0 \/ L \in 1 .. n
        BY <4>1, <4>4
      <4>9. o.layers = L /\ o.ctx = fit
        BY <2>1, <3>1 DEF L
      <4>10. FitsMemory(c, h.ram, g, o)
        BY <1>3, <4>7, <4>8, <4>9 DEF FitsMemory, part, kv, mb, n
      <4> QED
        BY <4>10 DEF c, o
    <3> QED
      BY <3>2, <3>3
  <2> QED
    BY <2>4, <2>5
<1> QED
  BY <1>2, <1>3

-----------------------------------------------------------------------------

\* A server that runs with what was computed for it runs with the optimum of its machine.
HardwareInv ==
  /\ seen \in Machine
  /\ running =>
       /\ ~Refused(conf)
       /\ tuned => model \in Gguf /\ conf = Optimal(Probe(seen), seen, model)

\* llama-server runs with a configuration that fits the machine the agent found, for any
\* machines and models whose layers the reserve of the GPU can round up
\* (compute_optimal_config, _build_cmd).
THEOREM ConfigsFit ==
  ASSUME \A g \in Gguf : g.layers <= Overhead
  PROVE  HardwareSpec => []ConfigFits
<1>1. HardwareInit => HardwareInv
  BY DEF HardwareInit, HardwareInv
<1>2. HardwareInv /\ [HardwareNext]_hardwareVars => HardwareInv'
  <2> SUFFICES ASSUME HardwareInv, [HardwareNext]_hardwareVars PROVE HardwareInv'
    OBVIOUS
  <2>1. CASE PatchConf
    BY <2>1 DEF PatchConf, HardwareInv, Refused
  <2>2. CASE RestartPatched
    BY <2>2 DEF RestartPatched, StartWith, HardwareInv, Refused
  <2>3. CASE UnloadGguf
    BY <2>3 DEF UnloadGguf, HardwareInv
  <2>4. CASE Reboot
    BY <2>4 DEF Reboot, Booted, HardwareInv
  <2>5. ASSUME NEW g \in Gguf, LoadGguf(g) PROVE HardwareInv'
    BY <2>5 DEF LoadGguf, StartWith, HardwareInv, Refused
  <2>6. CASE UNCHANGED hardwareVars
    BY <2>6 DEF hardwareVars, HardwareInv, Refused
  <2> QED
    BY <2>1, <2>2, <2>3, <2>4, <2>5, <2>6 DEF HardwareNext
<1>3. HardwareInv => ConfigFits
  BY OptimalFits DEF HardwareInv, ConfigFits
<1> QED
  BY <1>1, <1>2, <1>3, PTL DEF HardwareSpec

=============================================================================
