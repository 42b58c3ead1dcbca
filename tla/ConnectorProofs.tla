--------------------------- MODULE ConnectorProofs ---------------------------
(***************************************************************************)
(* The promises of a connector: its token fits its container, for any      *)
(* number of requests, runs of the monitor, sockets and tokens, the        *)
(* messages of a channel share one conversation, for any number of them,   *)
(* events come in order, and Discord shows a command as it was written.    *)
(***************************************************************************)
EXTENDS ConnectorLife, ConnectorRoutes, EventHub, DiscordBot, SequenceFacts, TLAPS

(***************************************************************************)
(* TokenMatches speaks of the moments between two operations.  The         *)
(* invariant says of each step of an operation what it has made sure of:   *)
(* a new token is stored first and fits no container, then the old         *)
(* container is stopped and removed, and only then a new one gets it.      *)
(***************************************************************************)

ProcRec == [pc : {"idle", "clear", "remove", "run", "stop", "rm", "inspect", "store", "delete",
                  "decide"},
            kind : {"none", "start", "stop", "delete", "refresh"},
            enabled : BOOLEAN, status : Status, cid : Token,
            token : Token, old : Token, state : Status, box : Token]
RowRec == [there : BOOLEAN, enabled : BOOLEAN, status : Status, cid : Token, hash : Token]
BoxRec == [state : {"none", "up", "exited", "failed"}, token : Token]

\* The container that is up was given the token of the row.
Fits(rw, b) == b.state = "up" => b.token = rw.hash

\* What an operation has made sure of when it is at r.
Sure(r, rw, b) ==
  /\ r.pc \in {"clear", "remove", "run"} => r.kind = "start" /\ r.token = rw.hash
  /\ r.pc \in {"remove", "rm"} => b.state # "up" /\ b.token = r.old
  /\ r.pc \in {"run", "delete"} => b.state = "none"
  /\ r.pc \in {"stop", "inspect", "store", "decide"} => Fits(rw, b)
  /\ r.pc \in {"inspect", "decide"} => r.kind # "delete"
  /\ (r.pc = "store" /\ r.kind = "delete") => b.state = "none"

Steady(rw, b) == IF rw.there THEN Fits(rw, b) ELSE b.state = "none"

OneByOne ==
  /\ \A p, q \in Proc : p = q \/ ProcAt(p, "idle") \/ ProcAt(q, "idle")
  /\ \A p \in Proc : ~ProcAt(p, "idle") => row.there /\ Sure(proc[p], row, box)
  /\ Quiet => Steady(row, box)

LifeInv == LifeTypeOK /\ (Serial => OneByOne)

-----------------------------------------------------------------------------

\* The step of one operation, when no other one is under way.
LEMMA OneGoesOn ==
  ASSUME LifeTypeOK, Serial => OneByOne, faults' = faults,
         NEW p \in Proc, NEW r \in ProcRec, proc' = [proc EXCEPT ![p] = r],
         Serial => ~ProcAt(p, "idle") \/ Quiet,
         (Serial /\ r.pc = "idle") => Steady(row', box'),
         (Serial /\ r.pc # "idle") => row'.there /\ Sure(r, row', box')
  PROVE  proc' \in [Proc -> ProcRec] /\ (Serial => OneByOne)'
<1>1. proc \in [Proc -> ProcRec]
  BY DEF LifeTypeOK, ProcRec
<1>2. /\ proc' \in [Proc -> ProcRec] /\ proc'[p] = r
      /\ \A q \in Proc \ {p} : proc'[q] = proc[q]
  BY <1>1
<1>3. ASSUME Serial PROVE OneByOne'
  <2>1. \A q \in Proc \ {p} : proc[q].pc = "idle"
    BY <1>3 DEF OneByOne, Quiet, ProcAt
  <2>2. \A q \in Proc : proc'[q].pc # "idle" => q = p
    BY <1>2, <2>1
  <2> QED
    BY <1>2, <1>3, <2>2 DEF OneByOne, ProcAt, Quiet
<1> QED
  BY <1>2, <1>3 DEF Serial

\* A step of the rest of the world, that leaves tokens and containers as sure as they were.
LEMMA WorldGoesOn ==
  ASSUME LifeInv, UNCHANGED <<proc, tokens, faults>>, row' \in RowRec, box' \in BoxRec,
         socket' \in [Socket -> [token : Token, live : BOOLEAN]], events' \in 0 .. MaxEvents,
         Serial => /\ row'.there = row.there /\ row'.hash = row.hash
                   /\ box'.token = box.token
                   /\ box' = box \/ (box.state = "up" /\ box'.state # "none")
                   /\ box'.state = "up" => box.state = "up"
  PROVE  LifeInv'
<1>1. LifeTypeOK'
  BY DEF LifeInv, LifeTypeOK, RowRec, BoxRec
<1>2. ASSUME Serial PROVE OneByOne'
  <2>1. \A p \in Proc : ~ProcAt(p, "idle") => row'.there /\ Sure(proc[p], row', box')
    BY <1>2 DEF LifeInv, OneByOne, Sure, Fits
  <2>2. Quiet => Steady(row', box')
    BY <1>2 DEF LifeInv, OneByOne, Steady, Fits
  <2> QED
    BY <1>2, <2>1, <2>2 DEF LifeInv, OneByOne, ProcAt, Quiet
<1> QED
  BY <1>1, <1>2 DEF LifeInv, Serial

\* The parts of the type, one by one.
LEMMA LifeParts ==
  ASSUME LifeTypeOK
  PROVE  /\ row \in RowRec /\ box \in BoxRec /\ proc \in [Proc -> ProcRec]
         /\ tokens \in Token /\ events \in 0 .. MaxEvents
         /\ \A n \in Token : n \in Nat /\ 0 <= n /\ n <= MaxToken
         /\ NoBox \in BoxRec /\ 0 \in Token
BY BoundAssumption DEF LifeTypeOK, RowRec, BoxRec, ProcRec, NoBox, Token

\* Requests are counted, and tokens are not used up.
LEMMA Counted ==
  ASSUME LifeTypeOK
  PROVE  /\ Spend => events' \in 0 .. MaxEvents
         /\ Rotate => tokens' \in Token /\ tokens' = tokens + 1 /\ tokens + 1 \in Token
<1>1. events \in 0 .. MaxEvents /\ tokens \in 0 .. MaxToken /\ MaxEvents \in Nat /\ MaxToken \in Nat
  BY BoundAssumption DEF LifeTypeOK, Token
<1>2. Spend => events' \in 0 .. MaxEvents
  BY <1>1 DEF Spend
<1>3. Rotate => tokens' \in Token /\ tokens' = tokens + 1 /\ tokens + 1 \in Token
  BY <1>1 DEF Rotate, Token
<1> QED
  BY <1>2, <1>3

\* The invariant, from what the step of an operation changes.
LEMMA StepTyped ==
  ASSUME LifeInv, NEW p \in Proc, NEW r \in ProcRec, proc' = [proc EXCEPT ![p] = r],
         UNCHANGED <<socket, faults>>, row' \in RowRec, box' \in BoxRec,
         tokens' \in Token, events' \in 0 .. MaxEvents,
         Serial => ~ProcAt(p, "idle") \/ Quiet,
         (Serial /\ r.pc = "idle") => Steady(row', box'),
         (Serial /\ r.pc # "idle") => row'.there /\ Sure(r, row', box')
  PROVE  LifeInv'
<1>1. LifeTypeOK /\ (Serial => OneByOne)
  BY DEF LifeInv
<1>2. proc' \in [Proc -> ProcRec] /\ (Serial => OneByOne)'
  BY <1>1, OneGoesOn
<1>3. LifeTypeOK'
  BY <1>1, <1>2 DEF LifeTypeOK, RowRec, BoxRec, ProcRec
<1> QED
  BY <1>2, <1>3 DEF LifeInv

\* An operation begins when no other one is under way, with its token if it starts.
LEMMA BeginStep ==
  ASSUME LifeInv, NEW p \in Proc, NEW pc, NEW kind, Begin(p, pc, kind),
         \/ pc = "clear" /\ kind = "start" /\ row'.hash = tokens + 1 /\ tokens + 1 \in Token
         \/ pc = "stop" /\ kind \in {"stop", "delete"} /\ row'.hash = row.hash
         \/ pc = "inspect" /\ kind \in {"none", "refresh"} /\ row'.hash = row.hash,
         UNCHANGED <<box, socket, faults>>, row' \in RowRec, row'.there = row.there,
         tokens' \in Token, events' \in 0 .. MaxEvents
  PROVE  LifeInv'
<1> DEFINE token == IF kind = "start" THEN tokens + 1 ELSE 0
           r == [IdleProc EXCEPT !.pc = pc, !.kind = kind, !.enabled = row.enabled,
                   !.status = row.status, !.cid = row.cid, !.token = token]
<1>1. LifeTypeOK /\ row \in RowRec /\ 0 \in Token /\ box \in BoxRec
  BY LifeParts DEF LifeInv
<1>2. token \in Token /\ (kind = "start" => token = tokens + 1)
  BY <1>1
<1>3. proc' = [proc EXCEPT ![p] = r]
  BY DEF Begin
<1> HIDE DEF token
<1>4. r \in ProcRec /\ r.pc = pc /\ r.kind = kind /\ r.token = token /\ pc # "idle"
  BY <1>1, <1>2 DEF IdleProc, ProcRec, RowRec, Status
<1> HIDE DEF r
<1>5. row.there
  BY DEF Begin
<1>6. Serial => Quiet /\ OneByOne
  BY DEF Begin, Serial, LifeInv
<1>7. Serial => Sure(r, row', box')
  BY <1>2, <1>4, <1>5, <1>6 DEF Sure, Steady, OneByOne, Fits
<1> QED
  BY <1>1, <1>3, <1>4, <1>5, <1>6, <1>7, StepTyped

\* Requests, commands and the runs of the monitor begin.
LEMMA RequestStep ==
  ASSUME LifeInv,
         \/ \E j \in Job : Start(j) \/ Stop(j) \/ Delete(j) \/ Refresh(j)
         \/ \E m \in Monitor : Watch(m)
  PROVE  LifeInv'
<1>1. LifeTypeOK /\ row \in RowRec /\ tokens \in Token /\ events \in 0 .. MaxEvents
      /\ Job \subseteq Proc /\ Monitor \subseteq Proc
  BY LifeParts DEF LifeInv, Proc
<1>2. ASSUME NEW j \in Job, Start(j) PROVE LifeInv'
  <2>1. PICK on \in {row.enabled, TRUE} : row' = [row EXCEPT !.hash = tokens', !.enabled = on]
    BY <1>2 DEF Start
  <2>2. /\ tokens' = tokens + 1 /\ tokens + 1 \in Token /\ tokens' \in Token
        /\ events' \in 0 .. MaxEvents
    BY <1>1, <1>2, Counted DEF Start
  <2>3. row' \in RowRec /\ row'.hash = tokens + 1 /\ row'.there = row.there
    BY <1>1, <2>1, <2>2 DEF RowRec
  <2> QED
    BY <1>1, <1>2, <2>2, <2>3, BeginStep DEF Start
<1>3. ASSUME NEW j \in Job, Stop(j) \/ Delete(j) \/ Refresh(j) PROVE LifeInv'
  <2>1. events' \in 0 .. MaxEvents /\ UNCHANGED <<row, box, socket, tokens, faults>>
    BY <1>1, <1>3, Counted DEF Stop, Delete, Refresh
  <2> QED
    BY <1>1, <1>3, <2>1, BeginStep DEF Stop, Delete, Refresh
<1>4. ASSUME NEW m \in Monitor, Watch(m) PROVE LifeInv'
  BY <1>1, <1>4, BeginStep DEF Watch
<1> QED
  BY <1>2, <1>3, <1>4

\* What Done writes.
LEMMA DoneStep ==
  ASSUME LifeInv, NEW p \in Proc, NEW state \in Status, NEW cid \in Token, Done(p, state, cid),
         ~ProcAt(p, "idle"), UNCHANGED <<row, socket, tokens, faults>>,
         box' \in BoxRec, events' \in 0 .. MaxEvents,
         Serial => Fits(row, box') /\ (proc[p].kind = "delete" => box'.state = "none")
  PROVE  LifeInv'
<1> DEFINE r == [proc[p] EXCEPT !.pc = "store", !.state = state, !.box = cid]
<1>1. LifeTypeOK /\ row \in RowRec /\ proc \in [Proc -> ProcRec] /\ tokens \in Token
  BY LifeParts DEF LifeInv
<1>2. proc' = [proc EXCEPT ![p] = r]
  BY DEF Done
<1>3. r \in ProcRec /\ r.pc = "store" /\ r.kind = proc[p].kind
  BY <1>1 DEF ProcRec
<1> HIDE DEF r
<1>4. Serial => row.there
  BY DEF LifeInv, OneByOne
<1>5. Serial => Sure(r, row, box')
  BY <1>3 DEF Sure
<1> QED
  BY <1>1, <1>2, <1>3, <1>4, <1>5, StepTyped

\* What an operation does when it goes to another step, or remembers the container.
LEMMA GotoStep ==
  ASSUME LifeInv, NEW p \in Proc, NEW pc, pc \in {"run", "remove", "rm"}, NEW old \in Token,
         ProcGoto(p, pc) \/ proc' = [proc EXCEPT ![p].pc = pc, ![p].old = old],
         pc # "run" => proc' = [proc EXCEPT ![p].pc = pc, ![p].old = old],
         ~ProcAt(p, "idle"), UNCHANGED <<row, socket, tokens, faults>>,
         box' \in BoxRec, events' \in 0 .. MaxEvents,
         Serial => /\ pc \in {"run", "remove"} => proc[p].kind = "start" /\ proc[p].token = row.hash
                   /\ pc \in {"remove", "rm"} => box'.state # "up" /\ box'.token = old
                   /\ pc = "run" => box'.state = "none"
  PROVE  LifeInv'
<1> DEFINE r == [proc[p] EXCEPT !.pc = pc]
           s == [proc[p] EXCEPT !.pc = pc, !.old = old]
<1>1. LifeTypeOK /\ row \in RowRec /\ proc \in [Proc -> ProcRec] /\ tokens \in Token
  BY LifeParts DEF LifeInv
<1>2. proc' = [proc EXCEPT ![p] = s] \/ (pc = "run" /\ proc' = [proc EXCEPT ![p] = r])
  BY DEF ProcGoto
<1>3. /\ r \in ProcRec /\ r.pc = pc /\ r.kind = proc[p].kind /\ r.token = proc[p].token
      /\ s \in ProcRec /\ s.pc = pc /\ s.kind = proc[p].kind /\ s.token = proc[p].token
      /\ s.old = old
  <2>1. proc[p] \in ProcRec /\ pc \in {"idle", "clear", "remove", "run", "stop", "rm", "inspect",
                                        "store", "delete", "decide"}
    BY <1>1
  <2>2. r \in ProcRec /\ r.pc = pc /\ r.kind = proc[p].kind /\ r.token = proc[p].token
    BY <2>1 DEF ProcRec
  <2>3. /\ s \in ProcRec /\ s.pc = pc /\ s.kind = proc[p].kind /\ s.token = proc[p].token
        /\ s.old = old
    BY <2>1 DEF ProcRec
  <2> QED
    BY <2>2, <2>3
<1> HIDE DEF r, s
<1>4. Serial => row.there
  BY DEF LifeInv, OneByOne
<1>5. Serial => Sure(s, row, box') /\ (pc = "run" => Sure(r, row, box'))
  BY <1>3 DEF Sure
<1>6. CASE proc' = [proc EXCEPT ![p] = s]
  BY <1>1, <1>3, <1>4, <1>5, <1>6, StepTyped
<1>7. CASE pc = "run" /\ proc' = [proc EXCEPT ![p] = r]
  BY <1>1, <1>3, <1>4, <1>5, <1>7, StepTyped
<1> QED
  BY <1>2, <1>6, <1>7

\* The steps of a start: the old container is stopped and removed before the new one gets
\* the token.
LEMMA StartSteps ==
  ASSUME LifeInv, NEW p \in Proc, Unready(p) \/ StopOld(p) \/ RemoveOld(p) \/ RunBox(p)
  PROVE  LifeInv'
<1>1. /\ LifeTypeOK /\ row \in RowRec /\ box \in BoxRec /\ proc[p] \in ProcRec
      /\ events \in 0 .. MaxEvents /\ NoBox \in BoxRec /\ 0 \in Token
  BY LifeParts DEF LifeInv
<1>2. /\ Spend => events' \in 0 .. MaxEvents
      /\ "image" \in faults \/ "stuck" \in faults => ~Serial
      /\ "crashed" \in Status /\ "starting" \in Status
  BY <1>1, Counted DEF Serial, Status
<1>3. Serial => (~ProcAt(p, "idle") => Sure(proc[p], row, box))
  BY DEF LifeInv, OneByOne
<1>4. proc[p].cid \in Token /\ proc[p].token \in Token /\ box.token \in Token
  BY <1>1 DEF ProcRec, BoxRec
<1>5. CASE Unready(p)
  <2>1. /\ "image" \in faults /\ ~ProcAt(p, "idle") /\ UNCHANGED <<row, box, socket, tokens, faults>>
        /\ events' \in 0 .. MaxEvents
    BY <1>2, <1>5 DEF Unready, ProcAt
  <2>2. PICK cid \in Token : Done(p, "crashed", cid)
    BY <1>1, <1>4, <1>5 DEF Unready
  <2> QED
    BY <1>1, <1>2, <2>1, <2>2, DoneStep
<1>6. CASE StopOld(p)
  <2>1. /\ ProcAt(p, "clear") /\ ~ProcAt(p, "idle") /\ proc[p].pc = "clear"
        /\ UNCHANGED <<row, socket, tokens, faults>>
    BY <1>6 DEF StopOld, ProcAt
  <2>2. Serial => proc[p].kind = "start" /\ proc[p].token = row.hash
    BY <1>3, <2>1 DEF Sure
  <2>3. CASE box.state = "none" /\ ProcGoto(p, "run") /\ UNCHANGED <<box, events>>
    BY <1>1, <2>1, <2>2, <2>3, GotoStep
  <2>4. CASE /\ box.state # "none"
             /\ box' = IF box.state = "up" THEN [box EXCEPT !.state = "exited"] ELSE box
             /\ proc' = [proc EXCEPT ![p].pc = "remove", ![p].old = box.token]
             /\ events' = events
    <3>1. box' \in BoxRec /\ box'.state # "up" /\ box'.token = box.token
      BY <1>1, <2>4 DEF BoxRec
    <3> QED
      BY <1>1, <1>4, <2>1, <2>2, <2>4, <3>1, GotoStep
  <2>5. CASE "stuck" \in faults /\ Spend /\ ProcGoto(p, "run") /\ box' = box
    BY <1>1, <1>2, <2>1, <2>5, GotoStep
  <2> QED
    BY <1>6, <2>3, <2>4, <2>5 DEF StopOld
<1>7. CASE RemoveOld(p)
  <2>1. /\ ~ProcAt(p, "idle") /\ proc[p].pc = "remove" /\ ProcGoto(p, "run")
        /\ UNCHANGED <<row, socket, tokens, faults>>
    BY <1>7 DEF RemoveOld, ProcAt
  <2>2. Serial => proc[p].kind = "start" /\ proc[p].token = row.hash /\ box.token = proc[p].old
    BY <1>3, <2>1 DEF Sure
  <2>3. /\ box' \in BoxRec /\ events' \in 0 .. MaxEvents
        /\ Serial => box'.state = "none"
    BY <1>1, <1>2, <1>7, <2>2 DEF RemoveOld, NoBox
  <2> QED
    BY <1>1, <2>1, <2>2, <2>3, GotoStep
<1>8. CASE RunBox(p)
  <2>1. /\ ~ProcAt(p, "idle") /\ proc[p].pc = "run" /\ UNCHANGED <<row, socket, tokens, faults>>
    BY <1>8 DEF RunBox, ProcAt
  <2>2. Serial => proc[p].kind = "start" /\ proc[p].token = row.hash /\ box.state = "none"
    BY <1>3, <2>1 DEF Sure
  <2>3. PICK state \in {"crashed", "starting"}, cid \in {0, proc[p].token} :
          Done(p, state, cid)
    BY <1>8 DEF RunBox
  <2>4. box' \in {box, NoBox, [state |-> "up", token |-> proc[p].token],
                  [state |-> "failed", token |-> proc[p].token]}
    BY <1>8 DEF RunBox
  <2>5. box' \in BoxRec /\ (Serial => Fits(row, box'))
    BY <1>1, <1>4, <2>2, <2>4 DEF BoxRec, Fits, NoBox
  <2>6. events' \in 0 .. MaxEvents
    BY <1>1, <1>2, <1>8 DEF RunBox
  <2>7. state \in Status /\ cid \in Token
    BY <1>1, <1>2, <1>4
  <2> QED
    BY <2>1, <2>2, <2>3, <2>5, <2>6, <2>7, DoneStep
<1> QED
  BY <1>5, <1>6, <1>7, <1>8

\* The steps of a stop.
LEMMA StopSteps ==
  ASSUME LifeInv, NEW p \in Proc, StopBox(p) \/ RemoveBox(p) \/ Inspect(p)
  PROVE  LifeInv'
<1>1. /\ LifeTypeOK /\ row \in RowRec /\ box \in BoxRec /\ proc[p] \in ProcRec
      /\ events \in 0 .. MaxEvents /\ NoBox \in BoxRec /\ 0 \in Token
  BY LifeParts DEF LifeInv
<1>2. /\ Spend => events' \in 0 .. MaxEvents
      /\ "stuck" \in faults => ~Serial
      /\ "crashed" \in Status /\ "stopped" \in Status
  BY <1>1, Counted DEF Serial, Status
<1>3. Serial => (~ProcAt(p, "idle") => Sure(proc[p], row, box))
  BY DEF LifeInv, OneByOne
<1>4. box.token \in Token /\ StateOf(box) \in Status
  BY <1>1 DEF BoxRec, StateOf, Status
<1>5. CASE StopBox(p)
  <2>1. /\ ~ProcAt(p, "idle") /\ proc[p].pc = "stop" /\ UNCHANGED <<row, socket, tokens, faults>>
    BY <1>5 DEF StopBox, ProcAt
  <2>2. CASE box.state = "none" /\ Done(p, "stopped", 0) /\ UNCHANGED <<box, events>>
    BY <1>1, <1>2, <2>1, <2>2, DoneStep DEF Fits
  <2>3. CASE /\ box' = IF box.state = "up" THEN [box EXCEPT !.state = "exited"] ELSE box
             /\ proc' = [proc EXCEPT ![p].pc = "rm", ![p].old = box.token]
             /\ events' = events
    <3>1. box' \in BoxRec /\ box'.state # "up" /\ box'.token = box.token
      BY <1>1, <2>3 DEF BoxRec
    <3> QED
      BY <1>1, <1>4, <2>1, <2>3, <3>1, GotoStep
  <2>4. CASE "stuck" \in faults /\ Spend /\ Done(p, "crashed", 0) /\ box' = box
    BY <1>1, <1>2, <2>1, <2>4, DoneStep
  <2> QED
    BY <1>5, <2>2, <2>3, <2>4 DEF StopBox
<1>6. CASE RemoveBox(p)
  <2>1. /\ ~ProcAt(p, "idle") /\ proc[p].pc = "rm" /\ UNCHANGED <<row, socket, tokens, faults>>
    BY <1>6 DEF RemoveBox, ProcAt
  <2>2. Serial => box.state # "up" /\ box.token = proc[p].old
    BY <1>3, <2>1 DEF Sure
  <2>3. PICK state \in {"stopped", "crashed"} : Done(p, state, 0)
    BY <1>6 DEF RemoveBox
  <2>4. /\ box' \in BoxRec /\ events' \in 0 .. MaxEvents
        /\ Serial => box'.state = "none"
    BY <1>1, <1>2, <1>6, <2>2 DEF RemoveBox, NoBox
  <2>5. Serial => Fits(row, box')
    BY <2>4 DEF Fits
  <2> QED
    BY <1>1, <1>2, <2>1, <2>3, <2>4, <2>5, DoneStep
<1>7. CASE Inspect(p)
  <2>1. /\ ~ProcAt(p, "idle") /\ proc[p].pc = "inspect"
        /\ UNCHANGED <<row, box, socket, tokens, events, faults>>
        /\ Done(p, StateOf(box), box.token)
    BY <1>7 DEF Inspect, ProcAt
  <2>2. Serial => Fits(row, box) /\ proc[p].kind # "delete"
    BY <1>3, <2>1 DEF Sure
  <2> QED
    BY <1>1, <1>4, <2>1, <2>2, DoneStep
<1> QED
  BY <1>5, <1>6, <1>7

\* The commit of an operation, and what follows it.
LEMMA StoreSteps ==
  ASSUME LifeInv, NEW p \in Proc, Store(p) \/ DeleteRow(p) \/ Decide(p)
  PROVE  LifeInv'
<1>1. /\ LifeTypeOK /\ row \in RowRec /\ box \in BoxRec /\ proc[p] \in ProcRec
      /\ events \in 0 .. MaxEvents /\ tokens \in Token /\ 0 \in Token
  BY LifeParts DEF LifeInv
<1>2. Serial => (~ProcAt(p, "idle") => row.there /\ Sure(proc[p], row, box))
  BY DEF LifeInv, OneByOne
<1>3. IdleProc \in ProcRec /\ IdleProc.pc = "idle"
  BY <1>1 DEF IdleProc, ProcRec, Status
<1>4. CASE Store(p)
  <2> DEFINE q == proc[p]
             status == IF q.state = q.status THEN row.status ELSE q.state
             cid == IF q.box = q.cid THEN row.cid ELSE q.box
             deletes == [q EXCEPT !.pc = "delete"]
             decides == [q EXCEPT !.pc = "decide", !.status = q.state, !.cid = q.box]
  <2>1. /\ ~ProcAt(p, "idle") /\ q.pc = "store" /\ UNCHANGED <<box, socket, tokens, events, faults>>
        /\ row' = IF row.there THEN [row EXCEPT !.status = status, !.cid = cid] ELSE row
        /\ \/ row.there /\ q.kind = "delete" /\ proc' = [proc EXCEPT ![p] = deletes]
           \/ row.there /\ q.kind = "none" /\ proc' = [proc EXCEPT ![p] = decides]
           \/ proc' = [proc EXCEPT ![p] = IdleProc]
    <3>1. proc' = [proc EXCEPT ![p] =
            CASE row.there /\ q.kind = "delete" -> deletes
              [] row.there /\ q.kind = "none" -> decides
              [] OTHER -> IdleProc]
      BY <1>4 DEF Store
    <3>2. /\ ~ProcAt(p, "idle") /\ q.pc = "store" /\ UNCHANGED <<box, socket, tokens, events, faults>>
          /\ row' = IF row.there THEN [row EXCEPT !.status = status, !.cid = cid] ELSE row
      BY <1>4 DEF Store, ProcAt
    <3> HIDE DEF deletes, decides
    <3>3. CASE row.there /\ q.kind = "delete"
      BY <3>1, <3>2, <3>3
    <3>4. CASE row.there /\ q.kind = "none"
      BY <3>1, <3>2, <3>4
    <3>5. CASE ~(row.there /\ q.kind = "delete") /\ ~(row.there /\ q.kind = "none")
      BY <3>1, <3>2, <3>5
    <3> QED
      BY <3>3, <3>4, <3>5
  <2>2. status \in Status /\ cid \in Token
    BY <1>1 DEF ProcRec, RowRec
  <2> HIDE DEF status, cid
  <2>3. row' \in RowRec /\ row'.there = row.there /\ row'.hash = row.hash
    BY <1>1, <2>1, <2>2 DEF RowRec
  <2>4. /\ deletes \in ProcRec /\ deletes.pc = "delete" /\ deletes.kind = q.kind
        /\ decides \in ProcRec /\ decides.pc = "decide" /\ decides.kind = q.kind
    BY <1>1 DEF ProcRec
  <2> HIDE DEF deletes, decides
  <2>5. Serial => row.there /\ Fits(row', box) /\ (q.kind = "delete" => box.state = "none")
    BY <1>2, <2>1, <2>3 DEF Sure, Fits
  <2>6. Serial => Steady(row', box)
    BY <2>3, <2>5 DEF Steady
  <2>7. CASE q.kind = "delete" /\ proc' = [proc EXCEPT ![p] = deletes]
    <3>1. Serial => Sure(deletes, row', box)
      BY <2>4, <2>5, <2>7 DEF Sure
    <3> QED
      BY <1>1, <2>1, <2>3, <2>4, <2>5, <2>7, <3>1, StepTyped
  <2>8. CASE q.kind = "none" /\ proc' = [proc EXCEPT ![p] = decides]
    <3>1. Serial => Sure(decides, row', box)
      BY <2>4, <2>5, <2>8 DEF Sure
    <3> QED
      BY <1>1, <2>1, <2>3, <2>4, <2>5, <2>8, <3>1, StepTyped
  <2>9. CASE proc' = [proc EXCEPT ![p] = IdleProc]
    BY <1>1, <1>3, <2>1, <2>3, <2>6, <2>9, StepTyped
  <2> QED
    BY <2>1, <2>7, <2>8, <2>9
<1>5. CASE DeleteRow(p)
  <2>1. /\ ~ProcAt(p, "idle") /\ proc[p].pc = "delete" /\ proc' = [proc EXCEPT ![p] = IdleProc]
        /\ row' = [row EXCEPT !.there = FALSE] /\ UNCHANGED <<box, socket, tokens, events, faults>>
    BY <1>5 DEF DeleteRow, ProcAt
  <2>2. row' \in RowRec /\ ~row'.there
    BY <1>1, <2>1 DEF RowRec
  <2>3. Serial => Steady(row', box')
    BY <1>2, <2>1, <2>2 DEF Sure, Steady
  <2> QED
    BY <1>1, <1>3, <2>1, <2>2, <2>3, StepTyped
<1>6. CASE Decide(p)
  <2>1. /\ ~ProcAt(p, "idle") /\ proc[p].pc = "decide" /\ UNCHANGED <<box, socket, events, faults>>
    BY <1>6 DEF Decide, ProcAt
  <2>2. CASE /\ row.there /\ Rotate /\ row' = [row EXCEPT !.hash = tokens']
             /\ proc' = [proc EXCEPT ![p].pc = "clear", ![p].kind = "start", ![p].token = tokens']
    <3>1. tokens' \in Token
      BY <1>1, <2>2, Counted
    <3> DEFINE r == [proc[p] EXCEPT !.pc = "clear", !.kind = "start", !.token = tokens']
    <3>2. proc' = [proc EXCEPT ![p] = r]
      BY <2>2
    <3>3. r \in ProcRec /\ r.pc = "clear" /\ r.kind = "start" /\ r.token = tokens'
      BY <1>1, <3>1 DEF ProcRec
    <3> HIDE DEF r
    <3>4. row' \in RowRec /\ row'.there /\ row'.hash = tokens'
      BY <1>1, <2>2, <3>1 DEF RowRec
    <3>5. Sure(r, row', box')
      BY <3>3, <3>4 DEF Sure
    <3> QED
      BY <1>1, <2>1, <3>1, <3>2, <3>3, <3>4, <3>5, StepTyped
  <2>3. CASE proc' = [proc EXCEPT ![p] = IdleProc] /\ UNCHANGED <<row, tokens>>
    <3>1. Serial => Steady(row', box')
      BY <1>2, <2>1, <2>3 DEF Sure, Steady
    <3> QED
      BY <1>1, <1>3, <2>1, <2>3, <3>1, StepTyped
  <2> QED
    BY <1>6, <2>2, <2>3 DEF Decide
<1> QED
  BY <1>4, <1>5, <1>6

\* What happens to the row, the container and the sockets besides.
LEMMA WorldSteps ==
  ASSUME LifeInv,
         \/ Patch \/ Install \/ BoxDies
         \/ \E s \in Socket : Connect(s) \/ Speak(s) \/ Drop(s) \/ Close(s)
  PROVE  LifeInv'
<1>1. /\ LifeTypeOK /\ row \in RowRec /\ box \in BoxRec /\ tokens \in Token
      /\ events \in 0 .. MaxEvents /\ 0 \in Token
      /\ socket \in [Socket -> [token : Token, live : BOOLEAN]]
  BY LifeParts DEF LifeInv, LifeTypeOK
<1>2. Spend => events' \in 0 .. MaxEvents
  BY <1>1, Counted
<1>3. CASE Patch
  <2>1. row' \in RowRec /\ row'.there = row.there /\ row'.hash = row.hash
    BY <1>1, <1>3 DEF Patch, RowRec
  <2> QED
    BY <1>1, <1>2, <1>3, <2>1, WorldGoesOn DEF Patch
<1>4. CASE Install
  <2>1. /\ tokens' \in Token /\ row' = [row EXCEPT !.hash = tokens'] /\ events' \in 0 .. MaxEvents
        /\ ~Serial /\ UNCHANGED <<box, proc, socket, faults>>
    BY <1>1, <1>2, <1>4, Counted DEF Install, Serial
  <2>2. row' \in RowRec
    BY <1>1, <2>1 DEF RowRec
  <2> QED
    BY <1>1, <2>1, <2>2 DEF LifeInv, LifeTypeOK, RowRec, Serial
<1>5. CASE BoxDies
  <2>1. PICK s \in {"exited", "failed"} : box' = [box EXCEPT !.state = s]
    BY <1>5 DEF BoxDies
  <2>2. box' \in BoxRec /\ box'.token = box.token /\ box'.state = s
    BY <1>1, <2>1 DEF BoxRec
  <2> QED
    BY <1>1, <1>2, <1>5, <2>2, WorldGoesOn DEF BoxDies
<1>6. ASSUME NEW s \in Socket, Connect(s) \/ Speak(s) \/ Drop(s) \/ Close(s)
      PROVE  LifeInv'
  <2>1. row' \in RowRec /\ row'.there = row.there /\ row'.hash = row.hash
    BY <1>1, <1>6 DEF Connect, Speak, Drop, Close, RowRec, Status
  <2>2. socket' \in [Socket -> [token : Token, live : BOOLEAN]]
    <3>1. CASE Drop(s)
      <4> DEFINE x == [socket[s] EXCEPT !.live = FALSE]
      <4>1. socket' = [socket EXCEPT ![s] = x]
        BY <3>1 DEF Drop
      <4>2. x \in [token : Token, live : BOOLEAN]
        BY <1>1
      <4> HIDE DEF x
      <4> QED
        BY <1>1, <4>1, <4>2
    <3>2. CASE Connect(s) \/ Speak(s) \/ Close(s)
      <4>1. box.token \in Token
        BY <1>1 DEF BoxRec
      <4>2. socket' = socket \/ \E x \in [token : Token, live : BOOLEAN] :
                                  socket' = [socket EXCEPT ![s] = x]
        BY <1>1, <3>2, <4>1 DEF Connect, Speak, Close
      <4> QED
        BY <1>1, <4>2
    <3> QED
      BY <1>6, <3>1, <3>2
  <2>3. UNCHANGED <<box, proc, tokens, faults>> /\ events' \in 0 .. MaxEvents
    BY <1>1, <1>2, <1>6 DEF Connect, Speak, Drop, Close
  <2> QED
    BY <1>1, <2>1, <2>2, <2>3, WorldGoesOn
<1> QED
  BY <1>3, <1>4, <1>5, <1>6

-----------------------------------------------------------------------------

\* The connector is installed, and nothing runs.
LEMMA LifeStarts == LifeInit => LifeInv
<1> SUFFICES ASSUME LifeInit PROVE LifeInv
  OBVIOUS
<1>1. 0 \in Token /\ 1 \in Token /\ MaxEvents \in Nat
  BY BoundAssumption DEF Token
<1>2. IdleProc \in ProcRec /\ IdleProc.pc = "idle"
  BY <1>1 DEF IdleProc, ProcRec, Status
<1>3. proc \in [Proc -> ProcRec] /\ \A p \in Proc : ProcAt(p, "idle")
  BY <1>2 DEF LifeInit, ProcAt
<1>4. row \in RowRec /\ box \in BoxRec /\ box.state = "none"
  BY <1>1 DEF LifeInit, RowRec, BoxRec, NoBox, Status
<1>5. LifeTypeOK
  BY <1>1, <1>3, <1>4 DEF LifeInit, LifeTypeOK, RowRec, BoxRec, ProcRec
<1>6. OneByOne
  BY <1>3, <1>4 DEF OneByOne, Steady, Fits
<1> QED
  BY <1>5, <1>6 DEF LifeInv

\* Every step keeps it.
LEMMA LifeStepKeeps == LifeInv /\ [LifeNext]_lifeVars => LifeInv'
<1> SUFFICES ASSUME LifeInv, [LifeNext]_lifeVars PROVE LifeInv'
  OBVIOUS
<1>1. CASE UNCHANGED lifeVars
  <2>1. LifeTypeOK'
    BY <1>1 DEF lifeVars, LifeInv, LifeTypeOK
  <2>2. (Serial => OneByOne)'
    BY <1>1 DEF lifeVars, LifeInv, Serial, OneByOne, ProcAt, Quiet
  <2> QED
    BY <2>1, <2>2 DEF LifeInv
<1>2. ASSUME NEW p \in Proc, LifeStep(p) \/ Unready(p) PROVE LifeInv'
  BY <1>2, StartSteps, StopSteps, StoreSteps DEF LifeStep
<1> QED
  BY <1>1, <1>2, RequestStep, WorldSteps DEF LifeNext

\* The state of the row, the container, the operations and the sockets has its type.
THEOREM LifeTypes == LifeSpec => []LifeTypeOK
<1>1. LifeInv => LifeTypeOK
  BY DEF LifeInv
<1> QED
  BY LifeStarts, LifeStepKeeps, <1>1, PTL DEF LifeSpec

\* Between operations that do not overlap, however docker run fails in them and containers
\* die, a container that is up holds the token whose hash is stored, and a deleted connector
\* has none (manager.start, manager.stop, the monitor of workers/tasks.py).
THEOREM TokensMatch == LifeSpec => []TokenMatches
<1>1. LifeInv => TokenMatches
  BY DEF LifeInv, OneByOne, Steady, Fits, TokenMatches
<1> QED
  BY LifeStarts, LifeStepKeeps, <1>1, PTL DEF LifeSpec

-----------------------------------------------------------------------------

(***************************************************************************)
(* OneConversation for any number of messages.  It is not inductive: a     *)
(* commit keeps it because the route is still free and the conversation    *)
(* new, which the insert has made sure of and nobody may change since.     *)
(***************************************************************************)

Fresh == \A m \in Message : handler[m] \in {"new", "insert", "commit"} => conv[m] = "none"
Holder == \A m \in Message : At(m, "commit") =>
            route = Nobody /\ \A n \in Message : At(n, "commit") => n = m
RouteInv == TypeOK /\ OneConversation /\ Fresh /\ Holder

\* The state of the handlers, the conversations and the route keeps its form.
THEOREM RouteTypes == Spec => []TypeOK
<1> USE DEF Ended, At, Goto, Move
<1>1. Init => TypeOK
  BY DEF Init, TypeOK
<1>2. TypeOK /\ [Next]_vars => TypeOK'
  <2> SUFFICES ASSUME TypeOK, [Next]_vars PROVE TypeOK'
    OBVIOUS
  <2>1. CASE UNCHANGED vars
    BY <2>1 DEF vars, TypeOK
  <2>2. ASSUME NEW m \in Message, Step(m) PROVE TypeOK'
    BY <2>2 DEF TypeOK, Step, Lookup, InsertRoute, Commit, Lose, Reread, Answer
  <2>3. ASSUME NEW c \in Message, DeleteConversation(c) PROVE TypeOK'
    BY <2>3 DEF TypeOK, DeleteConversation
  <2>4. QED
    BY <2>1, <2>2, <2>3 DEF Next
<1>3. QED
  BY <1>1, <1>2, PTL DEF Spec

\* Messages that arrive together share one conversation, the one of the route, for
\* any number of handlers and deletions (_get_or_create_route in bridge.py).
THEOREM SharedConversation == Spec => []OneConversation
<1> USE DEF At, Goto, Move
<1>1. Init => RouteInv
  BY NobodyAssumption DEF Init, RouteInv, TypeOK, OneConversation, Fresh, Holder
<1>2. RouteInv /\ TypeOK' /\ [Next]_vars => RouteInv'
  <2> SUFFICES ASSUME RouteInv, TypeOK', [Next]_vars PROVE OneConversation' /\ Fresh' /\ Holder'
    BY DEF RouteInv
  <2> USE NobodyAssumption DEF RouteInv, TypeOK
  <2>1. CASE UNCHANGED vars
    BY <2>1 DEF vars, OneConversation, Fresh, Holder
  <2>2. ASSUME NEW m \in Message, Commit(m) PROVE OneConversation' /\ Fresh' /\ Holder'
    <3>1. {c \in Message : conv[c] = "there"} = {}
      BY <2>2 DEF Commit, OneConversation, Holder
    <3>2. conv' = [conv EXCEPT ![m] = "there"] /\ route' = m
      BY <2>2 DEF Commit
    <3>3. {c \in Message : conv'[c] = "there"} = {m}
      BY <3>1, <3>2
    <3>4. OneConversation'
      BY <3>2, <3>3 DEF OneConversation
    <3>5. Fresh' /\ Holder'
      BY <2>2 DEF Commit, Fresh, Holder
    <3>6. QED
      BY <3>4, <3>5
  <2>3. ASSUME NEW m \in Message, InsertRoute(m) PROVE OneConversation' /\ Fresh' /\ Holder'
    <3>1. OneConversation'
      BY <2>3 DEF InsertRoute, OneConversation
    <3>2. Fresh'
      BY <2>3 DEF InsertRoute, Fresh
    <3>3. Holder'
      BY <2>3 DEF InsertRoute, Holder
    <3>4. QED
      BY <3>1, <3>2, <3>3
  <2>4. ASSUME NEW m \in Message, Lookup(m) \/ Lose(m) \/ Reread(m) \/ Answer(m)
        PROVE OneConversation' /\ Fresh' /\ Holder'
    <3>1. OneConversation'
      BY <2>4 DEF Lookup, Lose, Reread, Answer, OneConversation
    <3>2. Fresh'
      BY <2>4 DEF Lookup, Lose, Reread, Answer, Fresh
    <3>3. Holder'
      BY <2>4 DEF Lookup, Lose, Reread, Answer, Holder
    <3>4. QED
      BY <3>1, <3>2, <3>3
  <2>5. ASSUME NEW c \in Message, DeleteConversation(c) PROVE OneConversation' /\ Fresh' /\ Holder'
    <3>1. route = c
      BY <2>5 DEF DeleteConversation, OneConversation
    <3>2. {d \in Message : conv'[d] = "there"} = {}
      BY <2>5, <3>1 DEF DeleteConversation, OneConversation
    <3>3. OneConversation'
      BY <2>5, <3>1, <3>2 DEF DeleteConversation, OneConversation
    <3>4. Fresh' /\ Holder'
      BY <2>5 DEF DeleteConversation, Fresh, Holder
    <3>5. QED
      BY <3>3, <3>4
  <2>6. QED
    BY <2>1, <2>2, <2>3, <2>4, <2>5 DEF Next, Step
<1>3. RouteInv => OneConversation
  BY DEF RouteInv
<1>4. QED
  BY <1>1, <1>2, <1>3, RouteTypes, PTL DEF Spec

-----------------------------------------------------------------------------

(***************************************************************************)
(* EventsInOrder for any publishers, streams, events and attempts.  What a *)
(* stream has of a publisher ends with the event that is being tried, as   *)
(* often as it was tried at most.                                          *)
(***************************************************************************)

StreamType ==
  [pc : {"down", "hello", "up"}, since : [Publisher -> Nat], inbox : Seq(Event), got : Seq(Event)]
HubType ==
  /\ pub \in [Publisher -> [n : 1 .. MaxPublished + 1, tried : 0 .. Attempts - 1]]
  /\ stream \in [Subscriber -> StreamType]

\* Numbers that one publisher has sent until it tries the n-th for the tried-th time.
Sent(numbers, n, tried) ==
  /\ \A i \in 1 .. Len(numbers) :
       /\ numbers[i] \in 1 .. n
       /\ numbers[i] = n => Len(numbers) - i < tried
       /\ i + Attempts \in 1 .. Len(numbers) => numbers[i + Attempts] # numbers[i]
  /\ \A i, j \in 1 .. Len(numbers) : i < j => numbers[i] <= numbers[j]

\* None is missing of those that were queued.
NoneMissing(numbers, p, since, q) == \A n \in since .. MaxPublished : <<p, n>> \in q => n \in ToSet(numbers)

\* What a stream has of p, sent on or not.
Has(s, p) == NumbersFrom(p, stream[s].got \o stream[s].inbox)

HubOrder ==
  /\ \A p \in Publisher, n \in Nat : <<p, n>> \in queued => n < pub[p].n
  /\ \A s \in Subscriber : stream[s].pc = "up" => \A p \in Publisher :
       /\ Sent(Has(s, p), pub[p].n, pub[p].tried)
       /\ NoneMissing(Has(s, p), p, stream[s].since[p], queued)
HubInv == HubType /\ HubOrder

-----------------------------------------------------------------------------

\* What an event tells of p.
NumberOf(p) == [e \in Event |-> IF e[1] = p THEN <<e[2]>> ELSE << >>]

\* NumbersFrom gathers the numbers of a publisher.
LEMMA NumbersAreSpread ==
  ASSUME NEW p \in Publisher
  PROVE  /\ Maps(NumberOf(p), Event, Nat)
         /\ \A s \in Seq(Event) : NumbersFrom(p, s) = Spread(s, NumberOf(p))
<1>1. Maps(NumberOf(p), Event, Nat)
  BY HubAssumption DEF Maps, NumberOf, Event
<1>2. ASSUME NEW s \in Seq(Event)
      PROVE  NumbersFrom(p, s) = Spread(s, NumberOf(p))
  <2> DEFINE a == [i \in 1 .. Len(s) |-> IF s[i][1] = p THEN <<s[i][2]>> ELSE << >>]
             b == [i \in 1 .. Len(s) |-> NumberOf(p)[s[i]]]
  <2>1. \A i \in 1 .. Len(s) : s[i] \in Event
    OBVIOUS
  <2>2. \A e \in Event : NumberOf(p)[e] = IF e[1] = p THEN <<e[2]>> ELSE << >>
    BY DEF NumberOf
  <2>3. a = b
    BY <2>1, <2>2
  <2> QED
    BY <2>3 DEF Spread, NumbersFrom
<1> QED
  BY <1>1, <1>2

\* One more event of q.
LEMMA NumbersGrow ==
  ASSUME NEW p \in Publisher, NEW q \in Publisher, NEW n \in 1 .. MaxPublished,
         NEW s \in Seq(Event)
  PROVE  /\ NumbersFrom(p, s) \in Seq(Nat) /\ Append(s, <<q, n>>) \in Seq(Event)
         /\ NumbersFrom(p, Append(s, <<q, n>>))
              = IF p = q THEN Append(NumbersFrom(p, s), n) ELSE NumbersFrom(p, s)
<1> DEFINE e == NumberOf(p)
           x == <<q, n>>
           a == NumbersFrom(p, s)
<1>1. x \in Event /\ n \in Nat
  BY HubAssumption DEF Event
<1>2. Maps(e, Event, Nat) /\ \A t \in Seq(Event) : NumbersFrom(p, t) = Spread(t, e)
  BY NumbersAreSpread
<1>3. e[x] = IF p = q THEN << n >> ELSE << >>
  BY <1>1 DEF NumberOf
<1> HIDE DEF e, x
<1>4. Append(s, x) \in Seq(Event)
  BY <1>1, AppendProperties
<1>5. Spread(s, e) \in Seq(Nat) /\ Spread(Append(s, x), e) = Spread(s, e) \o e[x]
  BY <1>1, <1>2, SpreadAppend
<1>6. a \in Seq(Nat) /\ NumbersFrom(p, Append(s, x)) = a \o e[x]
  BY <1>2, <1>4, <1>5
<1> HIDE DEF a
<1>7. a \o << n >> = Append(a, n) /\ a \o << >> = a
  BY <1>1, <1>6
<1> QED
  BY <1>3, <1>4, <1>6, <1>7 DEF a, x

\* Numbers stay as they should when the publisher tries again or goes on without them.
LEMMA SentMore ==
  ASSUME NEW a \in Seq(Nat), NEW n \in Nat \ {0}, NEW tried \in 0 .. Attempts - 1,
         Sent(a, n, tried)
  PROVE  /\ Sent(a, n, tried + 1) /\ Sent(a, n + 1, 0)
         /\ Sent(Append(a, n), n, tried + 1) /\ Sent(Append(a, n), n + 1, 0)
<1> DEFINE k == Len(a)
           b == Append(a, n)
<1>1. /\ k \in Nat /\ b \in Seq(Nat) /\ Len(b) = k + 1 /\ b[k + 1] = n
      /\ \A i \in 1 .. k : b[i] = a[i]
  OBVIOUS
<1>2. /\ \A i \in 1 .. k : /\ a[i] \in 1 .. n
                           /\ a[i] = n => k - i < tried
                           /\ i + Attempts \in 1 .. k => a[i + Attempts] # a[i]
      /\ \A i, j \in 1 .. k : i < j => a[i] <= a[j]
  BY DEF Sent
<1>3. Attempts \in Nat /\ Attempts > 0 /\ tried \in Nat /\ tried < Attempts /\ n \in Nat
  BY HubAssumption
<1>4. Sent(a, n, tried + 1)
  BY <1>1, <1>2, <1>3 DEF Sent
<1>5. Sent(a, n + 1, 0)
  BY <1>1, <1>2, <1>3 DEF Sent
<1> HIDE DEF b, k
<1>6. \A i \in 1 .. k + 1 : b[i] \in 1 .. n
  BY <1>1, <1>2, <1>3
<1>7. ASSUME NEW i \in 1 .. k + 1, b[i] = n PROVE (k + 1) - i < tried + 1
  <2>1. CASE i = k + 1
    BY <1>1, <1>3, <2>1
  <2>2. CASE i # k + 1
    <3>1. i \in 1 .. k /\ a[i] = n
      BY <1>1, <1>7, <2>2
    <3>2. k - i < tried
      BY <1>2, <3>1
    <3> QED
      BY <1>1, <1>3, <3>2
  <2> QED
    BY <2>1, <2>2
<1>8. ASSUME NEW i \in 1 .. k + 1, i + Attempts \in 1 .. k + 1
      PROVE  b[i + Attempts] # b[i]
  <2>1. i \in 1 .. k /\ b[i] = a[i]
    BY <1>1, <1>3, <1>8
  <2>2. CASE i + Attempts = k + 1
    <3>1. b[i + Attempts] = n
      BY <1>1, <2>2
    <3>2. ~(k - i < tried)
      BY <1>1, <1>3, <2>2
    <3> QED
      BY <1>2, <2>1, <3>1, <3>2
  <2>3. CASE i + Attempts # k + 1
    <3>1. i + Attempts \in 1 .. k
      BY <1>1, <1>8, <2>3
    <3> QED
      BY <1>1, <1>2, <2>1, <3>1
  <2> QED
    BY <2>2, <2>3
<1>9. ASSUME NEW i \in 1 .. k + 1, NEW j \in 1 .. k + 1, i < j
      PROVE  b[i] <= b[j]
  <2>1. i \in 1 .. k /\ b[i] = a[i] /\ a[i] \in 1 .. n
    BY <1>1, <1>2, <1>9
  <2>2. CASE j = k + 1
    BY <1>1, <1>3, <2>1, <2>2
  <2>3. CASE j # k + 1
    BY <1>1, <1>2, <1>9, <2>1, <2>3
  <2> QED
    BY <2>2, <2>3
<1>10. Sent(b, n, tried + 1)
  BY <1>1, <1>6, <1>7, <1>8, <1>9 DEF Sent
<1>11. \A i \in 1 .. k + 1 : b[i] \in 1 .. n + 1 /\ b[i] # n + 1
  BY <1>3, <1>6
<1>12. Sent(b, n + 1, 0)
  BY <1>1, <1>8, <1>9, <1>11 DEF Sent
<1> QED
  BY <1>4, <1>5, <1>10, <1>12 DEF b

-----------------------------------------------------------------------------

\* At the start every stream is down.
LEMMA HubStarts == ASSUME HubInit PROVE HubInv
<1> USE HubAssumption DEF HubInit
<1>1. pub \in [Publisher -> [n : 1 .. MaxPublished + 1, tried : 0 .. Attempts - 1]]
  OBVIOUS
<1>2. Down \in StreamType /\ Down.pc = "down"
  BY DEF Down, StreamType
<1>3. stream \in [Subscriber -> StreamType] /\ \A s \in Subscriber : stream[s].pc # "up"
  BY <1>2
<1> QED
  BY <1>1, <1>3 DEF HubInv, HubType, HubOrder

\* Steps of one stream, which do not change what it has, or after which it has nothing.
LEMMA StreamMoves ==
  ASSUME HubInv, NEW s \in Subscriber, NEW r \in StreamType,
         stream' = [stream EXCEPT ![s] = r], UNCHANGED <<pub, queued>>,
         \/ r.pc # "up"
         \/ r.got = << >> /\ r.inbox = << >> /\ r.since = [p \in Publisher |-> pub[p].n]
         \/ r.pc = stream[s].pc /\ r.since = stream[s].since
              /\ r.got \o r.inbox = stream[s].got \o stream[s].inbox
  PROVE  HubInv'
<1>1. HubType'
  BY DEF HubInv, HubType
<1>2. ASSUME NEW t \in Subscriber, stream'[t].pc = "up", NEW p \in Publisher
      PROVE  /\ Sent(Has(t, p)', pub[p].n, pub[p].tried)
             /\ NoneMissing(Has(t, p)', p, stream'[t].since[p], queued)
  <2>1. CASE t # s
    <3>1. stream'[t] = stream[t]
      BY <2>1 DEF HubInv, HubType
    <3>2. Has(t, p)' = Has(t, p)
      BY <3>1 DEF Has
    <3> QED
      BY <1>2, <3>1, <3>2 DEF HubInv, HubOrder
  <2>2. CASE t = s
    <3>1. stream'[s] = r
      BY DEF HubInv, HubType
    <3>2. CASE r.got = << >> /\ r.inbox = << >> /\ r.since = [q \in Publisher |-> pub[q].n]
      <4>1. NumbersFrom(p, << >>) = << >>
        <5>1. << >> \in Seq(Event)
          OBVIOUS
        <5> QED
          BY <5>1, NumbersAreSpread, SpreadNone
      <4>2. Has(s, p)' = << >>
        <5>1. << >> \o << >> = << >>
          OBVIOUS
        <5> QED
          BY <3>1, <3>2, <4>1, <5>1 DEF Has
      <4>3. Sent(<< >>, pub[p].n, pub[p].tried)
        BY DEF Sent
      <4>4. \A n \in pub[p].n .. MaxPublished : <<p, n>> \notin queued
        <5>1. pub[p].n \in Nat /\ pub[p].n >= 1 /\ MaxPublished \in Nat
          BY HubAssumption DEF HubInv, HubType
        <5>2. \A n \in pub[p].n .. MaxPublished : n \in Nat /\ ~(n < pub[p].n)
          BY <5>1
        <5> QED
          BY <5>2 DEF HubInv, HubOrder
      <4>5. NoneMissing(<< >>, p, pub[p].n, queued)
        BY <4>4 DEF NoneMissing
      <4> QED
        BY <2>2, <3>1, <3>2, <4>2, <4>3, <4>5
    <3>3. CASE r.pc = stream[s].pc /\ r.since = stream[s].since
              /\ r.got \o r.inbox = stream[s].got \o stream[s].inbox
      <4>1. Has(s, p)' = Has(s, p)
        BY <3>1, <3>3 DEF Has
      <4> QED
        BY <1>2, <2>2, <3>1, <3>3, <4>1 DEF HubInv, HubOrder
    <3> QED
      BY <1>2, <2>2, <3>1, <3>2, <3>3
  <2> QED
    BY <2>1, <2>2
<1>3. HubOrder'
  BY <1>2 DEF HubInv, HubOrder
<1> QED
  BY <1>1, <1>3 DEF HubInv

\* An attempt reaches every stream that is up, or none.
LEMMA AttemptKeeps == ASSUME HubInv, NEW p \in Publisher, Publish(p) PROVE HubInv'
<1> DEFINE n == pub[p].n
           tried == pub[p].tried
           x == <<p, n>>
<1>1. PICK reached \in BOOLEAN, answered \in BOOLEAN :
       /\ answered => reached
       /\ stream' = [s \in Subscriber |->
            IF reached /\ stream[s].pc = "up"
            THEN [stream[s] EXCEPT !.inbox = Append(@, x)] ELSE stream[s]]
       /\ queued' = IF answered THEN queued \cup {x} ELSE queued
       /\ pub' = [pub EXCEPT ![p] =
            IF answered \/ @.tried + 1 = Attempts THEN [n |-> n + 1, tried |-> 0]
            ELSE [n |-> n, tried |-> @.tried + 1]]
  BY DEF Publish
<1>2. n \in 1 .. MaxPublished /\ n \in Nat \ {0} /\ tried \in 0 .. Attempts - 1 /\ x \in Event
      /\ MaxPublished \in Nat /\ Attempts \in Nat /\ HubType
  BY HubAssumption DEF Publish, HubInv, HubType, Event
<1> DEFINE ends == answered \/ tried + 1 = Attempts
           next == IF ends THEN [n |-> n + 1, tried |-> 0] ELSE [n |-> n, tried |-> tried + 1]
<1>3. pub' = [pub EXCEPT ![p] = next]
  BY <1>1
<1>4. next \in [n : 1 .. MaxPublished + 1, tried : 0 .. Attempts - 1]
      /\ next.n = (IF ends THEN n + 1 ELSE n) /\ next.tried = (IF ends THEN 0 ELSE tried + 1)
  BY <1>2
<1>5. pub' \in [Publisher -> [n : 1 .. MaxPublished + 1, tried : 0 .. Attempts - 1]]
      /\ pub'[p] = next /\ \A q \in Publisher : q # p => pub'[q] = pub[q]
  BY <1>2, <1>3, <1>4 DEF HubType
<1> HIDE DEF next, ends, x, tried, n
<1>6. ASSUME NEW s \in Subscriber
      PROVE  /\ stream[s] \in StreamType /\ stream'[s] \in StreamType
             /\ stream'[s].pc = stream[s].pc /\ stream'[s].since = stream[s].since /\ stream'[s].got = stream[s].got
             /\ stream'[s].inbox = IF reached /\ stream[s].pc = "up" THEN Append(stream[s].inbox, x) ELSE stream[s].inbox
  <2> DEFINE d == stream[s]
  <2>1. d \in StreamType
    BY <1>2 DEF HubType
  <2>2. stream'[s] = IF reached /\ d.pc = "up" THEN [d EXCEPT !.inbox = Append(@, x)] ELSE d
    BY <1>1
  <2> HIDE DEF d
  <2>3. Append(d.inbox, x) \in Seq(Event)
    BY <1>2, <2>1, AppendProperties DEF StreamType
  <2>4. [d EXCEPT !.inbox = Append(@, x)] = [pc |-> d.pc, since |-> d.since, inbox |-> Append(d.inbox, x), got |-> d.got]
    <3> DEFINE y == Append(d.inbox, x)
    <3> HIDE DEF y
    <3>1. [d EXCEPT !.inbox = y] = [pc |-> d.pc, since |-> d.since, inbox |-> y, got |-> d.got]
      BY <2>1 DEF StreamType
    <3> QED
      BY <3>1 DEF y
  <2> QED
    BY <2>1, <2>2, <2>3, <2>4 DEF StreamType, d
<1>7. HubType'
  <2>1. stream' \in [Subscriber -> StreamType]
    BY <1>1, <1>6
  <2> QED
    BY <1>5, <2>1 DEF HubType
<1>8. ASSUME NEW q \in Publisher, NEW m \in Nat, <<q, m>> \in queued'
      PROVE  m < pub'[q].n
  <2>1. CASE <<q, m>> \in queued
    <3>1. m < pub[q].n
      BY <2>1 DEF HubInv, HubOrder
    <3>2. CASE q = p
      BY <1>2, <1>4, <1>5, <3>1, <3>2 DEF n
    <3>3. CASE q # p
      BY <1>5, <3>1, <3>3
    <3> QED
      BY <3>2, <3>3
  <2>2. CASE answered /\ <<q, m>> = x
    <3>1. q = p /\ m = n
      BY <2>2 DEF x
    <3>2. next.n = n + 1
      BY <1>4, <2>2 DEF ends
    <3> QED
      BY <1>2, <1>5, <3>1, <3>2
  <2> QED
    BY <1>1, <1>8, <2>1, <2>2
<1>9. ASSUME NEW s \in Subscriber, stream'[s].pc = "up", NEW q \in Publisher
      PROVE  /\ Sent(Has(s, q)', pub'[q].n, pub'[q].tried)
             /\ NoneMissing(Has(s, q)', q, stream'[s].since[q], queued')
  <2> DEFINE all == stream[s].got \o stream[s].inbox
             a == NumbersFrom(q, all)
  <2>1. stream[s].pc = "up" /\ stream[s].got \in Seq(Event) /\ stream[s].inbox \in Seq(Event)
    BY <1>6, <1>9 DEF StreamType
  <2>2. all \in Seq(Event)
    BY <2>1, ConcatProperties
  <2>3. stream'[s].got \o stream'[s].inbox = IF reached THEN Append(all, x) ELSE all
    <3> DEFINE g == stream[s].got
               i == stream[s].inbox
    <3>1. g \in Seq(Event) /\ i \in Seq(Event) /\ stream'[s].got = g
          /\ stream'[s].inbox = IF reached THEN Append(i, x) ELSE i
      BY <1>6, <2>1
    <3> HIDE DEF g, i
    <3>2. g \o Append(i, x) = Append(g \o i, x)
      BY <1>2, <3>1
    <3> QED
      BY <3>1, <3>2 DEF g, i
  <2>4. Sent(a, pub[q].n, pub[q].tried) /\ NoneMissing(a, q, stream[s].since[q], queued)
    BY <2>1 DEF HubInv, HubOrder, Has
  <2>5. Has(s, q)' = NumbersFrom(q, stream'[s].got \o stream'[s].inbox)
    BY DEF Has
  <2> HIDE DEF all
  <2>6. /\ a \in Seq(Nat)
        /\ NumbersFrom(q, Append(all, x)) = IF q = p THEN Append(a, n) ELSE a
    BY <1>2, <2>2, NumbersGrow DEF x
  <2> HIDE DEF a
  <2> DEFINE b == IF reached /\ q = p THEN Append(a, n) ELSE a
  <2>7. Has(s, q)' = b
    BY <2>3, <2>5, <2>6 DEF a
  <2>8. CASE q = p
    <3>1. Sent(a, n, tried)
      BY <2>4, <2>8 DEF n, tried
    <3>2. Sent(b, n, tried + 1) /\ Sent(b, n + 1, 0)
      BY <1>2, <2>6, <3>1, SentMore
    <3>3. Sent(b, pub'[q].n, pub'[q].tried)
      BY <1>4, <1>5, <2>8, <3>2
    <3>4. \A m \in ToSet(a) : m \in ToSet(b)
      <4> SUFFICES ASSUME NEW i \in 1 .. Len(a) PROVE a[i] \in ToSet(b)
        BY <2>6 DEF ToSet
      <4>1. b \in Seq(Nat) /\ i \in DOMAIN b /\ b[i] = a[i]
        BY <1>2, <2>6
      <4> QED
        BY <4>1 DEF ToSet
    <3>5. reached => n \in ToSet(b)
      <4> SUFFICES ASSUME reached PROVE n \in ToSet(b)
        OBVIOUS
      <4>1. Len(a) + 1 \in DOMAIN b /\ b[Len(a) + 1] = n
        BY <1>2, <2>6, <2>8
      <4> QED
        BY <4>1 DEF ToSet
    <3> HIDE DEF b
    <3>6. NoneMissing(b, q, stream[s].since[q], queued')
      <4> SUFFICES ASSUME NEW m \in stream[s].since[q] .. MaxPublished, <<q, m>> \in queued'
                   PROVE  m \in ToSet(b)
        BY DEF NoneMissing
      <4>1. CASE <<q, m>> \in queued
        BY <2>4, <3>4, <4>1 DEF NoneMissing
      <4>2. CASE <<q, m>> = x /\ answered
        BY <1>1, <3>5, <4>2 DEF x
      <4> QED
        BY <1>1, <4>1, <4>2
    <3> QED
      BY <1>6, <2>7, <3>3, <3>6
  <2>9. CASE q # p
    <3>1. b = a /\ pub'[q] = pub[q]
      BY <1>5, <2>9
    <3>2. \A m : <<q, m>> \in queued' => <<q, m>> \in queued
      BY <1>1, <2>9 DEF x
    <3>3. NoneMissing(a, q, stream[s].since[q], queued')
      BY <2>4, <3>2 DEF NoneMissing
    <3> QED
      BY <1>6, <2>4, <2>7, <3>1, <3>3
  <2> QED
    BY <2>8, <2>9
<1>10. HubOrder'
  BY <1>8, <1>9 DEF HubOrder
<1> QED
  BY <1>7, <1>10 DEF HubInv

\* Every step keeps the order.
LEMMA HubStep == ASSUME HubInv, [HubNext]_hubVars PROVE HubInv'
<1>t. HubType /\ Down \in StreamType /\ Down.pc = "down" /\ << >> \in Seq(Event)
  BY DEF HubInv, Down, StreamType
<1>1. ASSUME NEW p \in Publisher, Publish(p) PROVE HubInv'
  BY <1>1, AttemptKeeps
<1>2. ASSUME NEW s \in Subscriber, OpenStream(s) PROVE HubInv'
  <2> DEFINE r == [Down EXCEPT !.pc = "hello"]
  <2>1. r \in StreamType /\ r.pc # "up"
    BY <1>t DEF StreamType
  <2>2. stream' = [stream EXCEPT ![s] = r] /\ UNCHANGED <<pub, queued>>
    BY <1>2 DEF OpenStream
  <2> HIDE DEF r
  <2> QED
    BY <2>1, <2>2, StreamMoves
<1>3. ASSUME NEW s \in Subscriber, SubscribeTo(s) PROVE HubInv'
  <2> DEFINE f == [p \in Publisher |-> pub[p].n]
             r == [Down EXCEPT !.pc = "up", !.since = f]
  <2>1. f \in [Publisher -> Nat]
    BY <1>t, HubAssumption DEF HubType
  <2>2. stream' = [stream EXCEPT ![s] = r] /\ UNCHANGED <<pub, queued>>
    BY <1>3 DEF SubscribeTo
  <2> HIDE DEF f
  <2>3. r.pc = "up" /\ r.since = f /\ r.inbox = Down.inbox /\ r.got = Down.got /\ r \in StreamType
    BY <1>t, <2>1 DEF StreamType
  <2>4. r \in StreamType /\ r.got = << >> /\ r.inbox = << >> /\ r.since = f
    BY <2>3 DEF Down
  <2> HIDE DEF r
  <2> QED
    BY <2>2, <2>4, StreamMoves DEF f
<1>4. ASSUME NEW s \in Subscriber, SendOn(s) PROVE HubInv'
  <2> DEFINE d == stream[s]
             i == Tail(d.inbox)
             g == Append(d.got, Head(d.inbox))
             r == [pc |-> d.pc, since |-> d.since, inbox |-> i, got |-> g]
  <2>1. d \in StreamType /\ d.inbox # << >> /\ d.inbox \in Seq(Event) /\ d.got \in Seq(Event)
    BY <1>t, <1>4 DEF SendOn, HubType, StreamType
  <2>2. stream' = [stream EXCEPT ![s] = r] /\ UNCHANGED <<pub, queued>>
    BY <1>4 DEF SendOn
  <2> HIDE DEF d
  <2>3. i \in Seq(Event) /\ g \in Seq(Event) /\ g \o i = d.got \o d.inbox
    BY <2>1, PassedOn
  <2> HIDE DEF i, g
  <2>5. r \in StreamType /\ r.pc = d.pc /\ r.since = d.since /\ r.got \o r.inbox = d.got \o d.inbox
    BY <2>1, <2>3 DEF StreamType
  <2> HIDE DEF r
  <2> QED
    BY <2>2, <2>5, StreamMoves DEF d
<1>5. ASSUME NEW s \in Subscriber, BreakOff(s) PROVE HubInv'
  <2>1. stream' = [stream EXCEPT ![s] = Down] /\ UNCHANGED <<pub, queued>> /\ Down.pc # "up"
    BY <1>t, <1>5 DEF BreakOff
  <2> QED
    BY <1>t, <2>1, StreamMoves
<1>6. ASSUME UNCHANGED hubVars PROVE HubInv'
  BY <1>6 DEF hubVars, HubInv, HubType, HubOrder, Has
<1> QED
  BY <1>1, <1>2, <1>3, <1>4, <1>5, <1>6 DEF HubNext

\* EventsInOrder: what a stream has while it is up are the events of each publisher in their
\* order, with every one that publish() reported as queued, none more often than it may be
\* tried, however publishers cross and streams come and go.
THEOREM EventsComeInOrder == HubSpec => []EventsInOrder
<1>1. HubInit => HubInv
  BY HubStarts
<1>2. HubInv /\ [HubNext]_hubVars => HubInv'
  BY HubStep
<1>3. HubInv => EventsInOrder
  <2> SUFFICES ASSUME HubInv, NEW s \in Subscriber, stream[s].pc = "up", NEW p \in Publisher, NEW a, a = Has(s, p)
               PROVE  /\ \A i, j \in DOMAIN a : i < j => a[i] <= a[j]
                      /\ \A n \in stream[s].since[p] .. MaxPublished : <<p, n>> \in queued => n \in ToSet(a)
                      /\ \A i \in DOMAIN a : i + Attempts \in DOMAIN a => a[i + Attempts] # a[i]
    BY DEF EventsInOrder, Has
  <2>1. Sent(a, pub[p].n, pub[p].tried) /\ NoneMissing(a, p, stream[s].since[p], queued)
    BY DEF HubInv, HubOrder
  <2>2. a \in Seq(Nat)
    <3> DEFINE all == stream[s].got \o stream[s].inbox
    <3>1. all \in Seq(Event)
      <4>1. stream[s].got \in Seq(Event) /\ stream[s].inbox \in Seq(Event)
        BY DEF HubInv, HubType, StreamType
      <4> QED
        BY <4>1, ConcatProperties
    <3> HIDE DEF all
    <3>2. Spread(all, NumberOf(p)) \in Seq(Nat)
      <4>1. ASSUME NEW e \in Event PROVE Spread(all, NumberOf(p)) \in Seq(Nat)
        BY <3>1, NumbersAreSpread, SpreadAppend
      <4>2. ASSUME Event = {} PROVE all = << >>
        BY <3>1, <4>2
      <4>3. Spread(<< >>, NumberOf(p)) = << >> /\ << >> \in Seq(Nat)
        BY SpreadNone
      <4> QED
        BY <4>1, <4>2, <4>3
    <3> QED
      BY <3>1, <3>2, NumbersAreSpread DEF Has, all
  <2>3. DOMAIN a = 1 .. Len(a)
    BY <2>2
  <2> QED
    BY <2>1, <2>3 DEF Sent, NoneMissing
<1> QED
  BY <1>1, <1>2, <1>3, PTL DEF HubSpec

-----------------------------------------------------------------------------

(***************************************************************************)
(* PostedAsWritten for any commands, texts and limit.  A text is cut into  *)
(* pieces that Discord accepts and that put together are the text; what    *)
(* Discord shows of a command are the first of these pieces.               *)
(***************************************************************************)

Letter == {"n", "c"}
Line == Seq(Letter)
Pieces == Seq(Line)

\* The text that is left from a position.
Left(body, from) == SubSeq(body, from + 1, Len(body))

\* The pieces from a position, when pieces tells those from the later ones.
Split(body, pieces, from) ==
  IF Len(Left(body, from)) <= Limit
  THEN (IF Left(body, from) = << >> THEN << >> ELSE << Left(body, from) >>)
  ELSE << SubSeq(Left(body, from), 1, Cut(Left(body, from))) >>
         \o pieces[from + Cut(Left(body, from))]

\* Pieces that make up a text, each of which Discord accepts.
Whole(pieces, text) ==
  /\ pieces \in Pieces /\ FlattenSeq(pieces) = text
  /\ \A i \in 1 .. Len(pieces) : Len(pieces[i]) \in 1 .. Limit

-----------------------------------------------------------------------------

\* A cut is in the piece.
LEMMA CutInReach == ASSUME NEW text PROVE Cut(text) \in 1 .. Limit
<1> DEFINE ends == {k \in 0 .. Limit - 1 : text[k + 1] = "n"}
           S == ends \cup {-1}
           Back == {Limit - x : x \in S}
<1>l. Limit \in Nat /\ Limit >= 2
  BY BodyAssumption
<1>s. S \in SUBSET (-1 .. Limit - 1) /\ -1 \in S
  <2>1. ends \in SUBSET (0 .. Limit - 1)
    OBVIOUS
  <2> HIDE DEF ends
  <2> QED
    BY <1>l, <2>1
<1> HIDE DEF ends, S
<1>1. Back \in SUBSET Nat /\ Back # {}
  BY <1>l, <1>s
<1>2. PICK b \in Back : \A y \in Back : b <= y
  BY <1>1, LeastNatural
<1>3. PICK x \in S : b = Limit - x
  BY <1>2
<1>4. \A y \in S : x >= y
  <2> SUFFICES ASSUME NEW y \in S PROVE x >= y
    OBVIOUS
  <2>1. b <= Limit - y /\ x \in Int /\ y \in Int
    BY <1>2, <1>s
  <2> QED
    BY <1>3, <1>l, <2>1
<1>5. Max(S) \in S
  BY <1>4 DEF Max
<1>6. Max(S) \in -1 .. Limit - 1
  BY <1>5, <1>s
<1> DEFINE m == Max(S)
<1>7. Cut(text) = IF m < Limit \div 2 THEN Limit ELSE m
  BY DEF Cut, S, ends
<1>8. m \in -1 .. Limit - 1
  BY <1>6
<1> HIDE DEF m
<1>9. Limit \div 2 >= 1 /\ Limit \div 2 \in Nat
  BY <1>l
<1> QED
  BY <1>l, <1>7, <1>8, <1>9

\* What is left of a text, and after a cut.
LEMMA LeftOver ==
  ASSUME NEW body \in Line, NEW from \in 0 .. Len(body)
  PROVE  /\ Left(body, from) \in Line /\ Len(Left(body, from)) = Len(body) - from
         /\ Left(body, 0) = body
         /\ \A c \in 1 .. Len(body) - from :
              /\ SubSeq(Left(body, from), 1, c) \in Line /\ Len(SubSeq(Left(body, from), 1, c)) = c
              /\ SubSeq(Left(body, from), 1, c) \o Left(body, from + c) = Left(body, from)
<1> DEFINE n == Len(body)
<1>1. n \in Nat /\ body \in Seq(Letter)
  BY DEF Line
<1>2. Left(body, from) \in Seq(Letter) /\ Len(Left(body, from)) = n - from
      /\ \A i \in 1 .. n - from : Left(body, from)[i] = body[from + i]
  BY <1>1 DEF Left
<1>3. Left(body, 0) = body
  BY <1>1 DEF Left
<1>4. ASSUME NEW c \in 1 .. n - from
      PROVE  /\ SubSeq(Left(body, from), 1, c) \in Line /\ Len(SubSeq(Left(body, from), 1, c)) = c
             /\ SubSeq(Left(body, from), 1, c) \o Left(body, from + c) = Left(body, from)
  <2> DEFINE a == SubSeq(Left(body, from), 1, c)
             b == Left(body, from + c)
             w == Left(body, from)
  <2>1. w \in Seq(Letter) /\ Len(w) = n - from /\ \A i \in 1 .. n - from : w[i] = body[from + i]
    BY <1>2
  <2>2. from + c \in 0 .. n
    BY <1>1
  <2>3. b \in Seq(Letter) /\ Len(b) = n - (from + c)
        /\ \A i \in 1 .. n - (from + c) : b[i] = body[from + c + i]
    BY <1>1, <2>2 DEF Left
  <2> HIDE DEF w, b
  <2>4. SubSeq(w, 1, c) \in Seq(Letter) /\ Len(SubSeq(w, 1, c)) = c /\ \A i \in 1 .. c : SubSeq(w, 1, c)[i] = w[i]
    BY <1>1, <2>1
  <2>5. a = SubSeq(w, 1, c)
    BY DEF w
  <2>c. n \in Nat /\ from \in 0 .. n /\ c \in Nat /\ c >= 1 /\ c <= n - from
    BY <1>1
  <2> HIDE DEF a, n
  <2>6. /\ a \in Seq(Letter) /\ Len(a) = c /\ \A i \in 1 .. c : a[i] = body[from + i]
    <3>1. \A i \in 1 .. c : i \in 1 .. n - from
      BY <2>c
    <3> QED
      BY <2>1, <2>4, <2>5, <3>1
  <2>7. a \o b \in Seq(Letter) /\ Len(a \o b) = n - from
    <3>1. a \o b \in Seq(Letter) /\ Len(a \o b) = Len(a) + Len(b)
      BY <2>3, <2>6, ConcatProperties
    <3> QED
      BY <2>c, <2>3, <2>6, <3>1
  <2>8. \A i \in 1 .. n - from : (a \o b)[i] = w[i]
    <3> SUFFICES ASSUME NEW i \in 1 .. n - from PROVE (a \o b)[i] = w[i]
      OBVIOUS
    <3>1. CASE i <= c
      <4>1. i \in 1 .. c /\ (a \o b)[i] = a[i]
        BY <1>1, <2>3, <2>6, <3>1
      <4> QED
        BY <2>1, <2>6, <4>1
    <3>2. CASE ~(i <= c)
      <4>1. i - c \in 1 .. n - (from + c) /\ from + c + (i - c) = from + i
        BY <1>1, <3>2
      <4>2. (a \o b)[i] = b[i - c]
        BY <1>1, <2>3, <2>6, <3>2, <4>1
      <4>3. b[i - c] = body[from + c + (i - c)]
        BY <2>3, <4>1
      <4> QED
        BY <2>1, <4>1, <4>2, <4>3
    <3> QED
      BY <3>1, <3>2
  <2>9. a \o b = w
    <3> DEFINE d == a \o b
    <3>1. d \in Seq(Letter) /\ Len(d) = Len(w) /\ \A i \in 1 .. Len(d) : d[i] = w[i]
      BY <2>1, <2>7, <2>8
    <3> HIDE DEF d
    <3>2. d = w
      BY <2>1, <3>1, SeqEqual
    <3> QED
      BY <3>2 DEF d
  <2> QED
    BY <2>6, <2>9 DEF Line, a, b, w
<1> QED
  BY <1>2, <1>3, <1>4 DEF Line

\* From the pieces of what follows a cut come those of the whole.
LEMMA CutAndRest ==
  ASSUME NEW body \in Line, NEW from \in 0 .. Len(body), NEW pieces,
         \A later \in from + 1 .. Len(body) : Whole(pieces[later], Left(body, later))
  PROVE  Whole(Split(body, pieces, from), Left(body, from))
<1> DEFINE rest == Left(body, from)
           c == Cut(rest)
           a == SubSeq(rest, 1, c)
           more == pieces[from + c]
<1>l. Limit \in Nat /\ Limit >= 2 /\ c \in 1 .. Limit /\ Len(body) \in Nat
  BY BodyAssumption, CutInReach DEF Line
<1>1. rest \in Line /\ Len(rest) = Len(body) - from
  BY LeftOver
<1>2. CASE Len(rest) <= Limit /\ rest = << >>
  <2>1. << >> \in Pieces /\ Len(<< >>) = 0
    BY DEF Pieces
  <2> QED
    BY <1>2, <2>1, FlattenNone DEF Split, Whole
<1>3. CASE Len(rest) <= Limit /\ rest # << >>
  <2> HIDE DEF rest
  <2>1. << rest >> \in Pieces /\ FlattenSeq(<< rest >>) = rest
    BY <1>1, FlattenOne DEF Pieces, Line
  <2>2. Len(<< rest >>) = 1 /\ << rest >>[1] = rest /\ Len(rest) \in 1 .. Limit
    BY <1>1, <1>3, <1>l DEF Line
  <2>3. Whole(<< rest >>, rest)
    BY <2>1, <2>2 DEF Whole
  <2> QED
    BY <1>3, <2>3 DEF Split, rest
<1>4. CASE ~(Len(rest) <= Limit)
  <2> HIDE DEF rest, c
  <2>1. c \in 1 .. Len(body) - from /\ from + c \in from + 1 .. Len(body)
    BY <1>l, <1>1, <1>4
  <2>2. a \in Line /\ Len(a) = c /\ a \o Left(body, from + c) = rest
    BY <2>1, LeftOver DEF rest
  <2>3. more \in Pieces /\ FlattenSeq(more) = Left(body, from + c)
        /\ \A i \in 1 .. Len(more) : Len(more[i]) \in 1 .. Limit
    BY <2>1 DEF Whole
  <2> HIDE DEF a, more
  <2> DEFINE h == << a >>
             p == h \o more
  <2>4. h \in Pieces /\ FlattenSeq(h) = a /\ Len(h) = 1 /\ h[1] = a
    BY <2>2, FlattenOne DEF Pieces, Line
  <2> HIDE DEF h
  <2>5. FlattenSeq(p) = FlattenSeq(h) \o FlattenSeq(more) /\ p \in Pieces
    BY <2>3, <2>4, FlattenConcat, ConcatProperties DEF Pieces, Line
  <2>6. \A i \in 1 .. Len(p) : Len(p[i]) \in 1 .. Limit
    <3> SUFFICES ASSUME NEW i \in 1 .. Len(p) PROVE Len(p[i]) \in 1 .. Limit
      OBVIOUS
    <3>1. Len(p) = 1 + Len(more) /\ Len(more) \in Nat
      <4>1. h \in Seq(Line) /\ more \in Seq(Line)
        BY <2>3, <2>4 DEF Pieces
      <4>2. Len(p) = Len(h) + Len(more)
        BY <4>1, ConcatProperties
      <4> QED
        BY <2>4, <4>1, <4>2
    <3>2. CASE i = 1
      <4>1. p[1] = h[1]
        BY <2>3, <2>4, <3>1 DEF Pieces
      <4> QED
        BY <1>l, <2>2, <2>4, <3>2, <4>1
    <3>3. CASE i # 1
      <4>1. i - 1 \in 1 .. Len(more)
        BY <3>1, <3>3
      <4>2. p[i] = more[i - 1]
        BY <2>3, <2>4, <3>1, <3>3, <4>1 DEF Pieces
      <4> QED
        BY <2>3, <4>1, <4>2
    <3> QED
      BY <3>2, <3>3
  <2> HIDE DEF p
  <2>7. Whole(p, rest)
    BY <2>2, <2>3, <2>4, <2>5, <2>6 DEF Whole
  <2>8. Split(body, pieces, from) = p
    BY <1>4 DEF Split, rest, c, a, more, p, h
  <2> QED
    BY <2>7, <2>8 DEF rest
<1> QED
  BY <1>2, <1>3, <1>4

\* Splits what follows k positions before the end on.
SplitsFrom(body, pieces, k) ==
  \A from \in Len(body) - k .. Len(body) : pieces[from] = Split(body, pieces, from)

\* What splits so is whole from everywhere.
LEMMA SplitsWhole ==
  ASSUME NEW body \in Line, NEW pieces, SplitsFrom(body, pieces, Len(body))
  PROVE  \A from \in 0 .. Len(body) : Whole(pieces[from], Left(body, from))
<1> DEFINE n == Len(body)
           T == {k \in 0 .. n : \A from \in n - k .. n : Whole(pieces[from], Left(body, from))}
<1>n. n \in Nat
  BY DEF Line
<1>e. \A from \in 0 .. n : pieces[from] = Split(body, pieces, from)
  BY <1>n DEF SplitsFrom
<1>1. ASSUME NEW from \in 0 .. n, \A later \in from + 1 .. n : Whole(pieces[later], Left(body, later))
      PROVE  Whole(pieces[from], Left(body, from))
  BY <1>1, <1>e, CutAndRest
<1> HIDE DEF n
<1>2. 0 \in T
  <2>1. \A later \in n + 1 .. n : Whole(pieces[later], Left(body, later))
    BY <1>n
  <2>2. Whole(pieces[n], Left(body, n))
    BY <1>n, <1>1, <2>1
  <2>3. \A from \in n - 0 .. n : from = n
    BY <1>n
  <2> QED
    BY <1>n, <2>2, <2>3
<1>3. ASSUME NEW k \in 1 .. n, k - 1 \in T
      PROVE  k \in T
  <2>1. \A later \in n - (k - 1) .. n : Whole(pieces[later], Left(body, later))
    BY <1>3
  <2>2. (n - k) + 1 = n - (k - 1) /\ n - k \in 0 .. n /\ k \in 0 .. n
    BY <1>n
  <2>3. Whole(pieces[n - k], Left(body, n - k))
    BY <1>1, <2>1, <2>2
  <2>4. \A from \in n - k .. n : from = n - k \/ from \in n - (k - 1) .. n
    BY <1>n
  <2>5. \A from \in n - k .. n : Whole(pieces[from], Left(body, from))
    BY <2>1, <2>3, <2>4
  <2> QED
    BY <2>2, <2>5
<1>4. 0 .. n \subseteq T
  <2>1. \A k \in 1 .. n : k - 1 \in T => k \in T
    BY <1>3
  <2> HIDE DEF T
  <2> QED
    BY <1>n, <1>2, <2>1, UpTo
<1>5. n \in T
  <2> HIDE DEF T
  <2> QED
    BY <1>n, <1>4
<1>6. n - n = 0
  BY <1>n
<1> QED
  BY <1>5, <1>6 DEF n

\* Pieces that split so exist: each position needs those of later ones only.
LEMMA SplitExists ==
  ASSUME NEW body \in Line
  PROVE  \E pieces : /\ pieces = [from \in 0 .. Len(body) |-> pieces[from]]
                     /\ SplitsFrom(body, pieces, Len(body))
<1> DEFINE n == Len(body)
           Told(p) == p = [from \in 0 .. n |-> p[from]]
           T == {k \in 0 .. n : \E p : Told(p) /\ SplitsFrom(body, p, k)}
<1>n. n \in Nat
  BY DEF Line
<1>1. ASSUME NEW p, NEW q, NEW from \in 0 .. n, \A later \in from + 1 .. n : p[later] = q[later]
      PROVE  Split(body, p, from) = Split(body, q, from)
  <2> DEFINE rest == Left(body, from)
             c == Cut(rest)
  <2>1. rest \in Line /\ Len(rest) = n - from /\ c \in 1 .. Limit /\ Limit \in Nat
    BY BodyAssumption, LeftOver, CutInReach
  <2>2. CASE Len(rest) <= Limit
    BY <2>2 DEF Split
  <2>3. CASE ~(Len(rest) <= Limit)
    <3> HIDE DEF rest, c
    <3>1. from + c \in from + 1 .. n
      BY <1>n, <2>1, <2>3
    <3>2. p[from + c] = q[from + c]
      BY <1>1, <3>1
    <3> QED
      BY <2>3, <3>2 DEF Split, rest, c
  <2> QED
    BY <2>2, <2>3
<1>e. ASSUME NEW p, NEW k \in 0 .. n
      PROVE  SplitsFrom(body, p, k) <=> \A from \in n - k .. n : p[from] = Split(body, p, from)
  BY DEF SplitsFrom
<1> HIDE DEF n
\* One position more.
<1>2. ASSUME NEW p, NEW k \in 0 .. n, \A from \in n - k + 1 .. n : p[from] = Split(body, p, from)
      PROVE  \E q : Told(q) /\ SplitsFrom(body, q, k)
  <2> DEFINE at == n - k
             s == Split(body, p, at)
             q == [from \in 0 .. n |-> IF from = at THEN s ELSE p[from]]
  <2>1. at \in 0 .. n /\ \A from \in at + 1 .. n : from # at /\ from \in 0 .. n
    BY <1>n
  <2> HIDE DEF s
  <2>2. q[at] = s /\ \A from \in at + 1 .. n : q[from] = p[from]
    BY <2>1
  <2>3. Told(q)
    OBVIOUS
  <2> HIDE DEF q
  <2>4. ASSUME NEW from \in at .. n
        PROVE  q[from] = Split(body, q, from)
    <3>1. from \in 0 .. n /\ \A later \in from + 1 .. n : later \in at + 1 .. n
      BY <1>n, <2>1
    <3>2. \A later \in from + 1 .. n : p[later] = q[later]
      BY <2>2, <3>1
    <3>3. Split(body, p, from) = Split(body, q, from)
      BY <1>1, <3>1, <3>2
    <3>4. CASE from = at
      BY <2>2, <3>3, <3>4 DEF s
    <3>5. CASE from # at
      <4>1. from \in at + 1 .. n
        BY <2>1, <3>5
      <4>2. p[from] = Split(body, p, from)
        BY <1>2, <4>1
      <4> QED
        BY <2>2, <3>3, <4>1, <4>2
    <3> QED
      BY <3>4, <3>5
  <2>5. SplitsFrom(body, q, k)
    BY <1>e, <2>4
  <2> QED
    BY <2>3, <2>5
<1>3. 0 \in T
  <2> DEFINE p == [from \in 0 .. n |-> << >>]
  <2>1. \A from \in n - 0 + 1 .. n : p[from] = Split(body, p, from)
    BY <1>n
  <2> HIDE DEF p
  <2>2. 0 \in 0 .. n
    BY <1>n
  <2> HIDE DEF Told
  <2>3. \E q : Told(q) /\ SplitsFrom(body, q, 0)
    BY <1>2, <2>1, <2>2
  <2> QED
    BY <2>2, <2>3
<1>4. ASSUME NEW k \in 1 .. n, k - 1 \in T
      PROVE  k \in T
  <2>1. PICK p : Told(p) /\ SplitsFrom(body, p, k - 1)
    BY <1>4
  <2>2. k \in 0 .. n /\ k - 1 \in 0 .. n /\ n - k + 1 = n - (k - 1)
    BY <1>n
  <2>3. \A from \in n - k + 1 .. n : p[from] = Split(body, p, from)
    BY <1>e, <2>1, <2>2
  <2> HIDE DEF Told
  <2>4. \E q : Told(q) /\ SplitsFrom(body, q, k)
    BY <1>2, <2>2, <2>3
  <2> QED
    BY <2>2, <2>4
<1>5. 0 .. n \subseteq T
  <2>1. \A k \in 1 .. n : k - 1 \in T => k \in T
    BY <1>4
  <2> HIDE DEF T
  <2> QED
    BY <1>n, <1>3, <2>1, UpTo
<1>6. n \in T
  <2> HIDE DEF T
  <2> QED
    BY <1>n, <1>5
<1> QED
  BY <1>6 DEF n

\* _split_message loses nothing and makes pieces that Discord accepts, of any text.
THEOREM SplitLosesNothing == \A body \in Line : Whole(SplitMessage(body), body)
<1> SUFFICES ASSUME NEW body \in Line PROVE Whole(SplitMessage(body), body)
  OBVIOUS
<1> DEFINE n == Len(body)
           Told(p) == p = [from \in 0 .. n |-> Split(body, p, from)]
           pieces == CHOOSE p : Told(p)
<1>n. n \in Nat
  BY DEF Line
<1>1. SplitMessage(body) = pieces[0]
  BY DEF SplitMessage, Split, Left
<1>2. \E p : Told(p)
  <2>1. PICK p : p = [from \in 0 .. n |-> p[from]] /\ SplitsFrom(body, p, n)
    BY SplitExists
  <2>2. \A from \in 0 .. n : p[from] = Split(body, p, from)
    BY <1>n, <2>1 DEF SplitsFrom
  <2>3. [from \in 0 .. n |-> p[from]] = [from \in 0 .. n |-> Split(body, p, from)]
    BY <2>2
  <2> QED
    BY <2>1, <2>3
<1>3. Told(pieces)
  BY <1>2
<1> HIDE DEF pieces
<1>4. \A from \in 0 .. n : pieces[from] = Split(body, pieces, from)
  BY <1>3
<1>5. SplitsFrom(body, pieces, n)
  BY <1>n, <1>4 DEF SplitsFrom
<1>6. Whole(pieces[0], Left(body, 0))
  BY <1>n, <1>5, SplitsWhole
<1>7. Left(body, 0) = body
  BY <1>n, LeftOver
<1> QED
  BY <1>1, <1>6, <1>7

-----------------------------------------------------------------------------

\* What a post has for k.
TextOf(k) == [post \in [command : Command, text : Line] |->
                IF post.command = k THEN <<post.text>> ELSE << >>]

CommandType ==
  [pc : {"none", "lost", "resolving", "posting", "done", "failed"},
   body : Body \cup {<< >>}, sent : Nat]
PostType ==
  /\ command \in [Command -> CommandType]
  /\ posted \in Seq([command : Command, text : Line])

\* What is shown of a command are the first pieces of its text.
FirstPieces(k) ==
  /\ command[k].pc = "none" => command[k].sent = 0 /\ command[k].body = << >>
  /\ command[k].pc # "none" => command[k].body \in Body
  /\ LET pieces == SplitMessage(command[k].body) IN
     /\ command[k].pc \in {"lost", "resolving"} => command[k].sent = 0
     /\ command[k].pc = "posting" => command[k].sent < Len(pieces)
     /\ command[k].pc = "done" => command[k].sent = Len(pieces)
     /\ command[k].sent <= Len(pieces)
     /\ PostedOf(k) = SubSeq(pieces, 1, command[k].sent)
PostInv == PostType /\ \A k \in Command : FirstPieces(k)

\* PostedOf gathers the texts of a command.
LEMMA PostedIsSpread ==
  ASSUME NEW k \in Command
  PROVE  /\ Maps(TextOf(k), [command : Command, text : Line], Line)
         /\ PostType => PostedOf(k) = Spread(posted, TextOf(k))
         /\ PostType' => PostedOf(k)' = Spread(posted', TextOf(k))
<1> DEFINE P == [command : Command, text : Line]
<1>1. Maps(TextOf(k), P, Line)
  BY DEF Maps, TextOf
<1>2. ASSUME NEW s \in Seq(P)
      PROVE  FlattenSeq([i \in 1 .. Len(s) |-> IF s[i].command = k THEN <<s[i].text>> ELSE << >>])
               = Spread(s, TextOf(k))
  <2> DEFINE a == [i \in 1 .. Len(s) |-> IF s[i].command = k THEN <<s[i].text>> ELSE << >>]
             b == [i \in 1 .. Len(s) |-> TextOf(k)[s[i]]]
  <2>1. \A i \in 1 .. Len(s) : s[i] \in P
    <3> HIDE DEF P
    <3> QED
      OBVIOUS
  <2>2. \A v \in P : TextOf(k)[v] = IF v.command = k THEN <<v.text>> ELSE << >>
    BY DEF TextOf
  <2>3. a = b
    BY <2>1, <2>2
  <2> QED
    BY <2>3 DEF Spread
<1>3. PostType => posted \in Seq(P)
  BY DEF PostType
<1>4. PostType' => posted' \in Seq(P)
  BY DEF PostType
<1> HIDE DEF P
<1> QED
  BY <1>1, <1>2, <1>3, <1>4 DEF P, PostedOf

\* A body is cut into at least one piece.
LEMMA BodyHasPieces ==
  ASSUME NEW body \in Body
  PROVE  /\ body \in Line /\ SplitMessage(body) \in Pieces
         /\ Len(SplitMessage(body)) \in Nat /\ 0 < Len(SplitMessage(body))
<1>1. body \in Line /\ body # << >>
  BY BodyAssumption DEF Line, Letter
<1>2. SplitMessage(body) \in Pieces /\ FlattenSeq(SplitMessage(body)) = body
  BY <1>1, SplitLosesNothing DEF Whole
<1>3. SplitMessage(body) # << >>
  BY <1>1, <1>2, FlattenNone
<1> DEFINE p == SplitMessage(body)
<1>4. p \in Pieces /\ p # << >>
  BY <1>2, <1>3
<1> HIDE DEF p
<1>5. Len(p) \in Nat /\ 0 < Len(p)
  BY <1>4 DEF Pieces
<1> QED
  BY <1>1, <1>4, <1>5 DEF p

\* The first pieces, and the next one.
LEMMA NextPiece ==
  ASSUME NEW pieces \in Pieces, NEW n \in Nat, n < Len(pieces)
  PROVE  /\ SubSeq(pieces, 1, n + 1) = SubSeq(pieces, 1, n) \o << pieces[n + 1] >>
         /\ pieces[n + 1] \in Line
<1>1. n + 1 \in 1 .. Len(pieces) /\ (n + 1) - 1 = n
  BY DEF Pieces
<1>2. /\ pieces[n + 1] \in Line /\ SubSeq(pieces, 1, (n + 1) - 1) \in Seq(Line)
      /\ SubSeq(pieces, 1, n + 1) = Append(SubSeq(pieces, 1, (n + 1) - 1), pieces[n + 1])
  BY <1>1, PrefixGrows DEF Pieces
<1> DEFINE a == SubSeq(pieces, 1, n)
           x == pieces[n + 1]
<1>3. a \in Seq(Line) /\ x \in Line
  BY <1>1, <1>2
<1> HIDE DEF a, x
<1>4. Append(a, x) = a \o << x >>
  BY <1>3
<1> QED
  BY <1>1, <1>2, <1>4 DEF a, x

\* Of a command that only moves on, nothing more is shown.
LEMMA CommandMoves ==
  ASSUME PostInv, NEW k \in Command, NEW r \in CommandType,
         command' = [command EXCEPT ![k] = r], posted' = posted,
         r.pc # "none", r.body \in Body,
         r.sent <= Len(SplitMessage(r.body)),
         r.pc \in {"lost", "resolving"} => r.sent = 0,
         r.pc = "posting" => r.sent < Len(SplitMessage(r.body)),
         r.pc = "done" => r.sent = Len(SplitMessage(r.body)),
         PostedOf(k) = SubSeq(SplitMessage(r.body), 1, r.sent)
  PROVE  PostInv'
<1>1. PostType'
  BY DEF PostInv, PostType
<1>2. \A c \in Command : PostedOf(c)' = PostedOf(c)
  BY DEF PostedOf
<1>3. ASSUME NEW c \in Command PROVE FirstPieces(c)'
  <2>1. CASE c = k
    <3>1. command'[k] = r
      BY DEF PostInv, PostType
    <3> QED
      BY <1>2, <2>1, <3>1 DEF FirstPieces
  <2>2. CASE c # k
    <3>1. command'[c] = command[c]
      BY <2>2 DEF PostInv, PostType
    <3> QED
      BY <1>2, <3>1 DEF FirstPieces, PostInv
  <2> QED
    BY <2>1, <2>2
<1> QED
  BY <1>1, <1>3 DEF PostInv

\* The next piece of a command is shown, and nothing of any other.
LEMMA PieceIsPosted ==
  ASSUME PostInv, NEW k \in Command, NEW n \in Nat, command[k].pc = "posting",
         n = command[k].sent + 1, NEW pieces, pieces = SplitMessage(command[k].body),
         posted' = Append(posted, [command |-> k, text |-> pieces[n]]),
         command' = [command EXCEPT ![k] =
             [@ EXCEPT !.sent = n, !.pc = IF n = Len(pieces) THEN "done" ELSE "posting"]]
  PROVE  PostInv'
<1> DEFINE P == [command : Command, text : Line]
           post == [command |-> k, text |-> pieces[n]]
           now == IF n = Len(pieces) THEN "done" ELSE "posting"
           r == [command[k] EXCEPT !.sent = n, !.pc = now]
<1>1. command[k] \in CommandType /\ command[k].body \in Body /\ command[k].sent < Len(pieces)
      /\ PostedOf(k) = SubSeq(pieces, 1, command[k].sent) /\ PostType
  BY DEF PostInv, PostType, FirstPieces
<1>2. pieces \in Pieces /\ Len(pieces) \in Nat
  BY <1>1, BodyHasPieces
<1>3. command[k].sent \in Nat /\ n - 1 = command[k].sent /\ n <= Len(pieces)
  BY <1>1, <1>2 DEF CommandType
<1>4. SubSeq(pieces, 1, n) = SubSeq(pieces, 1, n - 1) \o << pieces[n] >> /\ pieces[n] \in Line
  BY <1>1, <1>2, <1>3, NextPiece
<1>5. post \in P /\ posted \in Seq(P) /\ posted' = Append(posted, post)
  BY <1>1, <1>4 DEF PostType
<1>6. r = [pc |-> now, body |-> command[k].body, sent |-> n]
  <2> DEFINE d == command[k]
             one == [d EXCEPT !.sent = n]
  <2>1. d \in CommandType
    BY <1>1
  <2> HIDE DEF now, d
  <2>2. one = [pc |-> d.pc, body |-> d.body, sent |-> n]
    BY <2>1 DEF CommandType
  <2>3. [one EXCEPT !.pc = now] = [pc |-> now, body |-> d.body, sent |-> n]
    <3> HIDE DEF one
    <3>1. DOMAIN one = {"pc", "body", "sent"} /\ one.body = d.body /\ one.sent = n
      BY <2>2
    <3>2. one = [pc |-> one.pc, body |-> d.body, sent |-> n]
      BY <2>2
    <3> QED
      BY <3>1, <3>2
  <2>4. [d EXCEPT !.sent = n, !.pc = now] = [one EXCEPT !.pc = now]
    OBVIOUS
  <2> QED
    BY <2>3, <2>4 DEF d
<1>7. r \in CommandType
  <2>1. now \in {"posting", "done"}
    OBVIOUS
  <2> HIDE DEF now
  <2> QED
    BY <1>1, <1>6, <2>1 DEF CommandType
<1> HIDE DEF r, P
<1>8. posted' \in Seq(P)
  BY <1>5, AppendProperties
<1>9. command' = [command EXCEPT ![k] = r]
  BY DEF r
<1>10. PostType'
  BY <1>1, <1>7, <1>8, <1>9 DEF PostType, P
<1>11. ASSUME NEW c \in Command
       PROVE  PostedOf(c)' = PostedOf(c) \o (IF c = k THEN << pieces[n] >> ELSE << >>) /\ PostedOf(c) \in Seq(Line)
  <2>1. Maps(TextOf(c), P, Line) /\ PostedOf(c) = Spread(posted, TextOf(c)) /\ PostedOf(c)' = Spread(posted', TextOf(c))
    BY <1>1, <1>10, PostedIsSpread DEF P
  <2> HIDE DEF post
  <2>2. Spread(posted, TextOf(c)) \in Seq(Line) /\ Spread(Append(posted, post), TextOf(c)) = Spread(posted, TextOf(c)) \o TextOf(c)[post]
    <3> DEFINE e == TextOf(c)
    <3>1. Maps(e, P, Line)
      BY <2>1
    <3> HIDE DEF e
    <3>2. Spread(posted, e) \in Seq(Line) /\ Spread(Append(posted, post), e) = Spread(posted, e) \o e[post]
      BY <1>5, <3>1, SpreadAppend
    <3> QED
      BY <3>2 DEF e
  <2>3. post.command = k /\ post.text = pieces[n]
    BY DEF post
  <2>4. TextOf(c)[post] = IF k = c THEN << pieces[n] >> ELSE << >>
    BY <1>5, <2>3 DEF TextOf, P
  <2> QED
    BY <1>5, <2>1, <2>2, <2>4
<1>12. ASSUME NEW c \in Command PROVE FirstPieces(c)'
  <2>1. CASE c = k
    <3>1. command'[k] = r
      BY <1>1, <1>9 DEF PostType
    <3>2. PostedOf(k)' = SubSeq(pieces, 1, n)
      BY <1>1, <1>3, <1>4, <1>11
    <3>3. r.body = command[k].body /\ r.sent = n /\ r.pc = IF n = Len(pieces) THEN "done" ELSE "posting"
      BY <1>6
    <3>4. n # Len(pieces) => n < Len(pieces)
      BY <1>2, <1>3
    <3>5. command'[k].pc \in {"done", "posting"} /\ command'[k].body = command[k].body /\ command'[k].sent = n
          /\ (command'[k].pc = "done" => n = Len(pieces)) /\ (command'[k].pc = "posting" => n < Len(pieces))
      BY <3>1, <3>3, <3>4
    <3>6. SplitMessage(command'[k].body) = pieces
      BY <3>5
    <3> HIDE DEF now
    <3> QED
      BY <1>1, <1>3, <2>1, <3>2, <3>5, <3>6 DEF FirstPieces
  <2>2. CASE c # k
    <3>1. command'[c] = command[c]
      BY <1>1, <1>9, <2>2 DEF PostType
    <3>2. PostedOf(c)' = PostedOf(c)
      <4>1. PostedOf(c)' = PostedOf(c) \o << >> /\ PostedOf(c) \in Seq(Line)
        BY <1>11, <2>2
      <4> DEFINE a == PostedOf(c)
      <4>2. a \in Seq(Line)
        BY <4>1
      <4> HIDE DEF a
      <4>3. a \o << >> = a
        BY <4>2
      <4> QED
        BY <4>1, <4>3 DEF a
    <3> QED
      BY <3>1, <3>2 DEF FirstPieces, PostInv
  <2> QED
    BY <2>1, <2>2
<1> QED
  BY <1>10, <1>12 DEF PostInv

\* At the start nothing is posted.
LEMMA PostStarts == ASSUME DiscordInit PROVE PostInv
<1> USE DEF DiscordInit
<1>1. << >> \in Line /\ << >> \in Seq([command : Command, text : Line])
  BY DEF Line
<1>2. PostType
  BY <1>1 DEF PostType, CommandType, NotSent
<1>3. ASSUME NEW k \in Command PROVE FirstPieces(k)
  <2>1. command[k].pc = "none" /\ command[k].sent = 0 /\ command[k].body = << >>
    BY DEF NotSent
  <2>2. PostedOf(k) = << >>
    <3>1. posted = << >> /\ Maps(TextOf(k), [command : Command, text : Line], Line)
          /\ PostedOf(k) = Spread(posted, TextOf(k))
      BY <1>2, PostedIsSpread
    <3> QED
      BY <3>1, SpreadNone
  <2> DEFINE p == SplitMessage(<< >>)
  <2>3. p \in Pieces
    BY <1>1, SplitLosesNothing DEF Whole
  <2> HIDE DEF p
  <2>4. Len(p) \in Nat /\ SubSeq(p, 1, 0) = << >>
    BY <2>3 DEF Pieces
  <2> QED
    BY <2>1, <2>2, <2>4 DEF FirstPieces, p
<1> QED
  BY <1>2, <1>3 DEF PostInv

\* Every step posts the next piece of a command or none.
LEMMA PostStep == ASSUME PostInv, [DiscordNext]_discordVars PROVE PostInv'
<1>t. command \in [Command -> CommandType] /\ \A k \in Command : FirstPieces(k)
  BY DEF PostInv, PostType
<1>1. ASSUME UNCHANGED <<command, posted>> PROVE PostInv'
  BY <1>1 DEF PostInv, PostType, FirstPieces, PostedOf
<1>2. ASSUME NEW k \in Command, Receive(k) PROVE PostInv'
  <2>1. PICK body \in Body : command' = [command EXCEPT ![k] =
         [pc |-> IF online THEN "resolving" ELSE "lost", body |-> body, sent |-> 0]]
    BY <1>2 DEF Receive
  <2> DEFINE r == [pc |-> IF online THEN "resolving" ELSE "lost", body |-> body, sent |-> 0]
  <2>2. r \in CommandType /\ r.pc \in {"resolving", "lost"} /\ r.body = body /\ r.sent = 0
    BY DEF CommandType
  <2>3. command' = [command EXCEPT ![k] = r] /\ posted' = posted
    BY <1>2, <2>1 DEF Receive
  <2> HIDE DEF r
  <2>4. SplitMessage(body) \in Pieces /\ Len(SplitMessage(body)) \in Nat
    BY BodyHasPieces
  <2>5. command[k].sent = 0 /\ command[k].body = << >>
    BY <1>2, <1>t DEF Receive, FirstPieces
  <2>6. PostedOf(k) = SubSeq(SplitMessage(command[k].body), 1, 0)
    BY <1>t, <2>5 DEF FirstPieces
  <2>7. PostedOf(k) = SubSeq(SplitMessage(body), 1, 0)
    <3> DEFINE p == SplitMessage(body)
               q == SplitMessage(command[k].body)
    <3>1. SubSeq(p, 1, 0) = << >> /\ SubSeq(q, 1, 0) = << >>
      BY SubSeqEmpty
    <3> HIDE DEF p, q
    <3> QED
      BY <2>6, <3>1 DEF p, q
  <2>8. /\ r.pc # "none" /\ r.body \in Body /\ r.sent <= Len(SplitMessage(r.body))
        /\ (r.pc \in {"lost", "resolving"} => r.sent = 0) /\ r.pc # "posting" /\ r.pc # "done"
        /\ PostedOf(k) = SubSeq(SplitMessage(r.body), 1, r.sent)
    BY <2>2, <2>4, <2>7
  <2> QED
    BY <2>2, <2>3, <2>8, CommandMoves
<1>3. ASSUME NEW k \in Command, command[k].pc \in {"resolving", "posting"}, NEW pc \in {"posting", "failed"},
             command' = [command EXCEPT ![k] = [@ EXCEPT !.pc = pc]], posted' = posted
      PROVE  PostInv'
  <2> DEFINE r == [command[k] EXCEPT !.pc = pc]
  <2>1. r \in CommandType /\ r.pc = pc /\ r.body = command[k].body /\ r.sent = command[k].sent
    BY <1>t DEF CommandType
  <2>2. command' = [command EXCEPT ![k] = r]
    BY <1>3
  <2> HIDE DEF r
  <2>3. r.body \in Body /\ PostedOf(k) = SubSeq(SplitMessage(r.body), 1, r.sent)
        /\ r.sent <= Len(SplitMessage(r.body))
    BY <1>t, <1>3, <2>1 DEF FirstPieces
  <2>4. r.pc = "posting" => r.sent < Len(SplitMessage(r.body))
    <3>1. 0 < Len(SplitMessage(r.body))
      BY <2>3, BodyHasPieces
    <3> QED
      BY <1>t, <1>3, <2>1, <3>1 DEF FirstPieces
  <2> QED
    BY <1>3, <2>1, <2>2, <2>3, <2>4, CommandMoves
<1>4. ASSUME NEW k \in Command, Resolve(k) PROVE PostInv'
  <2>1. PICK found \in BOOLEAN :
       command' = [command EXCEPT ![k] = [@ EXCEPT !.pc = IF found THEN "posting" ELSE "failed"]]
    BY <1>4 DEF Resolve
  <2>2. (IF found THEN "posting" ELSE "failed") \in {"posting", "failed"}
    OBVIOUS
  <2> QED
    BY <1>3, <1>4, <2>1, <2>2 DEF Resolve
<1>5. ASSUME NEW k \in Command, PostPiece(k) PROVE PostInv'
  <2> DEFINE pieces == SplitMessage(command[k].body)
             n == command[k].sent + 1
  <2>1. n \in Nat /\ command[k].pc = "posting"
    BY <1>t, <1>5 DEF CommandType, PostPiece
  <2>2. CASE /\ posted' = Append(posted, [command |-> k, text |-> pieces[n]])
             /\ command' = [command EXCEPT ![k] =
                  [@ EXCEPT !.sent = n, !.pc = IF n = Len(pieces) THEN "done" ELSE "posting"]]
    <3> HIDE DEF pieces
    <3> QED
      BY <2>1, <2>2, PieceIsPosted DEF pieces
  <2>3. CASE command' = [command EXCEPT ![k] = [@ EXCEPT !.pc = "failed"]] /\ UNCHANGED posted
    BY <1>3, <2>1, <2>3
  <2> QED
    BY <1>5, <2>2, <2>3 DEF PostPiece
<1> QED
  BY <1>1, <1>2, <1>4, <1>5 DEF DiscordNext, discordVars, SocketOpens, SocketCloses

\* The first pieces of some begin what all of them say.
LEMMA PrefixOfPieces ==
  ASSUME NEW pieces \in Pieces, NEW n \in 0 .. Len(pieces)
  PROVE  /\ IsPrefix(FlattenSeq(SubSeq(pieces, 1, n)), FlattenSeq(pieces))
         /\ \A i \in 1 .. Len(SubSeq(pieces, 1, n)) :
              i \in 1 .. Len(pieces) /\ SubSeq(pieces, 1, n)[i] = pieces[i]
<1> DEFINE a == SubSeq(pieces, 1, n)
           b == SubSeq(pieces, n + 1, Len(pieces))
           x == FlattenSeq(a)
           y == FlattenSeq(b)
<1>1. a \in Seq(Line) /\ b \in Seq(Line) /\ pieces \in Seq(Line) /\ Len(a) = n
      /\ \A i \in 1 .. n : i \in 1 .. Len(pieces) /\ a[i] = pieces[i]
  BY DEF Pieces
<1>2. a \o b = pieces
  <2> DEFINE m == Len(pieces)
  <2>1. m \in Nat /\ 1 \in 1 .. m + 1 /\ n \in 1 - 1 .. m /\ m \in n .. m
    BY <1>1
  <2>2. SubSeq(pieces, 1, n) \o SubSeq(pieces, n + 1, m) = SubSeq(pieces, 1, m)
    <3> HIDE DEF a, b
    <3> QED
      BY <1>1, <2>1, ConcatAdjacentSubSeq
  <2>3. SubSeq(pieces, 1, m) = pieces
    BY <1>1, SubSeqFull
  <2> QED
    BY <2>2, <2>3
<1> HIDE DEF a, b
<1>3. FlattenSeq(pieces) = x \o y
  BY <1>1, <1>2, FlattenConcat DEF Line
<1>4. x \in Seq(Letter) /\ y \in Seq(Letter)
  <2>1. << >> \in Seq(Letter)
    OBVIOUS
  <2> QED
    BY <1>1, <2>1, FlattenAppend DEF Line
<1> HIDE DEF x, y
<1>5. IsPrefix(x, x \o y)
  <2> DEFINE w == x \o y
  <2>1. w \in Seq(Letter) /\ Len(x) \in Nat /\ Len(y) \in Nat /\ Len(w) = Len(x) + Len(y)
        /\ \A i \in 1 .. Len(x) : w[i] = x[i]
    BY <1>4, ConcatProperties
  <2> HIDE DEF w
  <2>2. SubSeq(x, 1, Len(x)) = SubSeq(w, 1, Len(x))
    BY <1>4, <2>1
  <2>3. Len(x) <= Len(w)
    BY <2>1
  <2> QED
    BY <2>2, <2>3 DEF IsPrefix, w
<1> QED
  BY <1>1, <1>3, <1>5 DEF a, x

\* PostedAsWritten: whatever other tasks post in between and wherever a post fails, what
\* Discord shows of a command are pieces that Discord accepts, which put together begin its
\* text, and are all of it when the task is done.
THEOREM PostsAsWritten == DiscordSpec => []PostedAsWritten
<1>1. DiscordInit => PostInv
  BY PostStarts
<1>2. PostInv /\ [DiscordNext]_discordVars => PostInv'
  BY PostStep
<1>3. PostInv => PostedAsWritten
  <2> SUFFICES ASSUME PostInv, NEW k \in Command
               PROVE  /\ \A i \in DOMAIN PostedOf(k) : Len(PostedOf(k)[i]) \in 1 .. Limit
                      /\ IsPrefix(FlattenSeq(PostedOf(k)), command[k].body)
                      /\ command[k].pc = "done" => FlattenSeq(PostedOf(k)) = command[k].body
    BY DEF PostedAsWritten
  <2> DEFINE body == command[k].body
             p == SplitMessage(body)
             n == command[k].sent
  <2>1. FirstPieces(k) /\ command[k] \in CommandType
    BY DEF PostInv, PostType
  <2>2. body \in Line
    <3>1. << >> \in Line
      BY DEF Line
    <3> QED
      BY <2>1, <3>1, BodyHasPieces DEF CommandType
  <2>3. Whole(p, body)
    BY <2>2, SplitLosesNothing
  <2>4. PostedOf(k) = SubSeq(p, 1, n) /\ n \in Nat /\ n <= Len(p) /\ (command[k].pc = "done" => n = Len(p))
    BY <2>1 DEF FirstPieces, CommandType
  <2> HIDE DEF p, n
  <2>5. p \in Pieces /\ FlattenSeq(p) = body /\ \A i \in 1 .. Len(p) : Len(p[i]) \in 1 .. Limit
    BY <2>3 DEF Whole
  <2>6. n \in 0 .. Len(p) /\ Len(SubSeq(p, 1, n)) = n /\ DOMAIN SubSeq(p, 1, n) = 1 .. n
    BY <2>4, <2>5 DEF Pieces
  <2>7. IsPrefix(FlattenSeq(PostedOf(k)), body)
    BY <2>4, <2>5, <2>6, PrefixOfPieces
  <2>8. \A i \in 1 .. n : Len(SubSeq(p, 1, n)[i]) \in 1 .. Limit
    BY <2>5, <2>6, PrefixOfPieces
  <2>9. n = Len(p) => SubSeq(p, 1, n) = p
    BY <2>5, SubSeqFull DEF Pieces
  <2> QED
    BY <2>4, <2>5, <2>6, <2>7, <2>8, <2>9
<1> QED
  BY <1>1, <1>2, <1>3, PTL DEF DiscordSpec

\* Whatever was published and came is in its order, and what was posted is as it was written:
\* DeliveredAsWritten.
THEOREM DeliveriesStayAsWritten == HubSpec /\ DiscordSpec => []DeliveredAsWritten
<1>1. EventsInOrder /\ PostedAsWritten => DeliveredAsWritten
  BY DEF DeliveredAsWritten
<1> QED
  BY <1>1, EventsComeInOrder, PostsAsWritten, PTL

=============================================================================
