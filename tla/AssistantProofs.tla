-------------------------- MODULE AssistantProofs ---------------------------
(***************************************************************************)
(* The promises of the assistant's tools, for any number of calls and      *)
(* requests: approvals, the files and the rows of a memory, the tokens of  *)
(* Spotify, the gallery of images, the desktop actions, the documents and  *)
(* the delegations of a workspace.                                         *)
(***************************************************************************)
EXTENDS ToolApproval, MemoryRows, SpotifyTokens, ImageGallery, DesktopBridge, Documents,
  Workspaces, SequenceFacts, FiniteSetTheorems, TLAPS

(***************************************************************************)
(* RunsOnlyApproved and BoxIsRecorded for any number of calls and deciders *)
(* and any delays.  An approval passes from the decider to Redis, from     *)
(* there to a poll, and from the poll to the container: the invariant      *)
(* follows it.                                                             *)
(***************************************************************************)

CallType == [pc : PC, asks : BOOLEAN, waited : 0..WaitLimit, hung : BOOLEAN]
ReqType == [status : Statuses \cup {"gone"}, ttl : 0..TTL]
DeciderType == [call : Call \cup {Nobody}, status : Statuses]

Approved(c) == "approved" \in said[c]

\* Redis says approved only after someone did, and so does a call that was granted.
Granted ==
  \A c \in Call :
    /\ req[c].status = "approved" => Approved(c)
    /\ (call[c].pc \in {"granted", "running", "recording"} /\ call[c].asks) => Approved(c)
    /\ call[c].pc = "new" => box[c] = "none"
ApprovalInv == Granted /\ RunsOnlyApproved

\* A container is up while its call runs, or after the client has left.
BoxShape ==
  \A c \in Call :
    /\ call[c].pc \in {"new", "loaded", "waiting", "granted"} => box[c] = "none"
    /\ call[c].pc = "running" => box[c] = "up"
    /\ call[c].pc = "recording" => box[c] = "removed"
    /\ call[c].pc \in {"answered", "failed"} => box[c] # "up"
BoxInv == BoxShape /\ BoxIsRecorded

-----------------------------------------------------------------------------

\* One call moves on to one of pcs, with what it read of the tool.
Moves(c, pcs) ==
  \E k \in CallType : k.pc \in pcs /\ k.asks = call[c].asks /\ call' = [call EXCEPT ![c] = k]

\* A call that is given a record of its type, with what it had read, moves.
LEMMA RecordMoves ==
  ASSUME TypeOK, NEW c \in Call, NEW pc \in PC, NEW waited \in 0..WaitLimit, NEW hung \in BOOLEAN,
         call' = [call EXCEPT ![c] = [pc |-> pc, asks |-> @.asks, waited |-> waited, hung |-> hung]]
  PROVE  Moves(c, {pc})
<1>1. call[c].asks \in BOOLEAN
  BY DEF TypeOK
<1>2. [pc |-> pc, asks |-> call[c].asks, waited |-> waited, hung |-> hung] \in CallType
  BY <1>1 DEF CallType
<1>3. PICK k \in CallType : k = [pc |-> pc, asks |-> call[c].asks, waited |-> waited, hung |-> hung]
  BY <1>2
<1>4. call' = [call EXCEPT ![c] = k] /\ k.pc = pc /\ k.asks = call[c].asks
  BY <1>3
<1>5. QED
  BY <1>4 DEF Moves

\* A step to another point of the call starts its delay anew.
LEMMA GotoMoves ==
  ASSUME TypeOK, NEW c \in Call, NEW pc \in PC, Goto(c, pc)
  PROVE  Moves(c, {pc})
<1>1. call[c].hung \in BOOLEAN /\ 0 \in 0..WaitLimit
  BY TimeAssumption DEF TypeOK
<1>2. PICK hung \in BOOLEAN : hung = call[c].hung
  BY <1>1
<1>3. call' = [call EXCEPT ![c] = [pc |-> pc, asks |-> @.asks, waited |-> 0, hung |-> hung]]
  BY <1>2 DEF Goto
<1>4. QED
  BY <1>1, <1>3, RecordMoves

\* Such a step keeps the type, leaves the other calls alone and forgets nothing.
LEMMA MovesKeeps ==
  ASSUME TypeOK, NEW c \in Call, NEW pcs, Moves(c, pcs)
  PROVE  /\ call' \in [Call -> CallType]
         /\ call'[c].pc \in pcs /\ call'[c].asks = call[c].asks
         /\ \A e \in Call : e # c => call'[e] = call[e]
BY DEF Moves, TypeOK, CallType

\* What each step of a call does to it.
LEMMA CallSteps ==
  ASSUME TypeOK, NEW c \in Call
  PROVE  /\ Ask(c) => Moves(c, {"answered", "waiting", "failed", "granted"})
         /\ Poll(c) => Moves(c, {"answered", "granted"})
         /\ PollFails(c) => Moves(c, {"failed"})
         /\ Hang(c) => Moves(c, {"waiting"})
         /\ Expire(c) => Moves(c, {"answered"})
         /\ Execute(c) => Moves(c, {"answered", "running", "failed"})
         /\ Record(c) => Moves(c, {"answered", "failed"})
         /\ Cancel(c) => Moves(c, {"cancelled"})
<1>1. call \in [Call -> CallType] /\ call[c] \in CallType /\ 0 \in 0..WaitLimit
  BY TimeAssumption DEF TypeOK, CallType
<1>2. \A pc \in {"answered", "waiting", "granted", "running", "failed"} : Goto(c, pc) => Moves(c, {pc})
  BY GotoMoves DEF PC, Ended
<1>3. Hang(c) => Moves(c, {"waiting"})
  <2>1. [call[c] EXCEPT !.hung = TRUE] \in CallType
    BY <1>1 DEF CallType
  <2>2. PICK k \in CallType : k = [call[c] EXCEPT !.hung = TRUE]
    BY <2>1
  <2>3. k.pc = call[c].pc /\ k.asks = call[c].asks
    BY <1>1, <2>2 DEF CallType
  <2>4. Hang(c) => call' = [call EXCEPT ![c] = k] /\ k.pc = "waiting"
    BY <1>1, <2>2, <2>3 DEF Hang, At
  <2>5. QED
    BY <2>3, <2>4 DEF Moves
<1>4. Expire(c) => Moves(c, {"answered"})
  BY <1>1, RecordMoves DEF Expire, PC, Ended
<1>5. Cancel(c) => Moves(c, {"cancelled"})
  BY <1>1, RecordMoves DEF Cancel, PC, Ended
<1>6. \A pc, pcs : pc \in pcs /\ Moves(c, {pc}) => Moves(c, pcs)
  BY DEF Moves
<1>7. Ask(c) => Moves(c, {"answered", "waiting", "failed", "granted"})
  <2>1. Ask(c) => \E pc \in {"answered", "waiting", "failed", "granted"} : Goto(c, pc)
    BY DEF Ask
  <2>2. QED
    BY <1>2, <1>6, <2>1
<1>8. Poll(c) => Moves(c, {"answered", "granted"})
  BY <1>2, <1>6 DEF Poll
<1>9. Execute(c) => Moves(c, {"answered", "running", "failed"})
  BY <1>2, <1>6 DEF Execute
<1>10. Record(c) => Moves(c, {"answered", "failed"})
  BY <1>2, <1>6 DEF Record
<1>11. PollFails(c) => Moves(c, {"failed"})
  BY <1>1, RecordMoves DEF PollFails, PC, Ended
<1>12. QED
  BY <1>3, <1>4, <1>5, <1>7, <1>8, <1>9, <1>10, <1>11

-----------------------------------------------------------------------------

\* Every reachable state of calls, requests, deciders and containers has its type.
THEOREM ToolTypes == Spec => []TypeOK
<1>1. Init => TypeOK
  <2> SUFFICES ASSUME Init PROVE TypeOK
    OBVIOUS
  <2>1. NewCall \in CallType /\ Gone \in ReqType /\ [call |-> Nobody, status |-> "pending"] \in DeciderType
    BY TimeAssumption DEF NewCall, Gone, CallType, ReqType, DeciderType, PC, Statuses
  <2>2. call \in [Call -> CallType] /\ req \in [Call -> ReqType] /\ decider \in [Decider -> DeciderType]
    BY <2>1 DEF Init
  <2>3. tool \in [there : BOOLEAN, asks : BOOLEAN]
    BY DEF Init
  <2>4. QED
    BY <2>2, <2>3 DEF Init, TypeOK, CallType, ReqType, DeciderType
<1>2. TypeOK /\ [Next]_vars => TypeOK'
  <2> SUFFICES ASSUME TypeOK, [Next]_vars PROVE TypeOK'
    OBVIOUS
  <2> USE DEF TypeOK
  <2>1. CASE UNCHANGED vars
    BY <2>1 DEF vars
  <2>2. ASSUME NEW c \in Call, Reply(c) \/ Hang(c) \/ PollFails(c) \/ Cancel(c) PROVE TypeOK'
    <3>1. \A pcs : Moves(c, pcs) => call' \in [Call -> CallType]
      BY MovesKeeps
    <3>2. CASE LoadTools(c)
      <4>1. tool.asks \in BOOLEAN /\ call[c].waited \in 0..WaitLimit /\ call[c].hung \in BOOLEAN
        OBVIOUS
      <4>2. [pc |-> "loaded", asks |-> tool.asks, waited |-> call[c].waited, hung |-> call[c].hung] \in CallType
        BY <4>1 DEF CallType, PC
      <4>3. call' \in [Call -> CallType]
        BY <3>2, <4>2 DEF LoadTools, CallType
      <4>4. QED
        BY <3>2, <4>3 DEF LoadTools, CallType
    <3>3. CASE Ask(c)
      <4>1. [status |-> "pending", ttl |-> TTL] \in ReqType
        BY TimeAssumption DEF ReqType, Statuses
      <4>2. req' \in [Call -> ReqType]
        BY <3>3, <4>1 DEF Ask, Requested, ReqType
      <4>3. QED
        BY <3>1, <3>3, <4>2, CallSteps DEF Ask, ReqType, CallType
    <3>4. CASE Poll(c) \/ PollFails(c) \/ Hang(c) \/ Expire(c) \/ Cancel(c)
      BY <3>1, <3>4, CallSteps DEF Poll, PollFails, Hang, Expire, Cancel, CallType
    <3>5. CASE Execute(c)
      BY <3>1, <3>5, CallSteps DEF Execute, CallType
    <3>6. CASE BoxEnds(c)
      <4>1. call' \in [Call -> CallType]
        BY <3>6 DEF BoxEnds, CallType, PC
      <4>2. QED
        BY <3>6, <4>1 DEF BoxEnds, CallType
    <3>7. CASE Record(c)
      BY <3>1, <3>7, CallSteps DEF Record, CallType
    <3>8. QED
      BY <2>2, <3>2, <3>3, <3>4, <3>5, <3>6, <3>7 DEF Reply
  <2>3. ASSUME NEW d \in Decider, DecideWrite(d) PROVE TypeOK'
    <3>1. PICK c \in Call : c = decider[d].call
      BY <2>3 DEF DecideWrite
    <3>2. PICK s \in Statuses : s = decider[d].status
      OBVIOUS
    <3>3. [status |-> s, ttl |-> TTL] \in ReqType /\ [call |-> Nobody, status |-> "pending"] \in DeciderType
      BY TimeAssumption DEF ReqType, DeciderType, Statuses
    <3>4. req' \in [Call -> ReqType] /\ decider' \in [Decider -> DeciderType]
      BY <2>3, <3>1, <3>2, <3>3 DEF DecideWrite, ReqType, DeciderType
    <3>5. said' \in [Call -> SUBSET Statuses]
      BY <2>3, <3>1, <3>2 DEF DecideWrite
    <3>6. QED
      BY <2>3, <3>4, <3>5 DEF DecideWrite, ReqType, DeciderType
  <2>4. ASSUME NEW d \in Decider, NEW c \in Call, DecideRead(d, c) PROVE TypeOK'
    <3>1. PICK s \in Statuses : decider' = [decider EXCEPT ![d] = [call |-> c, status |-> s]]
      BY <2>4 DEF DecideRead, Statuses
    <3>2. QED
      BY <2>4, <3>1 DEF DecideRead
  <2>5. CASE PatchTool \/ DeleteTool
    <3>1. CASE PatchTool
      BY <3>1 DEF PatchTool
    <3>2. CASE DeleteTool
      BY <3>2 DEF DeleteTool
    <3>3. QED
      BY <2>5, <3>1, <3>2
  <2>6. ASSUME NEW d \in Decider, DecideFails(d) PROVE TypeOK'
    <3>1. [call |-> Nobody, status |-> "pending"] \in DeciderType
      BY DEF DeciderType, Statuses
    <3>2. decider' \in [Decider -> DeciderType]
      BY <2>6, <3>1 DEF DecideFails, DeciderType
    <3>3. QED
      BY <2>6, <3>2 DEF DecideFails, DeciderType
  <2>7. CASE Tick
    <3>1. ASSUME NEW c \in Call, At(c, "waiting") PROVE [call[c] EXCEPT !.waited = @ + 1] \in CallType
      <4>1. call[c] \in CallType /\ call[c].waited < WaitLimit
        BY <2>7, <3>1 DEF Tick, CallType
      <4>2. call[c].waited + 1 \in 0..WaitLimit
        BY <4>1, TimeAssumption DEF CallType
      <4>3. QED
        BY <4>1, <4>2 DEF CallType
    <3>2. call' \in [Call -> CallType]
      BY <2>7, <3>1 DEF Tick, CallType
    <3>3. \A c \in Call : req[c].ttl > 1 => [req[c] EXCEPT !.ttl = @ - 1] \in ReqType
      BY TimeAssumption DEF ReqType
    <3>4. Gone \in ReqType /\ \A c \in Call : req[c].ttl <= 1 \/ req[c].ttl > 1
      BY TimeAssumption DEF Gone, ReqType
    <3>5. req' \in [Call -> ReqType]
      <4>1. \A c \in Call : (IF req[c].ttl <= 1 THEN Gone ELSE [req[c] EXCEPT !.ttl = @ - 1]) \in ReqType
        BY <3>3, <3>4
      <4>2. QED
        BY <2>7, <4>1 DEF Tick
    <3>6. QED
      BY <2>7, <3>2, <3>5 DEF Tick, CallType, ReqType
  <2>8. QED
    BY <2>1, <2>2, <2>3, <2>4, <2>5, <2>6, <2>7 DEF Next
<1>3. QED
  BY <1>1, <1>2, PTL DEF Spec

-----------------------------------------------------------------------------

\* RunsOnlyApproved of the specification: no container of a call that requires an
\* approval exists before someone approved that call.
THEOREM ApprovedBeforeRun == Spec => []RunsOnlyApproved
<1>1. Init => ApprovalInv
  BY DEF Init, ApprovalInv, Granted, RunsOnlyApproved, NewCall, Gone
<1>2. TypeOK /\ ApprovalInv /\ [Next]_vars => ApprovalInv'
  <2> SUFFICES ASSUME TypeOK, ApprovalInv, [Next]_vars PROVE ApprovalInv'
    OBVIOUS
  <2> USE DEF ApprovalInv, Granted, RunsOnlyApproved, Approved
  <2>1. CASE UNCHANGED vars
    BY <2>1 DEF vars
  <2>2. ASSUME NEW c \in Call, Reply(c) \/ Hang(c) \/ PollFails(c) \/ Cancel(c) PROVE ApprovalInv'
    <3>1. \A pcs : Moves(c, pcs) => /\ call'[c].pc \in pcs /\ call'[c].asks = call[c].asks
                                    /\ \A e \in Call : e # c => call'[e] = call[e]
      BY MovesKeeps
    <3>2. CASE LoadTools(c)
      <4>1. call'[c].pc = "loaded" /\ box[c] = "none" /\ \A e \in Call : e # c => call'[e] = call[e]
        BY <3>2 DEF LoadTools, TypeOK, At
      <4>2. QED
        BY <3>2, <4>1 DEF LoadTools
    <3>3. CASE Ask(c)
      <4>1. \/ call'[c].pc # "granted" /\ (req' = req \/ req'[c].status = "pending")
            \/ ~call[c].asks /\ req' = req
        <5>1. \/ Goto(c, "granted") /\ ~call[c].asks /\ req' = req
              \/ \E pc \in {"answered", "waiting", "failed"} :
                   Goto(c, pc) /\ req' \in {req, Requested(c)}
          BY <3>3 DEF Ask
        <5>2. Requested(c)[c].status = "pending"
          BY DEF Requested, TypeOK
        <5>3. \A pc : Goto(c, pc) => call'[c].pc = pc
          BY DEF Goto, TypeOK
        <5>4. QED
          BY <5>1, <5>2, <5>3
      <4>2. call'[c].pc \in {"answered", "waiting", "failed", "granted"}
        BY <3>1, <3>3, CallSteps
      <4>3. call'[c].asks = call[c].asks /\ \A e \in Call : e # c => call'[e] = call[e]
        BY <3>1, <3>3, CallSteps
      <4>4. \A e \in Call : e # c => req'[e] = req[e]
        BY <3>3 DEF Ask, Requested, TypeOK
      <4>5. QED
        BY <3>3, <4>1, <4>2, <4>3, <4>4 DEF Ask
    <3>4. CASE Poll(c)
      <4>1. call'[c].pc = "granted" => req[c].status = "approved"
        BY <3>4 DEF Poll, Goto, Verdict, TypeOK
      <4>2. call'[c].pc \in {"answered", "granted"} /\ call'[c].asks = call[c].asks
        BY <3>1, <3>4, CallSteps
      <4>3. \A e \in Call : e # c => call'[e] = call[e]
        BY <3>1, <3>4, CallSteps
      <4>4. QED
        BY <3>4, <4>1, <4>2, <4>3 DEF Poll
    <3>5. CASE Hang(c) \/ PollFails(c) \/ Expire(c) \/ Cancel(c)
      <4>1. call'[c].pc \in {"waiting", "failed", "answered", "cancelled"} /\ call'[c].asks = call[c].asks
        BY <3>1, <3>5, CallSteps
      <4>2. \A e \in Call : e # c => call'[e] = call[e]
        BY <3>1, <3>5, CallSteps
      <4>3. QED
        BY <3>5, <4>1, <4>2 DEF Hang, PollFails, Expire, Cancel
    <3>6. CASE Execute(c)
      <4>1. call[c].asks => Approved(c)
        BY <3>6 DEF Execute, At
      <4>2. call'[c].pc # "new" /\ call'[c].asks = call[c].asks
        BY <3>1, <3>6, CallSteps
      <4>3. \A e \in Call : e # c => call'[e] = call[e] /\ box'[e] = box[e]
        BY <3>1, <3>6, CallSteps DEF Execute, TypeOK
      <4>4. QED
        BY <3>6, <4>1, <4>2, <4>3 DEF Execute
    <3>7. CASE BoxEnds(c)
      <4>1. call'[c].asks = call[c].asks /\ call'[c].pc # "new"
        BY <3>7 DEF BoxEnds, At, TypeOK
      <4>2. call'[c].pc = call[c].pc \/ call[c].pc = "running"
        BY <3>7 DEF BoxEnds, At, TypeOK
      <4>3. \A e \in Call : e # c => call'[e] = call[e] /\ box'[e] = box[e]
        BY <3>7 DEF BoxEnds, TypeOK
      <4>4. QED
        BY <3>7, <4>1, <4>2, <4>3 DEF BoxEnds
    <3>8. CASE Record(c)
      <4>1. call'[c].pc \in {"answered", "failed"} /\ call'[c].asks = call[c].asks
        BY <3>1, <3>8, CallSteps
      <4>2. \A e \in Call : e # c => call'[e] = call[e]
        BY <3>1, <3>8, CallSteps
      <4>3. QED
        BY <3>8, <4>1, <4>2 DEF Record
    <3>9. QED
      BY <2>2, <3>2, <3>3, <3>4, <3>5, <3>6, <3>7, <3>8 DEF Reply
  <2>3. ASSUME NEW d \in Decider, DecideWrite(d) PROVE ApprovalInv'
    <3>1. PICK c \in Call : c = decider[d].call
      BY <2>3 DEF DecideWrite, TypeOK
    <3>2. PICK s \in Statuses : s = decider[d].status
      BY DEF TypeOK
    <3>3. said' = [said EXCEPT ![c] = @ \cup {s}] /\ req' = [req EXCEPT ![c] = [status |-> s, ttl |-> TTL]]
      BY <2>3, <3>1, <3>2 DEF DecideWrite
    <3>4. \A e \in Call : said[e] \subseteq said'[e]
      BY <3>3 DEF TypeOK
    <3>5. \A e \in Call : req'[e].status = "approved" => "approved" \in said'[e]
      BY <3>3 DEF TypeOK
    <3>6. QED
      BY <2>3, <3>4, <3>5 DEF DecideWrite
  <2>4. CASE \E d \in Decider : DecideFails(d) \/ \E c \in Call : DecideRead(d, c)
    BY <2>4 DEF DecideRead, DecideFails
  <2>5. CASE PatchTool \/ DeleteTool
    BY <2>5 DEF PatchTool, DeleteTool
  <2>6. CASE Tick
    <3>1. ASSUME NEW c \in Call PROVE call'[c].pc = call[c].pc /\ call'[c].asks = call[c].asks
      <4>1. call[c] \in CallType /\ call'[c] \in {call[c], [call[c] EXCEPT !.waited = @ + 1]}
        BY <2>6 DEF Tick, TypeOK, CallType
      <4>2. QED
        BY <4>1 DEF CallType
    <3>2. ASSUME NEW c \in Call PROVE req'[c].status \in {"gone", req[c].status}
      <4>1. req[c] \in ReqType /\ req'[c] \in {Gone, [req[c] EXCEPT !.ttl = @ - 1]}
        BY <2>6 DEF Tick, TypeOK, ReqType
      <4>2. QED
        BY <4>1 DEF ReqType, Gone
    <3>3. QED
      BY <2>6, <3>1, <3>2 DEF Tick
  <2>7. QED
    BY <2>1, <2>2, <2>3, <2>4, <2>5, <2>6 DEF Next
<1>3. ApprovalInv => RunsOnlyApproved
  BY DEF ApprovalInv
<1>4. QED
  BY <1>1, <1>2, <1>3, ToolTypes, PTL DEF Spec

-----------------------------------------------------------------------------

\* BoxIsRecorded of the specification: a container that is up has its row, in the
\* status running, as long as its tool exists.
THEOREM UpIsRecorded == Spec => []BoxIsRecorded
<1>1. Init => BoxInv
  BY DEF Init, BoxInv, BoxShape, BoxIsRecorded, NewCall
<1>2. TypeOK /\ BoxInv /\ [Next]_vars => BoxInv'
  <2> SUFFICES ASSUME TypeOK, BoxInv, [Next]_vars PROVE BoxInv'
    OBVIOUS
  <2> USE DEF BoxInv, BoxShape, BoxIsRecorded
  <2>1. CASE UNCHANGED vars
    BY <2>1 DEF vars
  <2>2. ASSUME NEW c \in Call, Reply(c) \/ Hang(c) \/ PollFails(c) \/ Cancel(c) PROVE BoxInv'
    <3>1. \A pcs : Moves(c, pcs) => call'[c].pc \in pcs /\ \A e \in Call : e # c => call'[e] = call[e]
      BY MovesKeeps
    <3>2. CASE LoadTools(c)
      <4>1. call'[c].pc = "loaded" /\ box[c] = "none" /\ \A e \in Call : e # c => call'[e] = call[e]
        BY <3>2 DEF LoadTools, TypeOK, At
      <4>2. QED
        BY <3>2, <4>1 DEF LoadTools
    <3>3. CASE Ask(c) \/ Poll(c) \/ PollFails(c) \/ Hang(c) \/ Expire(c)
      <4>1. box[c] = "none"
        BY <3>3 DEF Ask, Poll, PollFails, Hang, Expire, At
      <4>2. call'[c].pc \in {"answered", "waiting", "failed", "granted"} /\ \A e \in Call : e # c => call'[e] = call[e]
        BY <3>1, <3>3, CallSteps
      <4>3. QED
        BY <3>3, <4>1, <4>2 DEF Ask, Poll, PollFails, Hang, Expire
    <3>4. CASE Execute(c)
      <4>1. \/ call'[c].pc \in {"answered", "failed"} /\ box' = box /\ exec' = exec
            \/ call'[c].pc = "running" /\ box'[c] = "up" /\ exec'[c] = "running"
        BY <3>4 DEF Execute, Goto, TypeOK
      <4>2. \A e \in Call : e # c => call'[e] = call[e] /\ box'[e] = box[e] /\ exec'[e] = exec[e]
        BY <3>1, <3>4, CallSteps DEF Execute, TypeOK
      <4>3. box[c] = "none"
        BY <3>4 DEF Execute, At
      <4>4. QED
        BY <3>4, <4>1, <4>2, <4>3 DEF Execute
    <3>5. CASE BoxEnds(c)
      <4>1. /\ call'[c].pc \notin {"new", "loaded", "waiting", "granted", "running"}
            /\ box'[c] = "removed"
        BY <3>5 DEF BoxEnds, At, TypeOK, PC
      <4>2. \A e \in Call : e # c => call'[e] = call[e] /\ box'[e] = box[e]
        BY <3>5 DEF BoxEnds, TypeOK
      <4>3. QED
        BY <3>5, <4>1, <4>2 DEF BoxEnds
    <3>6. CASE Record(c)
      <4>1. box[c] = "removed" /\ call'[c].pc \in {"answered", "failed"}
        BY <3>1, <3>6, CallSteps DEF Record, At
      <4>2. \A e \in Call : e # c => call'[e] = call[e] /\ exec'[e] = exec[e]
        BY <3>1, <3>6, CallSteps DEF Record, TypeOK
      <4>3. QED
        BY <3>6, <4>1, <4>2 DEF Record
    <3>7. CASE Cancel(c)
      <4>1. call'[c].pc = "cancelled" /\ \A e \in Call : e # c => call'[e] = call[e]
        BY <3>1, <3>7, CallSteps
      <4>2. QED
        BY <3>7, <4>1 DEF Cancel
    <3>8. QED
      BY <2>2, <3>2, <3>3, <3>4, <3>5, <3>6, <3>7 DEF Reply
  <2>3. CASE \E d \in Decider : DecideWrite(d) \/ DecideFails(d) \/ \E c \in Call : DecideRead(d, c)
    BY <2>3 DEF DecideWrite, DecideFails, DecideRead
  <2>4. CASE PatchTool
    BY <2>4 DEF PatchTool, TypeOK
  <2>5. CASE DeleteTool
    BY <2>5 DEF DeleteTool, TypeOK
  <2>6. CASE Tick
    <3>1. ASSUME NEW c \in Call PROVE call'[c].pc = call[c].pc
      <4>1. call[c] \in CallType /\ call'[c] \in {call[c], [call[c] EXCEPT !.waited = @ + 1]}
        BY <2>6 DEF Tick, TypeOK, CallType
      <4>2. QED
        BY <4>1 DEF CallType
    <3>2. box' = box /\ exec' = exec /\ tool' = tool
      BY <2>6 DEF Tick
    <3>3. QED
      BY <3>1, <3>2
  <2>7. QED
    BY <2>1, <2>2, <2>3, <2>4, <2>5, <2>6 DEF Next
<1>3. BoxInv => BoxIsRecorded
  BY DEF BoxInv
<1>4. QED
  BY <1>1, <1>2, <1>3, ToolTypes, PTL DEF Spec

\* A container is allowed by its approval and accounted for by its row: BoxesAreAllowed.
THEOREM BoxesStayAllowed == Spec => []BoxesAreAllowed
<1>1. RunsOnlyApproved /\ BoxIsRecorded => BoxesAreAllowed
  BY DEF BoxesAreAllowed
<1> QED
  BY <1>1, ApprovedBeforeRun, UpIsRecorded, PTL

-----------------------------------------------------------------------------

(***************************************************************************)
(* How far the files of a memory may exceed their quota, for any number of *)
(* processes and any quota.  The bound on the files alone is not           *)
(* inductive: a process past its count adds a file however many there are  *)
(* by then.  The files and those about to be written keep it together: the *)
(* last process that counts sees less files than the quota, and all the    *)
(* processes write at most one file each.                                  *)
(***************************************************************************)

\* The files that exist or are about to.
Claimed == Files \cup Coming

-----------------------------------------------------------------------------

\* Each process writes one file at most.
LEMMA ComingIsSmall ==
  ASSUME NEW calls, NEW C, NEW W \in SUBSET Process, C = {calls[p].name : p \in W}
  PROVE  /\ IsFiniteSet(C)
         /\ Cardinality(C) \in Nat /\ Cardinality(Process) \in Nat
         /\ Cardinality(C) <= Cardinality(Process)
<1> DEFINE f == [p \in W |-> calls[p].name]
<1>1. IsFiniteSet(W) /\ Cardinality(W) <= Cardinality(Process)
  BY ProcessAssumption, FS_Subset
<1>2. f \in Surjection(W, C)
  BY DEF Surjection
<1>3. IsFiniteSet(C) /\ Cardinality(C) <= Cardinality(W)
  BY <1>1, <1>2, FS_Surjection
<1>4. Cardinality(W) \in Nat /\ Cardinality(C) \in Nat /\ Cardinality(Process) \in Nat
  BY <1>1, <1>3, ProcessAssumption, FS_CardinalityType
<1> QED
  BY <1>1, <1>3, <1>4

\* A step that claims no new file keeps the bound.
LEMMA NothingClaimed ==
  ASSUME QuotaInv, MemoryTypeOK', Claimed' \subseteq Claimed
  PROVE  QuotaInv'
<1>1. /\ IsFiniteSet(Claimed)
      /\ Cardinality(Claimed) <= MaxFiles + Cardinality(Process) - 1
  BY DEF QuotaInv, Claimed
<1>2. IsFiniteSet(Claimed') /\ Cardinality(Claimed') <= Cardinality(Claimed)
  BY <1>1, FS_Subset
<1>3. Cardinality(Claimed') \in Nat /\ Cardinality(Claimed) \in Nat /\ Cardinality(Process) \in Nat
  BY <1>1, <1>2, ProcessAssumption, FS_CardinalityType
<1>4. Cardinality(Claimed') <= MaxFiles + Cardinality(Process) - 1
  BY <1>1, <1>2, <1>3, QuotaAssumption
<1> QED
  BY <1>2, <1>4 DEF QuotaInv, Claimed

\* The call of one process moves; the other processes keep theirs.
LEMMA OneWorks ==
  ASSUME MemoryTypeOK, NEW p \in Process, NEW pc \in MemoryPC, NEW n \in FileName,
         work' = [work EXCEPT ![p] = [pc |-> pc, name |-> n]]
  PROVE  /\ work' \in [Process -> [pc : MemoryPC, name : FileName]]
         /\ work'[p].pc = pc /\ work'[p].name = n
         /\ \A q \in Process \ {p} : work'[q] = work[q]
<1> DEFINE r == [pc |-> pc, name |-> n]
<1>1. r \in [pc : MemoryPC, name : FileName] /\ r.pc = pc /\ r.name = n
  OBVIOUS
<1>2. work' = [work EXCEPT ![p] = r] /\ work \in [Process -> [pc : MemoryPC, name : FileName]]
  BY DEF MemoryTypeOK
<1> HIDE DEF r
<1> QED
  BY <1>1, <1>2

\* A call that comes no nearer to a new file: its process claims none, or the one it claimed.
LEMMA StillClaimed ==
  ASSUME NEW p \in Process, NEW pc \in MemoryPC, NEW n \in FileName, MemoryTypeOK,
         work' = [work EXCEPT ![p] = [pc |-> pc, name |-> n]],
         pc \in {"writing", "filling"} => n \in Claimed
  PROVE  Coming' \subseteq Claimed
<1>1. /\ work'[p].pc = pc /\ work'[p].name = n
      /\ \A q \in Process \ {p} : work'[q] = work[q]
  BY OneWorks
<1> SUFFICES ASSUME NEW q \in Process, Writing(q)'
             PROVE  work'[q].name \in Claimed
  BY DEF Coming
<1>2. CASE q = p
  BY <1>1, <1>2 DEF Writing
<1>3. CASE q # p
  BY <1>1, <1>3 DEF Writing, Claimed, Coming
<1> QED
  BY <1>2, <1>3

-----------------------------------------------------------------------------

\* Every step of a process keeps the bound.
LEMMA QuotaStep ==
  ASSUME QuotaInv, [MemoryNext]_memoryVars
  PROVE  QuotaInv'
<1>1. MemoryTypeOK
  BY DEF QuotaInv
<1>2. CASE UNCHANGED memoryVars
  BY <1>2 DEF memoryVars, QuotaInv, MemoryTypeOK, Files, Coming, Writing
<1>3. ASSUME NEW p \in Process, BeginWork(p)
      PROVE  QuotaInv'
  <2>1. PICK n \in FileName, pc \in {"looking", "unlinking"} :
          work' = [work EXCEPT ![p] = [pc |-> pc, name |-> n]]
    BY <1>3 DEF BeginWork
  <2>2. pc \in MemoryPC /\ file' = file
    BY <1>3 DEF BeginWork, MemoryPC
  <2>3. MemoryTypeOK'
    BY <1>1, <2>1, <2>2, OneWorks DEF MemoryTypeOK
  <2>4. Coming' \subseteq Claimed
    BY <1>1, <2>1, <2>2, StillClaimed
  <2> QED
    BY <2>2, <2>3, <2>4, NothingClaimed DEF Claimed, Files
<1> DEFINE n(p) == work[p].name
<1>4. ASSUME NEW p \in Process
      PROVE  n(p) \in FileName /\ (Writing(p) => n(p) \in Coming)
  BY <1>1 DEF MemoryTypeOK, Coming
<1>5. ASSUME NEW p \in Process, LookFor(p)
      PROVE  QuotaInv'
  <2> DEFINE pc == IF file[n(p)] = "absent" THEN "counting" ELSE "writing"
  <2>1. pc \in MemoryPC /\ file' = file /\ work' = [work EXCEPT ![p] = [pc |-> pc, name |-> n(p)]]
    BY <1>5 DEF LookFor, MemoryGoto, MemoryPC
  <2>2. pc \in {"writing", "filling"} => n(p) \in Claimed
    BY <1>4 DEF Claimed, Files
  <2> HIDE DEF pc
  <2>3. MemoryTypeOK'
    BY <1>1, <1>4, <2>1, OneWorks DEF MemoryTypeOK
  <2>4. Coming' \subseteq Claimed
    BY <1>1, <1>4, <2>1, <2>2, StillClaimed
  <2> QED
    BY <2>1, <2>3, <2>4, NothingClaimed DEF Claimed, Files
<1>6. ASSUME NEW p \in Process, CountFiles(p), Full
      PROVE  QuotaInv'
  <2>1. "idle" \in MemoryPC /\ file' = file /\ work' = [work EXCEPT ![p] = [pc |-> "idle", name |-> n(p)]]
    BY <1>6 DEF CountFiles, MemoryGoto, MemoryPC
  <2>2. MemoryTypeOK'
    BY <1>1, <1>4, <2>1, OneWorks DEF MemoryTypeOK
  <2>3. Coming' \subseteq Claimed
    BY <1>1, <1>4, <2>1, StillClaimed
  <2> QED
    BY <2>1, <2>2, <2>3, NothingClaimed DEF Claimed, Files
<1>7. ASSUME NEW p \in Process, CountFiles(p), ~Full
      PROVE  QuotaInv'
  <2>1. "writing" \in MemoryPC /\ file' = file
        /\ work' = [work EXCEPT ![p] = [pc |-> "writing", name |-> n(p)]]
    BY <1>7 DEF CountFiles, MemoryGoto, MemoryPC
  <2>2. MemoryTypeOK'
    BY <1>1, <1>4, <2>1, OneWorks DEF MemoryTypeOK
  <2>3. Files' = Files
    BY <2>1 DEF Files
  <2>4. IsFiniteSet(Files)
    BY FS_Subset DEF QuotaInv
  <2>5. Cardinality(Files) \in Nat /\ Cardinality(Files) <= MaxFiles - 1
    BY <1>7, <2>4, FS_CardinalityType, QuotaAssumption DEF Full
  <2>6. /\ IsFiniteSet(Coming)' /\ Cardinality(Coming)' \in Nat
        /\ Cardinality(Coming)' <= Cardinality(Process) /\ Cardinality(Process) \in Nat
    <3>1. Coming' = {work'[q].name : q \in {r \in Process : Writing(r)'}}
      BY DEF Coming
    <3> QED
      BY <3>1, ComingIsSmall
  <2>7. IsFiniteSet(Files \cup Coming')
        /\ Cardinality(Files \cup Coming') =
             Cardinality(Files) + Cardinality(Coming') - Cardinality(Files \cap Coming')
    BY <2>4, <2>6, FS_Union
  <2>8. Cardinality(Files \cap Coming') \in Nat
    BY <2>4, FS_Subset, FS_CardinalityType
  <2>9. Cardinality(Files \cup Coming') <= MaxFiles + Cardinality(Process) - 1
    BY <2>5, <2>6, <2>7, <2>8, QuotaAssumption
  <2> QED
    BY <2>2, <2>3, <2>7, <2>9 DEF QuotaInv
<1>8. ASSUME NEW p \in Process, Open(p)
      PROVE  QuotaInv'
  <2>1. /\ "filling" \in MemoryPC /\ file' = [file EXCEPT ![n(p)] = "empty"]
        /\ work' = [work EXCEPT ![p] = [pc |-> "filling", name |-> n(p)]] /\ Writing(p)
    BY <1>8 DEF Open, MemoryGoto, MemoryPC, Writing
  <2>2. MemoryTypeOK'
    BY <1>1, <1>4, <2>1, OneWorks DEF MemoryTypeOK
  <2>3. Coming' \subseteq Claimed
    BY <1>1, <1>4, <2>1, StillClaimed DEF Claimed
  <2>4. Files' \subseteq Files \cup {n(p)}
    BY <1>1, <2>1 DEF Files, MemoryTypeOK
  <2> QED
    BY <1>4, <2>1, <2>2, <2>3, <2>4, NothingClaimed DEF Claimed
<1>9. ASSUME NEW p \in Process, Fill(p)
      PROVE  QuotaInv'
  <2>1. /\ "idle" \in MemoryPC
        /\ file' = [file EXCEPT ![n(p)] = IF @ = "absent" THEN "absent" ELSE "whole"]
        /\ work' = [work EXCEPT ![p] = [pc |-> "idle", name |-> n(p)]]
    BY <1>9 DEF Fill, MemoryGoto, MemoryPC
  <2>2. MemoryTypeOK'
    BY <1>1, <1>4, <2>1, OneWorks DEF MemoryTypeOK
  <2>3. Coming' \subseteq Claimed
    BY <1>1, <1>4, <2>1, StillClaimed
  <2>4. Files' \subseteq Files
    BY <1>1, <2>1 DEF Files, MemoryTypeOK
  <2> QED
    BY <2>2, <2>3, <2>4, NothingClaimed DEF Claimed
<1>10. ASSUME NEW p \in Process, Unlink(p)
       PROVE  QuotaInv'
  <2>1. /\ "idle" \in MemoryPC /\ file' = [file EXCEPT ![n(p)] = "absent"]
        /\ work' = [work EXCEPT ![p] = [pc |-> "idle", name |-> n(p)]]
    BY <1>10 DEF Unlink, MemoryGoto, MemoryPC
  <2>2. MemoryTypeOK'
    BY <1>1, <1>4, <2>1, OneWorks DEF MemoryTypeOK
  <2>3. Coming' \subseteq Claimed
    BY <1>1, <1>4, <2>1, StillClaimed
  <2>4. Files' \subseteq Files
    BY <1>1, <2>1 DEF Files, MemoryTypeOK
  <2> QED
    BY <2>2, <2>3, <2>4, NothingClaimed DEF Claimed
<1>11. ASSUME NEW p \in Process, CutWork(p)
       PROVE  QuotaInv'
  <2>1. "idle" \in MemoryPC /\ file' = file /\ work' = [work EXCEPT ![p] = [pc |-> "idle", name |-> n(p)]]
    BY <1>11 DEF CutWork, MemoryPC
  <2>2. MemoryTypeOK'
    BY <1>1, <1>4, <2>1, OneWorks DEF MemoryTypeOK
  <2>3. Coming' \subseteq Claimed
    BY <1>1, <1>4, <2>1, StillClaimed
  <2> QED
    BY <2>1, <2>2, <2>3, NothingClaimed DEF Claimed, Files
<1> QED
  BY <1>2, <1>3, <1>5, <1>6, <1>7, <1>8, <1>9, <1>10, <1>11 DEF MemoryNext

\* Without files nor calls, nothing is claimed.
LEMMA QuotaStarts ==
  ASSUME MemoryInit
  PROVE  QuotaInv
<1>1. MemoryTypeOK
  BY DEF MemoryInit, MemoryTypeOK, MemoryPC
<1>2. Files \cup Coming = {}
  BY DEF MemoryInit, Files, Coming, Writing
<1>3. IsFiniteSet(Files \cup Coming) /\ Cardinality(Files \cup Coming) = 0
  BY <1>2, FS_EmptySet
<1>4. Cardinality(Process) \in Nat \ {0}
  BY ProcessAssumption, FS_EmptySet, FS_CardinalityType
<1> QED
  BY <1>1, <1>3, <1>4, QuotaAssumption DEF QuotaInv

\* The files of a memory exceed their quota by one for each process but one, at most,
\* whatever the processes do and whenever they die (write_file in memory/files.py).
THEOREM QuotaHolds == MemorySpec => []FilesWithinQuota
<1>1. QuotaInv => FilesWithinQuota
  <2> SUFFICES ASSUME QuotaInv
               PROVE  FilesWithinQuota
    OBVIOUS
  <2>1. IsFiniteSet(Files) /\ Cardinality(Files) <= Cardinality(Files \cup Coming)
    BY FS_Subset DEF QuotaInv
  <2>2. /\ Cardinality(Files) \in Nat /\ Cardinality(Files \cup Coming) \in Nat
        /\ Cardinality(Process) \in Nat
    BY <2>1, ProcessAssumption, FS_CardinalityType DEF QuotaInv
  <2> QED
    BY <2>1, <2>2, QuotaAssumption DEF QuotaInv, FilesWithinQuota
<1> QED
  BY <1>1, QuotaStarts, QuotaStep, PTL DEF MemorySpec

\* The files and the calls of the processes are what they should be.
THEOREM MemoryTyped == MemorySpec => []MemoryTypeOK
<1>1. QuotaInv => MemoryTypeOK
  BY DEF QuotaInv
<1> QED
  BY <1>1, QuotaStarts, QuotaStep, PTL DEF MemorySpec

-----------------------------------------------------------------------------

(***************************************************************************)
(* The vault never keeps a dead token that nobody replaces, for any number *)
(* of requests, logins and disconnections that cross, except one whose     *)
(* successor was lost with an answer or a process.                         *)
(*                                                                         *)
(* VaultIsAlive is not inductive: a commit could store a dead token.  The  *)
(* token of a request that stores it is alive, and nobody else knows it:   *)
(* a token gets known to others only through the vault.                    *)
(***************************************************************************)

Known == 1 .. issued \cup {NoToken}
Held(c) == access[c].pc \in {"storing", "committing"}

IssuedInv ==
  /\ vault \in Known /\ alive \subseteq 1 .. issued
  /\ \A c \in Access : access[c].refresh \in Known

\* The token of c is accepted, and is neither in the vault nor known to another request.
Alone(c) ==
  /\ access[c].refresh \in alive /\ access[c].refresh # vault
  /\ \A d \in Access \ {c} : access[d].refresh # access[c].refresh

KeepingInv == \A c \in Access : Held(c) => Alone(c)

VaultInv == SpotifyTypeOK /\ IssuedInv /\ KeepingInv /\ VaultIsAlive

-----------------------------------------------------------------------------

\* A step that moves one request leaves the others as they are.
LEMMA OneAccessMoves ==
  ASSUME NEW R, access \in [Access -> R], NEW c \in Access, NEW r \in R,
         access' = [access EXCEPT ![c] = r]
  PROVE  /\ access' \in [Access -> R]
         /\ access'[c] = r
         /\ \A d \in Access \ {c} : access'[d] = access[d]
OBVIOUS

\* Steps that leave the vault, its row and Spotify alone: the request that moves keeps its
\* token or drops it, and stays one that stores it, in the same row, if it was one.
LEMMA QuietStep ==
  ASSUME VaultInv, NEW c \in Access, access'[c].refresh \in {access[c].refresh, vault, NoToken},
         Held(c)' => Held(c) /\ access'[c].refresh = access[c].refresh,
         Storing(c) => Storing(c)',
         \A d \in Access \ {c} : access'[d] = access[d],
         UNCHANGED <<vault, row, alive, issued, lost>>
  PROVE  IssuedInv' /\ KeepingInv' /\ VaultIsAlive'
<1> USE DEF VaultInv
<1>1. IssuedInv'
  BY DEF IssuedInv, Known
<1>2. KeepingInv'
  <2> SUFFICES ASSUME NEW d \in Access, Held(d)'
               PROVE  Alone(d)'
    BY DEF KeepingInv
  <2>1. Held(d) /\ access'[d].refresh = access[d].refresh
    BY DEF Held
  <2>2. Alone(d)
    BY <2>1 DEF KeepingInv
  <2>3. access[d].refresh # NoToken
    <3>1. alive \subseteq Nat
      BY DEF SpotifyTypeOK, Token
    <3> QED
      BY <2>2, <3>1, TokenAssumption DEF Alone
  <2> QED
    BY <2>1, <2>2, <2>3 DEF Alone
<1>3. VaultIsAlive'
  <2> SUFFICES ASSUME vault # NoToken, vault \notin alive \cup lost
               PROVE  \E d \in Access : Storing(d)'
    BY DEF VaultIsAlive
  <2>1. PICK d \in Access : Storing(d)
    BY DEF VaultIsAlive
  <2> QED
    BY <2>1 DEF Storing
<1> QED
  BY <1>1, <1>2, <1>3

\* A request that goes on, or ends, is still a request.
LEMMA StateTyped ==
  ASSUME NEW r \in State, NEW pc \in PCs
  PROVE  /\ [r EXCEPT !.pc = pc] \in State /\ [r EXCEPT !.pc = pc].pc = pc
         /\ [r EXCEPT !.pc = pc].refresh = r.refresh /\ [r EXCEPT !.pc = pc].row = r.row
         /\ Done \in State /\ Done.refresh = NoToken /\ Done.pc = "free"
BY DEF State, PCs, Done

\* Goes and Ends, as steps of one request.
LEMMA GoesOn ==
  ASSUME SpotifyTypeOK, NEW c \in Access, NEW pc \in PCs, Goes(c, pc)
  PROVE  /\ access' \in [Access -> State]
         /\ access'[c].pc = pc /\ access'[c].refresh = access[c].refresh
         /\ access'[c].row = access[c].row
         /\ \A d \in Access \ {c} : access'[d] = access[d]
<1> DEFINE r == [access[c] EXCEPT !.pc = pc]
<1>1. access \in [Access -> State] /\ access[c] \in State
  BY DEF SpotifyTypeOK
<1>2. r \in State /\ r.pc = pc /\ r.refresh = access[c].refresh /\ r.row = access[c].row
  BY <1>1, StateTyped
<1>3. access' = [access EXCEPT ![c] = r]
  BY DEF Goes
<1> HIDE DEF r
<1> QED
  BY <1>1, <1>2, <1>3, OneAccessMoves

\* A request that is over has no token left in its hands.
LEMMA EndsNow ==
  ASSUME SpotifyTypeOK, NEW c \in Access, Ends(c)
  PROVE  /\ access' \in [Access -> State]
         /\ access'[c].pc = "free" /\ access'[c].refresh = NoToken
         /\ \A d \in Access \ {c} : access'[d] = access[d]
<1>1. access \in [Access -> State] /\ Done \in State /\ Done.pc = "free" /\ Done.refresh = NoToken
  BY DEF SpotifyTypeOK, State, PCs, Done
<1>2. access' = [access EXCEPT ![c] = Done]
  BY DEF Ends
<1> QED
  BY <1>1, <1>2, OneAccessMoves

\* Every action that neither issues, stores nor removes a token is such a step.
LEMMA QuietActions ==
  ASSUME VaultInv, NEW c \in Access,
         \/ BeginControl(c) \/ BeginLogin(c) \/ ReadCache(c) \/ ReadVault(c)
         \/ SelectSecret(c) \/ CacheAccess(c) \/ SendRequest(c) \/ ForgetAccess(c)
  PROVE  VaultInv'
<1>1. SpotifyTypeOK /\ access \in [Access -> State] /\ access[c] \in State
  BY DEF VaultInv, SpotifyTypeOK
<1> DEFINE Moved ==
      /\ access' \in [Access -> State]
      /\ access'[c].refresh \in {access[c].refresh, vault, NoToken}
      /\ Held(c)' => Held(c) /\ access'[c].refresh = access[c].refresh
      /\ Storing(c) => Storing(c)'
      /\ \A d \in Access \ {c} : access'[d] = access[d]
<1>2. SUFFICES ASSUME Moved, UNCHANGED <<vault, row, alive, issued, lost>>, cache' \in BOOLEAN
               PROVE  VaultInv'
  <2>1. CASE BeginControl(c)
    BY <1>1, <1>2, <2>1, GoesOn DEF BeginControl, PCs, SpotifyTypeOK, Held, Storing
  <2>2. CASE BeginLogin(c)
    <3> DEFINE r == [Done EXCEPT !.pc = "exchanging", !.login = TRUE]
    <3>1. r \in State /\ r.pc = "exchanging" /\ r.refresh = NoToken
      BY DEF State, PCs, Done
    <3>2. access[c].pc = "free" /\ access' = [access EXCEPT ![c] = r]
      BY <2>2 DEF BeginLogin
    <3> HIDE DEF r
    <3>3. Moved
      BY <1>1, <3>1, <3>2, OneAccessMoves DEF Held, Storing
    <3> QED
      BY <1>1, <1>2, <2>2, <3>3 DEF BeginLogin, SpotifyTypeOK
  <2>3. CASE ReadCache(c)
    <3>1. CASE cache
      BY <1>1, <1>2, <2>3, <3>1, GoesOn DEF ReadCache, PCs, SpotifyTypeOK, Held, Storing
    <3>2. CASE ~cache
      BY <1>1, <1>2, <2>3, <3>2, GoesOn DEF ReadCache, PCs, SpotifyTypeOK, Held, Storing
    <3> QED
      BY <3>1, <3>2
  <2>4. CASE ReadVault(c)
    <3>1. CASE vault # NoToken
      <4> DEFINE r == [access[c] EXCEPT !.pc = "refreshing", !.refresh = vault]
      <4>1. r \in State /\ r.pc = "refreshing" /\ r.refresh = vault
        BY <1>1 DEF State, PCs, SpotifyTypeOK
      <4>2. access[c].pc = "vault" /\ access' = [access EXCEPT ![c] = r]
        BY <2>4, <3>1 DEF ReadVault
      <4> HIDE DEF r
      <4>3. Moved
        BY <1>1, <4>1, <4>2, OneAccessMoves DEF Held, Storing
      <4> QED
        BY <1>1, <1>2, <2>4, <4>3 DEF ReadVault, SpotifyTypeOK
    <3>2. CASE vault = NoToken
      BY <1>1, <1>2, <2>4, <3>2, EndsNow DEF ReadVault, SpotifyTypeOK, Held, Storing
    <3> QED
      BY <3>1, <3>2
  <2>5. CASE SelectSecret(c)
    <3> DEFINE r == [access[c] EXCEPT !.pc = "committing", !.row = row]
    <3>1. r \in State /\ r.pc = "committing" /\ r.refresh = access[c].refresh /\ r.row = row
      BY <1>1 DEF State, PCs, SpotifyTypeOK
    <3>2. access[c].pc = "storing" /\ access' = [access EXCEPT ![c] = r] /\ row' = row
      BY <2>5 DEF SelectSecret
    <3> HIDE DEF r
    <3>3. Moved
      BY <1>1, <3>1, <3>2, OneAccessMoves DEF Held, Storing
    <3> QED
      BY <1>1, <1>2, <2>5, <3>3 DEF SelectSecret, SpotifyTypeOK
  <2>6. CASE CacheAccess(c)
    <3>1. CASE access[c].login
      BY <1>1, <1>2, <2>6, <3>1, EndsNow DEF CacheAccess, Held, Storing
    <3>2. CASE ~access[c].login
      BY <1>1, <1>2, <2>6, <3>2, GoesOn DEF CacheAccess, PCs, Held, Storing
    <3> QED
      BY <3>1, <3>2
  <2>7. CASE SendRequest(c)
    <3>1. CASE Ends(c) /\ UNCHANGED cache
      BY <1>1, <1>2, <2>7, <3>1, EndsNow DEF SendRequest, SpotifyTypeOK, Held, Storing
    <3>2. CASE cache' = FALSE /\ access' = [access EXCEPT ![c] = [Done EXCEPT !.pc = "cache", !.retried = TRUE]]
      <4> DEFINE r == [Done EXCEPT !.pc = "cache", !.retried = TRUE]
      <4>1. r \in State /\ r.pc = "cache" /\ r.refresh = NoToken
        BY DEF State, PCs, Done
      <4>2. access[c].pc = "sending" /\ access' = [access EXCEPT ![c] = r]
        BY <2>7, <3>2 DEF SendRequest
      <4> HIDE DEF r
      <4>3. Moved
        BY <1>1, <4>1, <4>2, OneAccessMoves DEF Held, Storing
      <4> QED
        BY <1>1, <1>2, <2>7, <3>2, <4>3 DEF SendRequest
    <3> QED
      BY <2>7, <3>1, <3>2 DEF SendRequest
  <2>8. CASE ForgetAccess(c)
    BY <1>1, <1>2, <2>8, EndsNow DEF ForgetAccess, Held, Storing
  <2> QED
    BY <2>1, <2>2, <2>3, <2>4, <2>5, <2>6, <2>7, <2>8
<1>3. IssuedInv' /\ KeepingInv' /\ VaultIsAlive'
  BY <1>2, QuietStep
<1>4. SpotifyTypeOK'
  BY <1>1, <1>2 DEF SpotifyTypeOK
<1> QED
  BY <1>3, <1>4 DEF VaultInv

\* A token that Spotify gives in exchange for another, or for a code: it is new, so that
\* only its request knows it, and the one it replaces has a request that replaces it.
LEMMA RotatingStep ==
  ASSUME VaultInv, NEW c \in Access, ~Held(c), Issue(c, TRUE), UNCHANGED <<vault, row, cache, lost>>
  PROVE  VaultInv'
<1> DEFINE n == issued + 1
           r == [access[c] EXCEPT !.pc = "storing", !.refresh = n]
<1>1. SpotifyTypeOK /\ access \in [Access -> State] /\ access[c] \in State
      /\ issued \in Nat /\ n \in Token
  BY TokenAssumption DEF VaultInv, SpotifyTypeOK, Issue, Token
<1>2. r \in State /\ r.pc = "storing" /\ r.refresh = n
  BY <1>1 DEF State, PCs
<1>3. /\ access' = [access EXCEPT ![c] = r]
      /\ issued' = n /\ alive' = (alive \ {access[c].refresh}) \cup {n}
  BY DEF Issue
<1> HIDE DEF r
<1>4. /\ access' \in [Access -> State]
      /\ access'[c] = r
      /\ \A d \in Access \ {c} : access'[d] = access[d]
  BY <1>1, <1>2, <1>3, OneAccessMoves
<1>5. SpotifyTypeOK'
  BY <1>1, <1>3, <1>4, TokenAssumption DEF SpotifyTypeOK, Token, Issue
<1>6. Known \subseteq Known' /\ n \in Known' /\ n \notin Known
  BY <1>1, <1>3, TokenAssumption DEF Known
<1>7. IssuedInv'
  <2>1. alive' \subseteq (1 .. issued)'
    <3>1. alive \subseteq 1 .. issued
      BY DEF VaultInv, IssuedInv
    <3>2. 1 .. issued \subseteq 1 .. n /\ n \in 1 .. n
      BY <1>1
    <3> QED
      BY <1>3, <3>1, <3>2
  <2> QED
    BY <2>1, <1>2, <1>4, <1>6 DEF VaultInv, IssuedInv
<1>8. KeepingInv'
  <2> SUFFICES ASSUME NEW d \in Access, Held(d)'
               PROVE  Alone(d)'
    BY DEF KeepingInv
  <2>1. CASE d = c
    <3>1. vault # n /\ \A e \in Access : access[e].refresh # n
      BY <1>6 DEF VaultInv, IssuedInv
    <3> QED
      BY <2>1, <3>1, <1>2, <1>3, <1>4 DEF Alone
  <2>2. CASE d # c
    <3>1. Alone(d) /\ access'[d] = access[d]
      BY <2>2, <1>4 DEF VaultInv, KeepingInv, Held
    <3>2. access[d].refresh # n
      BY <1>6 DEF VaultInv, IssuedInv
    <3> QED
      BY <2>2, <3>1, <3>2, <1>2, <1>3, <1>4 DEF Alone
  <2> QED
    BY <2>1, <2>2
<1>9. VaultIsAlive'
  BY <1>2, <1>4 DEF VaultIsAlive, Storing
<1> QED
  BY <1>5, <1>7, <1>8, <1>9 DEF VaultInv

\* A refresh whose token Spotify keeps ends with nothing to store.
LEMMA KeptStep ==
  ASSUME VaultInv, NEW c \in Access, access[c].pc = "refreshing", Issue(c, FALSE),
         UNCHANGED <<vault, row, cache, lost>>
  PROVE  VaultInv'
<1> DEFINE r == [access[c] EXCEPT !.pc = "caching", !.refresh = NoToken]
<1>1. SpotifyTypeOK /\ access \in [Access -> State] /\ access[c] \in State
  BY DEF VaultInv, SpotifyTypeOK
<1>2. r \in State /\ r.pc = "caching" /\ r.refresh = NoToken
  BY <1>1 DEF State, PCs
<1>3. access' = [access EXCEPT ![c] = r] /\ UNCHANGED <<issued, alive>>
  BY DEF Issue
<1> HIDE DEF r
<1>4. /\ access' \in [Access -> State]
      /\ access'[c] = r
      /\ \A d \in Access \ {c} : access'[d] = access[d]
  BY <1>1, <1>2, <1>3, OneAccessMoves
<1>5. SpotifyTypeOK'
  BY <1>1, <1>3, <1>4 DEF SpotifyTypeOK
<1>6. IssuedInv' /\ KeepingInv' /\ VaultIsAlive'
  BY <1>2, <1>3, <1>4, QuietStep DEF Held, Storing
<1> QED
  BY <1>5, <1>6 DEF VaultInv

\* What is stored is the token of the request, which nobody else knows: it is alive.
LEMMA CommitStep ==
  ASSUME VaultInv, NEW c \in Access, CommitSecret(c)
  PROVE  VaultInv'
<1>1. SpotifyTypeOK /\ access \in [Access -> State] /\ access[c] \in State
  BY DEF VaultInv, SpotifyTypeOK
<1>2. Alone(c)
  BY DEF VaultInv, KeepingInv, Held, CommitSecret
<1>3. CASE access[c].row = row
  <2>1. /\ vault' = access[c].refresh /\ row' \in {row, access[c].refresh}
        /\ Goes(c, "caching") /\ UNCHANGED <<cache, alive, issued, lost>>
    BY <1>3 DEF CommitSecret
  <2>2. /\ access' \in [Access -> State]
        /\ access'[c].pc = "caching" /\ access'[c].refresh = access[c].refresh
        /\ \A d \in Access \ {c} : access'[d] = access[d]
    BY <1>1, <2>1, GoesOn DEF PCs
  <2>3. SpotifyTypeOK'
    BY <1>1, <2>1, <2>2 DEF SpotifyTypeOK, State
  <2>4. IssuedInv'
    BY <2>1, <2>2 DEF VaultInv, IssuedInv, Known
  <2>5. KeepingInv'
    <3> SUFFICES ASSUME NEW d \in Access, Held(d)'
                 PROVE  Alone(d)'
      BY DEF KeepingInv
    <3>1. d # c /\ access'[d] = access[d]
      BY <2>2 DEF Held
    <3>2. Alone(d)
      BY <3>1 DEF VaultInv, KeepingInv, Held
    <3> QED
      BY <3>1, <3>2, <2>1, <2>2 DEF Alone
  <2>6. VaultIsAlive'
    BY <1>2, <2>1 DEF VaultIsAlive, Alone
  <2> QED
    BY <2>3, <2>4, <2>5, <2>6 DEF VaultInv
<1>4. CASE access[c].row # row
  <2>1. Ends(c) /\ UNCHANGED <<vault, row, cache, alive, issued, lost>> /\ access[c].pc = "committing"
    BY <1>4 DEF CommitSecret
  <2>2. /\ access' \in [Access -> State]
        /\ access'[c].pc = "free" /\ access'[c].refresh = NoToken
        /\ \A d \in Access \ {c} : access'[d] = access[d]
    BY <1>1, <2>1, EndsNow
  <2>3. SpotifyTypeOK'
    BY <1>1, <2>1, <2>2 DEF SpotifyTypeOK
  <2>4. IssuedInv' /\ KeepingInv' /\ VaultIsAlive'
    BY <1>4, <2>1, <2>2, QuietStep DEF Held, Storing
  <2> QED
    BY <2>3, <2>4 DEF VaultInv
<1> QED
  BY <1>3, <1>4

\* A disconnection empties the vault; what is on its way stays alive.
LEMMA DisconnectStep ==
  ASSUME VaultInv, NEW c \in Access, Disconnect(c)
  PROVE  VaultInv'
<1>1. SpotifyTypeOK /\ access \in [Access -> State]
  BY DEF VaultInv, SpotifyTypeOK
<1>2. /\ vault' = NoToken /\ row' = NoToken /\ Goes(c, "forgetting")
      /\ UNCHANGED <<cache, alive, issued, lost>>
  BY DEF Disconnect
<1>3. /\ access' \in [Access -> State]
      /\ access'[c].pc = "forgetting" /\ access'[c].refresh = access[c].refresh
      /\ \A d \in Access \ {c} : access'[d] = access[d]
  BY <1>1, <1>2, GoesOn DEF PCs
<1>4. SpotifyTypeOK'
  BY <1>1, <1>2, <1>3 DEF SpotifyTypeOK
<1>5. IssuedInv'
  BY <1>2, <1>3 DEF VaultInv, IssuedInv, Known
<1>6. KeepingInv'
  <2> SUFFICES ASSUME NEW d \in Access, Held(d)'
               PROVE  Alone(d)'
    BY DEF KeepingInv
  <2>1. d # c /\ access'[d] = access[d]
    BY <1>3 DEF Held
  <2>2. Alone(d)
    BY <2>1 DEF VaultInv, KeepingInv, Held
  <2>3. access[d].refresh # NoToken
    <3>1. alive \subseteq Nat
      BY DEF VaultInv, SpotifyTypeOK, Token
    <3> QED
      BY <2>2, <3>1, TokenAssumption DEF Alone
  <2> QED
    BY <2>1, <2>2, <2>3, <1>2, <1>3 DEF Alone
<1>7. VaultIsAlive'
  BY <1>2 DEF VaultIsAlive
<1> QED
  BY <1>4, <1>5, <1>6, <1>7 DEF VaultInv

\* A token whose successor is lost on its way from Spotify: who still has it is refused.
LEMMA LosingStep ==
  ASSUME VaultInv, NEW c \in Access, LoseAnswer(c)
  PROVE  VaultInv'
<1> DEFINE n == issued + 1
           t == access[c].refresh
<1>1. SpotifyTypeOK /\ issued \in Nat /\ n \in Token /\ access[c].pc = "refreshing"
  BY TokenAssumption DEF VaultInv, SpotifyTypeOK, LoseAnswer, Token
<1>2. /\ issued' = n /\ alive' = (alive \ {t}) \cup {n} /\ lost' = lost \cup {t} /\ t \in alive
      /\ Ends(c) /\ UNCHANGED <<vault, row, cache>>
  BY DEF LoseAnswer
<1>3. /\ access' \in [Access -> State]
      /\ access'[c].pc = "free" /\ access'[c].refresh = NoToken
      /\ \A d \in Access \ {c} : access'[d] = access[d]
  BY <1>1, <1>2, EndsNow
<1>4. SpotifyTypeOK'
  <2>1. issued' \in 0 .. MaxTokens
    BY <1>1, <1>2, TokenAssumption DEF Token
  <2>2. alive' \subseteq Token /\ lost' \subseteq Token
    BY <1>1, <1>2 DEF SpotifyTypeOK
  <2> QED
    BY <2>1, <2>2, <1>1, <1>2, <1>3 DEF SpotifyTypeOK
<1>5. Known \subseteq Known' /\ n \notin Known
  BY <1>1, <1>2, TokenAssumption DEF Known
<1>6. IssuedInv'
  <2>1. alive' \subseteq (1 .. issued)'
    <3>1. alive \subseteq 1 .. issued
      BY DEF VaultInv, IssuedInv
    <3>2. 1 .. issued \subseteq 1 .. n /\ n \in 1 .. n
      BY <1>1
    <3> QED
      BY <1>2, <3>1, <3>2
  <2>2. NoToken \in Known'
    BY DEF Known
  <2>3. ASSUME NEW d \in Access
        PROVE  access'[d].refresh \in Known'
    BY <1>3, <1>5, <2>2 DEF VaultInv, IssuedInv
  <2> QED
    BY <2>1, <2>3, <1>2, <1>5 DEF VaultInv, IssuedInv
<1>7. KeepingInv'
  <2> SUFFICES ASSUME NEW d \in Access, Held(d)'
               PROVE  Alone(d)'
    BY DEF KeepingInv
  <2>1. d # c /\ access'[d] = access[d]
    BY <1>3 DEF Held
  <2>2. Alone(d)
    BY <2>1 DEF VaultInv, KeepingInv, Held
  <2>3. access[d].refresh # t /\ access[d].refresh # NoToken
    <3>1. alive \subseteq Nat
      BY DEF VaultInv, SpotifyTypeOK, Token
    <3> QED
      BY <2>1, <2>2, <3>1, TokenAssumption DEF Alone
  <2> QED
    BY <2>1, <2>2, <2>3, <1>2, <1>3 DEF Alone
<1>8. VaultIsAlive'
  <2> SUFFICES ASSUME vault # NoToken, vault \notin alive' \cup lost'
               PROVE  \E d \in Access : Storing(d)'
    BY <1>2 DEF VaultIsAlive
  <2>1. vault \notin alive \cup lost
    BY <1>2
  <2>2. PICK d \in Access : Storing(d)
    BY <2>1 DEF VaultInv, VaultIsAlive
  <2>3. d # c
    BY <1>1, <2>2 DEF Storing
  <2> QED
    BY <2>2, <2>3, <1>2, <1>3 DEF Storing
<1> QED
  BY <1>4, <1>6, <1>7, <1>8 DEF VaultInv

\* A token that is lost before it is stored: a dead token in the vault counts as given up.
LEMMA CutStep ==
  ASSUME VaultInv, NEW c \in Access, CutStore(c)
  PROVE  VaultInv'
<1>1. SpotifyTypeOK
  BY DEF VaultInv
<1>2. /\ lost' = lost \cup ({vault} \ (alive \cup {NoToken}))
      /\ Ends(c) /\ UNCHANGED <<vault, row, cache, alive, issued>>
  BY DEF CutStore
<1>3. /\ access' \in [Access -> State]
      /\ access'[c].pc = "free" /\ access'[c].refresh = NoToken
      /\ \A d \in Access \ {c} : access'[d] = access[d]
  BY <1>1, <1>2, EndsNow
<1>4. SpotifyTypeOK'
  <2>1. lost' \subseteq Token
    BY <1>1, <1>2 DEF SpotifyTypeOK
  <2> QED
    BY <2>1, <1>1, <1>2, <1>3 DEF SpotifyTypeOK
<1>5. IssuedInv'
  BY <1>2, <1>3 DEF VaultInv, IssuedInv, Known
<1>6. KeepingInv'
  <2> SUFFICES ASSUME NEW d \in Access, Held(d)'
               PROVE  Alone(d)'
    BY DEF KeepingInv
  <2>1. d # c /\ access'[d] = access[d]
    BY <1>3 DEF Held
  <2>2. Alone(d)
    BY <2>1 DEF VaultInv, KeepingInv, Held
  <2>3. access[d].refresh # NoToken
    <3>1. alive \subseteq Nat
      BY DEF VaultInv, SpotifyTypeOK, Token
    <3> QED
      BY <2>2, <3>1, TokenAssumption DEF Alone
  <2> QED
    BY <2>1, <2>2, <2>3, <1>2, <1>3 DEF Alone
<1>7. VaultIsAlive'
  BY <1>2 DEF VaultIsAlive
<1> QED
  BY <1>4, <1>5, <1>6, <1>7 DEF VaultInv

\* Every step of the specification keeps the invariant.
LEMMA VaultStep ==
  ASSUME VaultInv, [SpotifyNext]_spotifyVars
  PROVE  VaultInv'
<1>1. CASE UNCHANGED spotifyVars
  BY <1>1 DEF VaultInv, SpotifyTypeOK, IssuedInv, Known, KeepingInv, Held, Alone, VaultIsAlive,
              Storing, spotifyVars
<1>2. CASE CacheExpires
  BY <1>2 DEF CacheExpires, VaultInv, SpotifyTypeOK, IssuedInv, Known, KeepingInv, Held, Alone,
              VaultIsAlive, Storing
<1>3. ASSUME NEW c \in Access, ~Held(c), Ends(c), UNCHANGED <<vault, row, cache, alive, issued, lost>>
      PROVE  VaultInv'
  <2>1. /\ SpotifyTypeOK /\ access' \in [Access -> State]
        /\ access'[c].pc = "free" /\ access'[c].refresh = NoToken
        /\ \A d \in Access \ {c} : access'[d] = access[d]
    BY <1>3, EndsNow DEF VaultInv
  <2>2. SpotifyTypeOK'
    BY <1>3, <2>1 DEF SpotifyTypeOK
  <2>3. IssuedInv' /\ KeepingInv' /\ VaultIsAlive'
    BY <1>3, <2>1, QuietStep DEF Held, Storing
  <2> QED
    BY <2>2, <2>3 DEF VaultInv
<1>4. ASSUME NEW c \in Access, Exchange(c)
      PROVE  VaultInv'
  BY <1>3, <1>4, RotatingStep DEF Exchange, Held
<1>5. ASSUME NEW c \in Access, Refresh(c)
      PROVE  VaultInv'
  <2>1. CASE Issue(c, TRUE)
    BY <1>5, <2>1, RotatingStep DEF Refresh, Held
  <2>2. CASE Issue(c, FALSE)
    BY <1>5, <2>2, KeptStep DEF Refresh
  <2>3. CASE Ends(c) /\ UNCHANGED <<alive, issued>>
    BY <1>3, <1>5, <2>3 DEF Refresh, Held
  <2> QED
    BY <1>5, <2>1, <2>2, <2>3 DEF Refresh
<1> QED
  BY <1>1, <1>2, <1>4, <1>5, QuietActions, LosingStep, CutStep, CommitStep,
     DisconnectStep DEF SpotifyNext

\* Before the first login there is no token, and no request.
LEMMA VaultStarts ==
  ASSUME SpotifyInit
  PROVE  VaultInv
<1>1. Done \in State
  BY DEF Done, State, PCs
<1>2. access \in [Access -> State] /\ \A c \in Access : access[c] = Done
  BY <1>1 DEF SpotifyInit
<1>3. SpotifyTypeOK
  <2>1. {vault, row} \subseteq Token \cup {NoToken} /\ cache \in BOOLEAN
        /\ alive \subseteq Token /\ lost \subseteq Token
    BY DEF SpotifyInit
  <2>2. issued \in 0 .. MaxTokens
    BY TokenAssumption DEF SpotifyInit
  <2> QED
    BY <1>2, <2>1, <2>2 DEF SpotifyTypeOK
<1>4. IssuedInv
  BY <1>2 DEF SpotifyInit, IssuedInv, Known, Done
<1>5. KeepingInv /\ VaultIsAlive
  BY <1>2 DEF SpotifyInit, KeepingInv, Held, VaultIsAlive, Done
<1> QED
  BY <1>3, <1>4, <1>5 DEF VaultInv

\* Whatever requests, logins and disconnections cross, and whatever tokens Spotify turns: a
\* token in the vault is accepted, or one that replaces it is about to be stored, or was lost
\* with the answer of Spotify or with the process that had it.
THEOREM VaultAlive == SpotifySpec => []VaultIsAlive
<1>1. SpotifyInit => VaultInv
  BY VaultStarts
<1>2. VaultInv /\ [SpotifyNext]_spotifyVars => VaultInv'
  BY VaultStep
<1>3. VaultInv => VaultIsAlive
  BY DEF VaultInv
<1> QED
  BY <1>1, <1>2, <1>3, PTL DEF SpotifySpec

\* The tokens, the requests and their fields are what they should be.
THEOREM SpotifyTyped == SpotifySpec => []SpotifyTypeOK
<1>1. SpotifyInit => VaultInv
  BY VaultStarts
<1>2. VaultInv /\ [SpotifyNext]_spotifyVars => VaultInv'
  BY VaultStep
<1>3. VaultInv => SpotifyTypeOK
  BY DEF VaultInv
<1> QED
  BY <1>1, <1>2, <1>3, PTL DEF SpotifySpec

-----------------------------------------------------------------------------

(***************************************************************************)
(* KeysAreBounded for any number of requests and rows.  A key gets a       *)
(* second row only from a request that saw none: the rows of a key and the *)
(* requests about to insert one are never more than the requests.          *)
(***************************************************************************)

Inserting(k) ==
  {u \in Upsert : upsert[u].does = "write" /\ upsert[u].key = k /\ upsert[u].seen = Unread}

RowsTypeOK ==
  /\ inserted \in Nat
  /\ memories \in SUBSET [id : 1..inserted, key : MemoryKey] /\ IsFiniteSet(memories)
  /\ upsert \in [Upsert -> [does : {"nothing", "write", "delete"},
                            key : MemoryKey \cup {Unread}, seen : Nat]]
  /\ \A u \in Upsert : upsert[u].does = "write" => upsert[u].key \in MemoryKey

WritersAreFew ==
  \A k \in MemoryKey : Cardinality(WithKey(k)) + Cardinality(Inserting(k)) <= Cardinality(Upsert)

RowsInv == RowsTypeOK /\ WritersAreFew

\* Only rows that are there are among those of a key.
LEMMA RowsAreFinite ==
  ASSUME RowsTypeOK, NEW k \in MemoryKey
  PROVE  /\ IsFiniteSet(WithKey(k)) /\ IsFiniteSet(Inserting(k))
         /\ Cardinality(WithKey(k)) \in Nat /\ Cardinality(Inserting(k)) \in Nat
         /\ Cardinality(Inserting(k)) <= Cardinality(Upsert) /\ Cardinality(Upsert) \in Nat
<1>1. IsFiniteSet(memories) /\ IsFiniteSet(Upsert)
  BY MemoriesAssumption DEF RowsTypeOK
<1>2. WithKey(k) \in SUBSET memories /\ Inserting(k) \in SUBSET Upsert
  BY DEF WithKey, Inserting
<1> QED
  BY <1>1, <1>2, FS_Subset, FS_CardinalityType

\* Fewer rows, and no new request about to insert one.
LEMMA FewerRows ==
  ASSUME RowsInv, RowsTypeOK', memories' \subseteq memories,
         \A k \in MemoryKey : Inserting(k)' \subseteq Inserting(k)
  PROVE  WritersAreFew'
<1> SUFFICES ASSUME NEW k \in MemoryKey
             PROVE  Cardinality(WithKey(k)') + Cardinality(Inserting(k)') <= Cardinality(Upsert)
  BY DEF WritersAreFew
<1>1. WithKey(k)' \in SUBSET WithKey(k) /\ Inserting(k)' \in SUBSET Inserting(k)
  BY DEF WithKey
<1>2. /\ Cardinality(WithKey(k)') <= Cardinality(WithKey(k))
      /\ Cardinality(Inserting(k)') <= Cardinality(Inserting(k))
      /\ Cardinality(WithKey(k)') \in Nat /\ Cardinality(Inserting(k)') \in Nat
      /\ Cardinality(WithKey(k)) \in Nat /\ Cardinality(Inserting(k)) \in Nat
  BY <1>1, RowsAreFinite, FS_Subset, FS_CardinalityType DEF RowsInv
<1>3. Cardinality(WithKey(k)) + Cardinality(Inserting(k)) <= Cardinality(Upsert)
  BY DEF RowsInv, WritersAreFew
<1> QED
  BY <1>2, <1>3, RowsAreFinite DEF RowsInv

\* A request that sees no row of its key: then there is none.
LEMMA ReadsKeep ==
  ASSUME RowsInv, NEW u \in Upsert, UpsertReads(u)
  PROVE  RowsInv'
<1>1. PICK k \in MemoryKey : \E id \in Found(k) :
        upsert' = [upsert EXCEPT ![u] = [does |-> "write", key |-> k, seen |-> id]]
  BY DEF UpsertReads
<1>0. PICK id \in Found(k) :
        upsert' = [upsert EXCEPT ![u] = [does |-> "write", key |-> k, seen |-> id]]
  BY <1>1
<1>2. memories' = memories /\ inserted' = inserted /\ upsert[u].does = "nothing"
  BY DEF UpsertReads
<1>3. id \in Nat /\ (id = Unread => WithKey(k) = {})
  BY DEF RowsInv, RowsTypeOK, Found, WithKey, Unread
<1>4. RowsTypeOK'
  BY <1>0, <1>2, <1>3 DEF RowsInv, RowsTypeOK
<1>5. CASE id = Unread
  <2> SUFFICES ASSUME NEW j \in MemoryKey
               PROVE  Cardinality(WithKey(j)') + Cardinality(Inserting(j)') <= Cardinality(Upsert)
    BY <1>4 DEF RowsInv, WritersAreFew
  <2>1. WithKey(j)' = WithKey(j)
    BY <1>2 DEF WithKey
  <2>2. CASE j = k
    <3>1. WithKey(j)' = {} /\ Cardinality(WithKey(j)') = 0
      BY <1>3, <1>5, <2>1, <2>2, FS_EmptySet
    <3>2. Inserting(j)' \in SUBSET Upsert
      BY DEF Inserting
    <3>3. /\ Cardinality(Inserting(j)') <= Cardinality(Upsert)
          /\ Cardinality(Inserting(j)') \in Nat /\ Cardinality(Upsert) \in Nat
      BY <3>2, MemoriesAssumption, FS_Subset, FS_CardinalityType
    <3> QED
      BY <3>1, <3>3
  <2>3. CASE j # k
    <3>1. Inserting(j)' = Inserting(j)
      BY <1>0, <1>2, <2>3 DEF Inserting, RowsInv, RowsTypeOK
    <3> QED
      BY <2>1, <3>1 DEF RowsInv, WritersAreFew
  <2> QED
    BY <2>2, <2>3
<1>6. CASE id # Unread
  <2>1. \A j \in MemoryKey : Inserting(j)' \subseteq Inserting(j)
    BY <1>0, <1>6 DEF Inserting, RowsInv, RowsTypeOK
  <2> QED
    BY <1>2, <1>4, <2>1, FewerRows DEF RowsInv
<1> QED
  BY <1>5, <1>6

\* The request that inserts a row is no longer about to.
LEMMA CommitsKeep ==
  ASSUME RowsInv, NEW u \in Upsert, UpsertCommits(u)
  PROVE  RowsInv'
<1>1. upsert' = [upsert EXCEPT ![u] = NoUpsert] /\ upsert[u].does = "write"
  BY DEF UpsertCommits
<1>2. \A j \in MemoryKey : Inserting(j)' = Inserting(j) \ {u}
  BY <1>1 DEF Inserting, NoUpsert, RowsInv, RowsTypeOK
<1>3. CASE upsert[u].seen # Unread
  <2>1. memories' = memories /\ inserted' = inserted
    BY <1>3 DEF UpsertCommits
  <2>2. RowsTypeOK'
    BY <1>1, <2>1 DEF RowsInv, RowsTypeOK, NoUpsert, Unread
  <2> QED
    BY <1>2, <2>1, <2>2, FewerRows DEF RowsInv
<1>4. upsert[u].key \in MemoryKey
  BY <1>1 DEF RowsInv, RowsTypeOK
<1>5. CASE upsert[u].seen = Unread
  <2> DEFINE k == upsert[u].key
             m == [id |-> inserted + 1, key |-> k]
  <2>1. memories' = memories \cup {m} /\ inserted' = inserted + 1
    BY <1>5 DEF UpsertCommits
  <2>2. RowsTypeOK'
    <3>1. m \in [id : 1..(inserted + 1), key : MemoryKey] /\ inserted + 1 \in Nat
      BY <1>4 DEF RowsInv, RowsTypeOK
    <3>2. memories \in SUBSET [id : 1..(inserted + 1), key : MemoryKey]
      BY DEF RowsInv, RowsTypeOK
    <3>3. IsFiniteSet(memories')
      <4> HIDE DEF m
      <4> QED
        BY <2>1, FS_AddElement DEF RowsInv, RowsTypeOK
    <3>4. /\ upsert' \in [Upsert -> [does : {"nothing", "write", "delete"},
                                     key : MemoryKey \cup {Unread}, seen : Nat]]
          /\ \A v \in Upsert : upsert'[v].does = "write" => upsert'[v].key \in MemoryKey
      BY <1>1 DEF RowsInv, RowsTypeOK, NoUpsert, Unread
    <3> QED
      BY <2>1, <3>1, <3>2, <3>3, <3>4 DEF RowsTypeOK
  <2> SUFFICES ASSUME NEW j \in MemoryKey
               PROVE  Cardinality(WithKey(j)') + Cardinality(Inserting(j)') <= Cardinality(Upsert)
    BY <2>2 DEF RowsInv, WritersAreFew
  <2>3. /\ IsFiniteSet(WithKey(j)) /\ IsFiniteSet(Inserting(j))
        /\ Cardinality(WithKey(j)) \in Nat /\ Cardinality(Inserting(j)) \in Nat
        /\ Cardinality(WithKey(j)) + Cardinality(Inserting(j)) <= Cardinality(Upsert)
        /\ Cardinality(Upsert) \in Nat
    BY RowsAreFinite DEF RowsInv, WritersAreFew
  <2>4. CASE j = k
    <3>1. u \in Inserting(j)
      BY <1>1, <1>5, <2>4 DEF Inserting
    <3>2. Cardinality(Inserting(j)') = Cardinality(Inserting(j)) - 1
      BY <1>2, <2>3, <3>1, FS_RemoveElement
    <3>3. WithKey(j)' = WithKey(j) \cup {m}
      BY <2>1, <2>4 DEF WithKey
    <3>4. Cardinality(WithKey(j)') <= Cardinality(WithKey(j)) + 1 /\ Cardinality(WithKey(j)') \in Nat
      <4> HIDE DEF m
      <4>1. Cardinality(WithKey(j) \cup {m}) \in
              {Cardinality(WithKey(j)), Cardinality(WithKey(j)) + 1}
        BY <2>3, FS_AddElement
      <4> QED
        BY <2>3, <3>3, <4>1
    <3> QED
      BY <2>3, <3>2, <3>4
  <2>5. CASE j # k
    <3>1. WithKey(j)' = WithKey(j)
      BY <2>1, <2>5 DEF WithKey
    <3>2. Inserting(j)' = Inserting(j)
      BY <1>2, <1>5, <2>5 DEF Inserting
    <3> QED
      BY <2>3, <3>1, <3>2
  <2> QED
    BY <2>4, <2>5
<1> QED
  BY <1>3, <1>4, <1>5

\* The requests that delete a row insert none.
LEMMA DeletesKeep ==
  ASSUME RowsInv, NEW u \in Upsert, DeleteMemoryReads(u) \/ DeleteMemoryCommits(u)
  PROVE  RowsInv'
<1>1. CASE DeleteMemoryReads(u)
  <2>1. PICK m \in memories :
          upsert' = [upsert EXCEPT ![u] = [does |-> "delete", key |-> m.key, seen |-> m.id]]
    BY <1>1 DEF DeleteMemoryReads
  <2>2. memories' = memories /\ inserted' = inserted
    BY <1>1 DEF DeleteMemoryReads
  <2>3. m.key \in MemoryKey /\ m.id \in Nat
    BY <2>1 DEF RowsInv, RowsTypeOK
  <2>4. RowsTypeOK'
    BY <2>1, <2>2, <2>3 DEF RowsInv, RowsTypeOK
  <2>5. \A j \in MemoryKey : Inserting(j)' \subseteq Inserting(j)
    BY <2>1, <2>2 DEF Inserting, RowsInv, RowsTypeOK
  <2> QED
    BY <2>2, <2>4, <2>5, FewerRows DEF RowsInv
<1>2. CASE DeleteMemoryCommits(u)
  <2>1. /\ upsert' = [upsert EXCEPT ![u] = NoUpsert] /\ inserted' = inserted
        /\ memories' \subseteq memories
    BY <1>2 DEF DeleteMemoryCommits
  <2>2. RowsTypeOK'
    <3>1. IsFiniteSet(memories')
      BY <2>1, FS_Subset DEF RowsInv, RowsTypeOK
    <3> QED
      BY <2>1, <3>1 DEF RowsInv, RowsTypeOK, NoUpsert, Unread
  <2>3. \A j \in MemoryKey : Inserting(j)' \subseteq Inserting(j)
    BY <2>1 DEF Inserting, NoUpsert, RowsInv, RowsTypeOK
  <2> QED
    BY <2>1, <2>2, <2>3, FewerRows DEF RowsInv
<1> QED
  BY <1>1, <1>2

\* A memory's key has at most one row for each request of the system, however their
\* lookups, embeddings and commits cross.
THEOREM KeysStayBounded == RowsSpec => []KeysAreBounded
<1>1. RowsInit => RowsInv
  <2> SUFFICES ASSUME RowsInit PROVE RowsInv
    OBVIOUS
  <2>1. RowsTypeOK
    BY FS_EmptySet DEF RowsInit, RowsTypeOK, NoUpsert, Unread
  <2>2. \A k \in MemoryKey : WithKey(k) = {}
    BY DEF RowsInit, WithKey
  <2>3. ASSUME NEW k \in MemoryKey
        PROVE  Cardinality(WithKey(k)) + Cardinality(Inserting(k)) <= Cardinality(Upsert)
    <3>1. Cardinality(WithKey(k)) = 0
      BY <2>2, FS_EmptySet
    <3> QED
      BY <2>1, <3>1, RowsAreFinite
  <2> QED
    BY <2>1, <2>3 DEF RowsInv, WritersAreFew
<1>2. RowsInv /\ [RowsNext]_rowsVars => RowsInv'
  <2> SUFFICES ASSUME RowsInv, [RowsNext]_rowsVars PROVE RowsInv'
    OBVIOUS
  <2>1. CASE RowsNext
    BY <2>1, ReadsKeep, CommitsKeep, DeletesKeep DEF RowsNext
  <2>2. CASE UNCHANGED rowsVars
    BY <2>2 DEF RowsInv, RowsTypeOK, WritersAreFew, WithKey, Inserting, rowsVars
  <2> QED
    BY <2>1, <2>2
<1>3. RowsInv => KeysAreBounded
  <2> SUFFICES ASSUME RowsInv, NEW k \in MemoryKey
               PROVE  Cardinality(WithKey(k)) <= Cardinality(Upsert)
    BY DEF KeysAreBounded
  <2>1. Cardinality(WithKey(k)) + Cardinality(Inserting(k)) <= Cardinality(Upsert)
    BY DEF RowsInv, WritersAreFew
  <2> QED
    BY <2>1, RowsAreFinite DEF RowsInv
<1> QED
  BY <1>1, <1>2, <1>3, PTL DEF RowsSpec

\* What a memory keeps, in files and in rows, stays near its limits: MemoryIsBounded.
THEOREM MemoryStaysBounded == MemorySpec /\ RowsSpec => []MemoryIsBounded
<1>1. FilesWithinQuota /\ KeysAreBounded => MemoryIsBounded
  BY DEF MemoryIsBounded
<1> QED
  BY <1>1, QuotaHolds, KeysStayBounded, PTL


-----------------------------------------------------------------------------

(***************************************************************************)
(* GalleryIsSound for any number of requests and images, and any quota.    *)
(* The date of an image that is made is nobody else's, so that nothing     *)
(* takes its file away; a file that was pruned does not come back; and the *)
(* rows that nobody prunes are within the quota, or someone has still to   *)
(* enforce it.                                                             *)
(***************************************************************************)

MakerPC == {"idle", "generating", "storing", "stored", "pruning", "deleting", "removing"}
MakerType(n) ==
  [pc : MakerPC, image : 0..n, old : SUBSET (1..n), gone : SUBSET (1..n)]

GalleryTypeOK ==
  /\ asked \in Nat
  /\ rows \in SUBSET (1..asked) /\ files \in SUBSET (1..asked)
  /\ cut \in SUBSET (1..asked) /\ stuck \in SUBSET (1..asked)
  /\ maker \in [Maker -> MakerType(asked)]

\* What one request has in its hands, m, with the files f, the rows w, and the images s
\* whose files could not be removed.
HandOK(m, f, w, s) ==
  /\ m.pc # "idle" => m.image # 0
  /\ m.pc # "pruning" => m.old = {}
  /\ m.gone \subseteq m.old /\ m.gone \cap f \subseteq s
  /\ m.pc = "generating" => m.image \notin f /\ m.image \notin w
  /\ m.pc = "storing" => m.image \in f /\ m.image \notin w
  /\ m.pc = "removing" => m.image \notin w

\* The image that m makes is not what another request o has.
Apart(m, o) ==
  m.pc \in {"generating", "storing"} => m.image # o.image /\ m.image \notin o.old

HandsAreApart ==
  /\ \A r \in Maker : HandOK(maker[r], files, rows, stuck)
  /\ \A r, q \in Maker : r # q => Apart(maker[r], maker[q])

\* i is a row that m prunes; a file whose row m is about to write, or has deleted.
Prunes(m, i) == m.pc = "pruning" /\ i \in m.old
Handles(m, i) == m.pc \in {"storing", "removing"} /\ m.image = i

FilesMatch ==
  /\ \A i \in (rows \ files) \ cut : \E r \in Maker : Prunes(maker[r], i)
  /\ \A i \in (files \ rows) \ (cut \cup stuck) : \E r \in Maker : Handles(maker[r], i)

Pruned == {i \in rows : \E r \in Maker : i \in maker[r].old}
QuotaIsKept ==
  (Cap > 0 /\ cut = {}) =>
    (\E r \in Maker : maker[r].pc = "stored") \/ Cardinality(rows \ Pruned) <= Cap

GalleryInv == GalleryTypeOK /\ HandsAreApart /\ FilesMatch /\ QuotaIsKept

-----------------------------------------------------------------------------

\* One request moves on to x, the others stay.
LEMMA OneMaker ==
  ASSUME GalleryTypeOK, NEW r \in Maker, NEW x, maker' = [maker EXCEPT ![r] = x]
  PROVE  /\ maker'[r] = x
         /\ \A q \in Maker : q # r => maker'[q] = maker[q]
  BY DEF GalleryTypeOK

\* The type of the state after a step of one request.
LEMMA MakerTyped ==
  ASSUME GalleryTypeOK, NEW r \in Maker, NEW x, maker' = [maker EXCEPT ![r] = x],
         asked' \in Nat, asked <= asked', x \in MakerType(asked'),
         rows' \in SUBSET (1..asked'), files' \in SUBSET (1..asked'),
         cut' \in SUBSET (1..asked') /\ stuck' \in SUBSET (1..asked')
  PROVE  GalleryTypeOK'
<1>1. \A q \in Maker : maker[q] \in MakerType(asked')
  <2> SUFFICES ASSUME NEW q \in Maker PROVE maker[q] \in MakerType(asked')
    OBVIOUS
  <2>1. 0..asked \subseteq 0..asked' /\ 1..asked \subseteq 1..asked'
    BY DEF GalleryTypeOK
  <2>2. maker[q] \in MakerType(asked)
    BY DEF GalleryTypeOK
  <2> QED
    BY <2>1, <2>2 DEF MakerType
<1>2. maker' \in [Maker -> MakerType(asked')]
  BY <1>1 DEF GalleryTypeOK
<1> QED
  BY <1>2 DEF GalleryTypeOK

\* What the others have in hand has to fit the new files and rows.
LEMMA HandsStay ==
  ASSUME GalleryTypeOK, HandsAreApart,
         NEW r \in Maker, NEW x, maker' = [maker EXCEPT ![r] = x],
         HandOK(x, files', rows', stuck'),
         \A q \in Maker : q # r => /\ HandOK(maker[q], files', rows', stuck')
                                   /\ Apart(x, maker[q]) /\ Apart(maker[q], x)
  PROVE  HandsAreApart'
<1>1. /\ maker'[r] = x
      /\ \A q \in Maker : q # r => maker'[q] = maker[q]
  BY OneMaker
<1>2. ASSUME NEW q \in Maker PROVE HandOK(maker'[q], files', rows', stuck')
  BY <1>1
<1>3. ASSUME NEW q \in Maker, NEW o \in Maker, q # o PROVE Apart(maker'[q], maker'[o])
  <2>1. CASE q = r \/ o = r
    BY <1>1, <1>3, <2>1
  <2>2. CASE q # r /\ o # r
    BY <1>1, <1>3, <2>2 DEF HandsAreApart
  <2> QED
    BY <2>1, <2>2
<1> QED
  BY <1>2, <1>3 DEF HandsAreApart

\* A row or a file that is alone is in the hands of r now, or of another as before.
LEMMA MatchStays ==
  ASSUME GalleryTypeOK, FilesMatch, NEW r \in Maker, NEW x, maker' = [maker EXCEPT ![r] = x],
         \A i \in (rows' \ files') \ cut' :
           Prunes(x, i) \/ (i \in (rows \ files) \ cut /\ ~Prunes(maker[r], i)),
         \A i \in (files' \ rows') \ (cut' \cup stuck') :
           Handles(x, i) \/ (i \in (files \ rows) \ (cut \cup stuck) /\ ~Handles(maker[r], i))
  PROVE  FilesMatch'
<1>1. /\ maker'[r] = x
      /\ \A q \in Maker : q # r => maker'[q] = maker[q]
  BY OneMaker
<1>2. ASSUME NEW i \in (rows' \ files') \ cut'
      PROVE  \E q \in Maker : Prunes(maker'[q], i)
  <2>1. CASE Prunes(x, i)
    BY <1>1, <2>1
  <2>2. CASE i \in (rows \ files) \ cut /\ ~Prunes(maker[r], i)
    <3>1. PICK q \in Maker : Prunes(maker[q], i)
      BY <2>2 DEF FilesMatch
    <3> QED
      BY <1>1, <2>2, <3>1
  <2> QED
    BY <1>2, <2>1, <2>2
<1>3. ASSUME NEW i \in (files' \ rows') \ (cut' \cup stuck')
      PROVE  \E q \in Maker : Handles(maker'[q], i)
  <2>1. CASE Handles(x, i)
    BY <1>1, <2>1
  <2>2. CASE i \in (files \ rows) \ (cut \cup stuck) /\ ~Handles(maker[r], i)
    <3>1. PICK q \in Maker : Handles(maker[q], i)
      BY <2>2 DEF FilesMatch
    <3> QED
      BY <1>1, <2>2, <3>1
  <2> QED
    BY <1>3, <2>1, <2>2
<1> QED
  BY <1>2, <1>3 DEF FilesMatch

\* Any part of the rows is finite.
LEMMA DatesAreFinite ==
  ASSUME GalleryTypeOK, NEW S
  PROVE  IsFiniteSet(rows \ S) /\ IsFiniteSet(rows)
<1>1. IsFiniteSet(1..asked)
  <2>1. 1 \in Int /\ asked \in Int
    BY DEF GalleryTypeOK
  <2> QED
    BY <2>1, FS_Interval
<1>2. rows \in SUBSET (1..asked) /\ (rows \ S) \in SUBSET rows
  BY DEF GalleryTypeOK
<1>3. IsFiniteSet(rows)
  BY <1>1, <1>2, FS_Subset
<1> QED
  BY <1>2, <1>3, FS_Subset

\* No new row, and nobody forgets what he prunes.
LEMMA QuotaStays ==
  ASSUME GalleryInv, GalleryTypeOK', NEW r \in Maker, NEW x,
         maker' = [maker EXCEPT ![r] = x], cut \subseteq cut',
         rows' \subseteq rows, maker[r].pc # "stored",
         \A i \in rows' : i \in maker[r].old => i \in x.old
  PROVE  QuotaIsKept'
<1> SUFFICES ASSUME Cap > 0, cut' = {}, \A q \in Maker : maker'[q].pc # "stored"
             PROVE  Cardinality(rows' \ Pruned') <= Cap
  BY DEF QuotaIsKept
<1>1. /\ maker'[r] = x
      /\ \A q \in Maker : q # r => maker'[q] = maker[q]
  BY OneMaker DEF GalleryInv
<1>2. \A q \in Maker : maker[q].pc # "stored"
  BY <1>1
<1>3. cut = {} /\ Cardinality(rows \ Pruned) <= Cap
  BY <1>2 DEF GalleryInv, QuotaIsKept
<1>4. (rows' \ Pruned') \in SUBSET (rows \ Pruned)
  BY <1>1 DEF Pruned
<1>5. IsFiniteSet(rows \ Pruned)
  BY DatesAreFinite DEF GalleryInv
<1>6. Cardinality(rows' \ Pruned') <= Cardinality(rows \ Pruned)
  BY <1>4, <1>5, FS_Subset
<1>7. /\ Cardinality(rows' \ Pruned') \in Nat /\ Cardinality(rows \ Pruned) \in Nat
      /\ Cap \in Nat
  BY <1>4, <1>5, FS_Subset, FS_CardinalityType, CapAssumption
<1> QED
  BY <1>3, <1>6, <1>7

\* Images are asked for, and are not anywhere yet.
LEMMA GenerateKeeps ==
  ASSUME GalleryInv, NEW r \in Maker, Generate(r)
  PROVE  GalleryInv'
<1> DEFINE x == [pc |-> "generating", image |-> asked + 1, old |-> {}, gone |-> {}]
<1>1. /\ maker' = [maker EXCEPT ![r] = x] /\ maker[r].pc = "idle"
      /\ asked' = asked + 1 /\ rows' = rows /\ files' = files /\ cut' = cut /\ stuck' = stuck
  BY DEF Generate, MakerAt
<1>2. /\ asked \in Nat /\ rows \subseteq 1..asked /\ files \subseteq 1..asked
      /\ cut \subseteq 1..asked /\ stuck \subseteq 1..asked
      /\ \A q \in Maker : maker[q].image \in 0..asked /\ maker[q].old \subseteq 1..asked
      /\ maker[r].old = {}
  BY <1>1 DEF GalleryInv, GalleryTypeOK, MakerType, HandsAreApart, HandOK
<1>3. x \in MakerType(asked')
  BY <1>1, <1>2 DEF MakerType, MakerPC
<1>4. /\ x.pc = "generating" /\ x.image = asked + 1 /\ x.old = {} /\ x.gone = {}
  OBVIOUS
<1> HIDE DEF x
<1>5. GalleryTypeOK'
  <2>1. /\ asked' \in Nat /\ asked <= asked'
        /\ rows' \in SUBSET (1..asked') /\ files' \in SUBSET (1..asked')
        /\ cut' \in SUBSET (1..asked') /\ stuck' \in SUBSET (1..asked')
    BY <1>1, <1>2
  <2> QED
    BY <1>1, <1>3, <2>1, MakerTyped DEF GalleryInv
<1>6. HandsAreApart'
  <2>1. HandOK(x, files', rows', stuck')
    BY <1>1, <1>2, <1>4 DEF HandOK
  <2>2. ASSUME NEW q \in Maker, q # r
        PROVE  HandOK(maker[q], files', rows', stuck') /\ Apart(x, maker[q]) /\ Apart(maker[q], x)
    <3>1. HandOK(maker[q], files', rows', stuck')
      BY <1>1 DEF GalleryInv, HandsAreApart
    <3>2. asked + 1 # maker[q].image /\ asked + 1 \notin maker[q].old
      BY <1>2
    <3> QED
      BY <1>4, <3>1, <3>2 DEF Apart
  <2> QED
    BY <1>1, <2>1, <2>2, HandsStay DEF GalleryInv
<1>7. FilesMatch'
  BY <1>1, <1>4, MatchStays DEF GalleryInv, Prunes, Handles
<1>8. QuotaIsKept'
  BY <1>1, <1>2, <1>5, QuotaStays
<1> QED
  BY <1>5, <1>6, <1>7, <1>8 DEF GalleryInv

\* The node has failed, or the file of the image is there.
LEMMA GeneratedKeeps ==
  ASSUME GalleryInv, NEW r \in Maker, Generated(r)
  PROVE  GalleryInv'
<1>1. /\ maker[r].pc = "generating" /\ asked' = asked /\ rows' = rows /\ cut' = cut
      /\ stuck' = stuck
  BY DEF Generated, MakerAt
<1>2. /\ asked \in Nat /\ asked <= asked' /\ maker[r] \in MakerType(asked)
      /\ rows \in SUBSET (1..asked) /\ files \in SUBSET (1..asked)
      /\ cut \in SUBSET (1..asked) /\ stuck \in SUBSET (1..asked)
  BY <1>1 DEF GalleryInv, GalleryTypeOK
<1>3. maker[r].old = {} /\ maker[r].gone = {} /\ maker[r].image \in 1..asked
  BY <1>1, <1>2 DEF GalleryInv, HandsAreApart, HandOK, MakerType
<1>4. CASE maker' = [maker EXCEPT ![r] = Quiet] /\ files' = files
  <2>1. /\ Quiet.pc = "idle" /\ Quiet.image = 0 /\ Quiet.old = {} /\ Quiet.gone = {}
        /\ Quiet \in MakerType(asked)
    BY <1>2 DEF Quiet, MakerType, MakerPC
  <2>2. GalleryTypeOK'
    BY <1>1, <1>2, <1>4, <2>1, MakerTyped DEF GalleryInv
  <2>3. HandOK(Quiet, files', rows', stuck')
    BY <2>1 DEF HandOK
  <2>4. ASSUME NEW q \in Maker, q # r
        PROVE  HandOK(maker[q], files', rows', stuck') /\ Apart(Quiet, maker[q]) /\ Apart(maker[q], Quiet)
    <3>1. HandOK(maker[q], files', rows', stuck') /\ maker[q].image \in Nat
      BY <1>1, <1>4 DEF GalleryInv, HandsAreApart, GalleryTypeOK, MakerType
    <3> QED
      BY <2>1, <3>1 DEF Apart, HandOK
  <2>5. HandsAreApart'
    BY <1>4, <2>3, <2>4, HandsStay DEF GalleryInv
  <2>6. FilesMatch'
    BY <1>1, <1>4, <2>1, MatchStays DEF GalleryInv, Prunes, Handles
  <2>7. QuotaIsKept'
    BY <1>1, <1>3, <1>4, <2>2, QuotaStays
  <2> QED
    BY <2>2, <2>5, <2>6, <2>7 DEF GalleryInv
<1>5. CASE MakerGoto(r, "storing") /\ files' = files \cup {maker[r].image}
  <2> DEFINE x == [maker[r] EXCEPT !.pc = "storing"]
  <2>1. /\ x.pc = "storing" /\ x.image = maker[r].image /\ x.old = {} /\ x.gone = {}
        /\ x \in MakerType(asked) /\ maker' = [maker EXCEPT ![r] = x]
    BY <1>2, <1>3, <1>5 DEF MakerType, MakerPC, MakerGoto
  <2> HIDE DEF x
  <2>2. GalleryTypeOK'
    <3>1. files' \in SUBSET (1..asked')
      BY <1>1, <1>2, <1>3, <1>5
    <3> QED
      BY <1>1, <1>2, <2>1, <3>1, MakerTyped DEF GalleryInv
  <2>3. HandOK(x, files', rows', stuck')
    BY <1>1, <1>3, <1>5, <2>1 DEF HandOK, GalleryInv, HandsAreApart
  <2>4. ASSUME NEW q \in Maker, q # r
        PROVE  HandOK(maker[q], files', rows', stuck') /\ Apart(x, maker[q]) /\ Apart(maker[q], x)
    <3>1. HandOK(maker[q], files, rows, stuck) /\ Apart(maker[r], maker[q]) /\ Apart(maker[q], maker[r])
      BY <2>4 DEF GalleryInv, HandsAreApart
    <3>2. maker[r].image # maker[q].image /\ maker[r].image \notin maker[q].old
      BY <1>1, <3>1 DEF Apart
    <3>3. HandOK(maker[q], files', rows', stuck')
      BY <1>1, <1>5, <3>1, <3>2 DEF HandOK
    <3> QED
      BY <1>1, <2>1, <3>1, <3>2, <3>3 DEF Apart
  <2>5. HandsAreApart'
    BY <2>1, <2>3, <2>4, HandsStay DEF GalleryInv
  <2>6. FilesMatch'
    BY <1>1, <1>5, <2>1, MatchStays DEF GalleryInv, Prunes, Handles
  <2>7. QuotaIsKept'
    BY <1>1, <1>3, <2>1, <2>2, QuotaStays
  <2> QED
    BY <2>2, <2>5, <2>6, <2>7 DEF GalleryInv
<1> QED
  BY <1>4, <1>5 DEF Generated

\* The row of an image is there, and the quota has to be looked at.
LEMMA StoreKeeps ==
  ASSUME GalleryInv, NEW r \in Maker, Store(r)
  PROVE  GalleryInv'
<1> DEFINE x == [maker[r] EXCEPT !.pc = "stored"]
<1>1. /\ maker[r].pc = "storing" /\ asked' = asked /\ files' = files /\ cut' = cut
      /\ stuck' = stuck
      /\ rows' = rows \cup {maker[r].image}
  BY DEF Store, MakerAt
<1>2. /\ asked \in Nat /\ asked <= asked' /\ maker[r] \in MakerType(asked)
      /\ rows \in SUBSET (1..asked) /\ files \in SUBSET (1..asked)
      /\ cut \in SUBSET (1..asked) /\ stuck \in SUBSET (1..asked)
  BY <1>1 DEF GalleryInv, GalleryTypeOK
<1>3. maker[r].old = {} /\ maker[r].gone = {} /\ maker[r].image \in 1..asked /\ maker[r].image \in files
  BY <1>1, <1>2 DEF GalleryInv, HandsAreApart, HandOK, MakerType
<1>4. /\ x.pc = "stored" /\ x.image = maker[r].image /\ x.old = {} /\ x.gone = {}
      /\ x \in MakerType(asked) /\ maker' = [maker EXCEPT ![r] = x]
  BY <1>2, <1>3 DEF MakerType, MakerPC, MakerGoto, Store
<1> HIDE DEF x
<1>5. GalleryTypeOK'
  <2>1. rows' \in SUBSET (1..asked')
    BY <1>1, <1>2, <1>3
  <2> QED
    BY <1>1, <1>2, <1>4, <2>1, MakerTyped DEF GalleryInv
<1>6. HandOK(x, files', rows', stuck')
  <2>1. maker[r].image # 0
    BY <1>2, <1>3
  <2> QED
    BY <1>4, <2>1 DEF HandOK
<1>7. ASSUME NEW q \in Maker, q # r
      PROVE  HandOK(maker[q], files', rows', stuck') /\ Apart(x, maker[q]) /\ Apart(maker[q], x)
  <2>1. HandOK(maker[q], files, rows, stuck) /\ Apart(maker[r], maker[q]) /\ Apart(maker[q], maker[r])
    BY <1>7 DEF GalleryInv, HandsAreApart
  <2>2. maker[r].image # maker[q].image /\ maker[r].image \notin maker[q].old
    BY <1>1, <2>1 DEF Apart
  <2>3. HandOK(maker[q], files', rows', stuck')
    BY <1>1, <2>1, <2>2 DEF HandOK
  <2> QED
    BY <1>4, <2>1, <2>2, <2>3 DEF Apart
<1>8. HandsAreApart'
  BY <1>4, <1>6, <1>7, HandsStay DEF GalleryInv
<1>9. FilesMatch'
  <2>1. \A i \in (rows' \ files') \ cut' : i \in (rows \ files) \ cut /\ ~Prunes(maker[r], i)
    BY <1>1, <1>3 DEF Prunes
  <2>2. \A i \in (files' \ rows') \ (cut' \cup stuck') :
          i \in (files \ rows) \ (cut \cup stuck) /\ ~Handles(maker[r], i)
    BY <1>1, <1>3 DEF Handles
  <2> QED
    BY <1>4, <2>1, <2>2, MatchStays DEF GalleryInv
<1>10. QuotaIsKept'
  BY <1>4, OneMaker DEF QuotaIsKept, GalleryInv
<1> QED
  BY <1>5, <1>8, <1>9, <1>10 DEF GalleryInv

\* Max of some dates is one of them.
LEMMA NewestIsThere ==
  ASSUME NEW n \in Nat, NEW T \in SUBSET (1..n), T # {}
  PROVE  Max(T) \in T
<1> DEFINE Back == {n - i : i \in T}
<1>1. Back \in SUBSET Nat /\ Back # {}
  <2>1. \A i \in T : n - i \in Nat
    <3> TAKE i \in T
    <3>1. i \in 1..n
      OBVIOUS
    <3> QED
      BY <3>1
  <2> QED
    BY <2>1
<1> HIDE DEF Back
<1>2. PICK b \in Back : \A y \in Back : b <= y
  BY <1>1, LeastNatural
<1>3. PICK i \in T : b = n - i
  BY <1>2 DEF Back
<1>4. ASSUME NEW j \in T PROVE i >= j
  <2>1. n - j \in Back
    BY DEF Back
  <2>2. b <= n - j
    BY <1>2, <2>1
  <2> QED
    BY <1>3, <2>2
<1> QED
  BY <1>4 DEF Max

\* The Cap newest of some images.
LEMMA NewestAreFew ==
  ASSUME NEW S \in SUBSET Nat, IsFiniteSet(S), NEW n \in Nat
  PROVE  Cardinality({i \in S : ~(Cardinality({j \in S : j > i}) >= n)}) <= n
<1> DEFINE After(i) == {j \in S : j > i}
           New == {i \in S : ~(Cardinality(After(i)) >= n)}
<1>1. CASE New = {}
  <2>1. Cardinality(New) = 0
    BY <1>1, FS_EmptySet
  <2> HIDE DEF New
  <2>2. Cardinality(New) <= n
    BY <2>1
  <2> QED
    BY <2>2 DEF New
<1>2. CASE New # {}
  <2>1. New \in SUBSET Nat /\ IsFiniteSet(New)
    <3>1. New \in SUBSET S
      OBVIOUS
    <3> QED
      BY <3>1, FS_Subset
  <2>2. PICK first \in New : \A i \in New : first <= i
    <3> HIDE DEF New
    <3> QED
      BY <1>2, <2>1, LeastNatural
  <2>3. IsFiniteSet(After(first)) /\ Cardinality(After(first)) \in Nat
    <3>1. After(first) \in SUBSET S
      OBVIOUS
    <3> HIDE DEF After
    <3> QED
      BY <3>1, FS_Subset, FS_CardinalityType
  <2>4. ~(Cardinality(After(first)) >= n)
    <3> HIDE DEF After
    <3> QED
      BY <2>2
  <2>5. (New \ {first}) \in SUBSET After(first)
    <3> SUFFICES ASSUME NEW i \in New, i # first PROVE i \in S /\ i > first
      OBVIOUS
    <3> QED
      BY <2>1, <2>2
  <2> HIDE DEF New, After
  <2>6. Cardinality(New \ {first}) <= Cardinality(After(first)) /\ Cardinality(New \ {first}) \in Nat
    BY <2>1, <2>3, <2>5, FS_Subset, FS_CardinalityType
  <2>7. Cardinality(New \ {first}) = Cardinality(New) - 1 /\ Cardinality(New) \in Nat
    BY <2>1, <2>2, FS_RemoveElement, FS_CardinalityType
  <2>8. Cardinality(New) <= n
    BY <2>3, <2>4, <2>6, <2>7
  <2> QED
    BY <2>8 DEF New, After
<1> QED
  BY <1>1, <1>2

\* Who enforces the quota prunes all but the Cap newest images of this moment.
LEMMA EnforceKeeps ==
  ASSUME GalleryInv, NEW r \in Maker, EnforceQuota(r)
  PROVE  GalleryInv'
<1> DEFINE x == IF Cap = 0 \/ BeyondCap(r) = {} THEN Quiet
                ELSE [pc |-> "pruning", image |-> maker[r].image, old |-> BeyondCap(r), gone |-> {}]
<1>1. /\ maker[r].pc = "stored" /\ UNCHANGED <<rows, files, asked, cut, stuck>>
      /\ maker' = [maker EXCEPT ![r] = x]
  BY DEF EnforceQuota, MakerAt, GalleryInv, GalleryTypeOK
<1>2. /\ asked \in Nat /\ asked <= asked' /\ maker[r] \in MakerType(asked)
      /\ rows \in SUBSET (1..asked) /\ files \in SUBSET (1..asked)
      /\ cut \in SUBSET (1..asked) /\ stuck \in SUBSET (1..asked)
  BY <1>1 DEF GalleryInv, GalleryTypeOK
<1>3. maker[r].image \in 1..asked
  BY <1>1, <1>2 DEF GalleryInv, HandsAreApart, HandOK, MakerType
<1>4. BeyondCap(r) \subseteq rows /\ BeyondCap(r) \subseteq 1..asked
  BY <1>2 DEF BeyondCap
<1>5. /\ x \in MakerType(asked) /\ x.gone = {} /\ x.old \subseteq rows
      /\ \/ x.pc = "idle" /\ x.old = {} /\ x.image = 0
         \/ x.pc = "pruning" /\ x.image = maker[r].image
      /\ Cap > 0 => \A i \in BeyondCap(r) : i \in x.old
  BY <1>2, <1>3, <1>4, CapAssumption DEF MakerType, MakerPC, Quiet
<1> HIDE DEF x
<1>6. GalleryTypeOK'
  BY <1>1, <1>2, <1>5, MakerTyped DEF GalleryInv
<1>7. HandsAreApart'
  <2>1. HandOK(x, files', rows', stuck')
    BY <1>3, <1>5 DEF HandOK
  <2>2. ASSUME NEW q \in Maker, q # r
        PROVE  HandOK(maker[q], files', rows', stuck') /\ Apart(x, maker[q]) /\ Apart(maker[q], x)
    <3>1. HandOK(maker[q], files, rows, stuck) /\ Apart(maker[q], maker[r])
      BY <2>2 DEF GalleryInv, HandsAreApart
    <3>2. HandOK(maker[q], files', rows', stuck') /\ Apart(x, maker[q])
      BY <1>1, <1>5, <3>1 DEF Apart
    <3>3. ASSUME maker[q].pc \in {"generating", "storing"}
          PROVE  maker[q].image # x.image /\ maker[q].image \notin x.old
      <4>1. maker[q].image # 0 /\ maker[q].image \notin rows /\ maker[q].image # maker[r].image
        BY <3>1, <3>3 DEF HandOK, Apart
      <4> QED
        BY <1>5, <4>1
    <3> QED
      BY <3>2, <3>3 DEF Apart
  <2> QED
    BY <1>1, <2>1, <2>2, HandsStay DEF GalleryInv
<1>8. FilesMatch'
  BY <1>1, MatchStays DEF GalleryInv, Prunes, Handles
<1>9. QuotaIsKept'
  <2> SUFFICES ASSUME Cap > 0 PROVE Cardinality(rows' \ Pruned') <= Cap
    BY DEF QuotaIsKept
  <2> DEFINE New == {i \in rows : ~(Cardinality({j \in rows : j > i}) >= Cap)}
  <2>1. rows \ BeyondCap(r) = New
    BY DEF BeyondCap
  <2>2. IsFiniteSet(rows) /\ rows \in SUBSET Nat /\ IsFiniteSet(New)
    <3>1. IsFiniteSet(rows) /\ IsFiniteSet(rows \ BeyondCap(r))
      BY DatesAreFinite DEF GalleryInv
    <3>2. rows \in SUBSET Nat
      BY <1>2
    <3> HIDE DEF New
    <3> QED
      BY <2>1, <3>1, <3>2
  <2>3. Cardinality(New) <= Cap /\ Cap \in Nat /\ Cardinality(New) \in Nat
    BY <2>2, NewestAreFew, CapAssumption, FS_CardinalityType
  <2> HIDE DEF New
  <2>4. maker'[r] = x
    BY <1>1, OneMaker DEF GalleryInv
  <2>5. (rows' \ Pruned') \in SUBSET New
    <3>1. BeyondCap(r) \subseteq Pruned'
      BY <1>1, <1>4, <1>5, <2>4 DEF Pruned
    <3> QED
      BY <1>1, <2>1, <3>1
  <2>6. /\ Cardinality(rows' \ Pruned') <= Cardinality(New)
        /\ Cardinality(rows' \ Pruned') \in Nat
    BY <2>2, <2>5, FS_Subset, FS_CardinalityType
  <2> QED
    BY <2>3, <2>6
<1> QED
  BY <1>6, <1>7, <1>8, <1>9 DEF GalleryInv

\* A file that is removed is gone, or is known to be stuck; the others stay.
LEMMA Unlinked ==
  ASSUME stuck \in SUBSET (1..asked), NEW i \in 1..asked, RemoveImage(i)
  PROVE  /\ files' \subseteq files /\ files \ {i} \subseteq files'
         /\ i \in files' => i \in stuck'
         /\ stuck \subseteq stuck' /\ stuck' \in SUBSET (1..asked)
  BY DEF RemoveImage

\* One file of those to prune goes; or the rows go, when there is no file left.
LEMMA PruneKeeps ==
  ASSUME GalleryInv, NEW r \in Maker, Prune(r)
  PROVE  GalleryInv'
<1> DEFINE left == maker[r].old \ maker[r].gone
<1>1. maker[r].pc = "pruning" /\ UNCHANGED <<asked, cut>>
  BY DEF Prune, MakerAt
<1>2. /\ asked \in Nat /\ asked <= asked' /\ maker[r] \in MakerType(asked)
      /\ rows \in SUBSET (1..asked) /\ files \in SUBSET (1..asked)
      /\ cut \in SUBSET (1..asked) /\ stuck \in SUBSET (1..asked)
  BY <1>1 DEF GalleryInv, GalleryTypeOK
<1>3. /\ maker[r].image # 0 /\ maker[r].gone \subseteq maker[r].old
      /\ maker[r].gone \cap files \subseteq stuck /\ maker[r].old \subseteq 1..asked
  BY <1>1, <1>2 DEF GalleryInv, HandsAreApart, HandOK, MakerType
<1>4. \A q \in Maker : q # r => /\ HandOK(maker[q], files, rows, stuck)
                                /\ Apart(maker[r], maker[q]) /\ Apart(maker[q], maker[r])
  BY DEF GalleryInv, HandsAreApart
<1>5. CASE left = {}
  <2>1. /\ Quiet.pc = "idle" /\ Quiet.image = 0 /\ Quiet.old = {} /\ Quiet.gone = {}
        /\ Quiet \in MakerType(asked)
    BY <1>2 DEF Quiet, MakerType, MakerPC
  <2>2. /\ maker' = [maker EXCEPT ![r] = Quiet] /\ files' = files
        /\ rows' = rows \ maker[r].old /\ stuck' = stuck
    BY <1>5 DEF Prune
  <2>3. maker[r].old \cap files \subseteq stuck
    BY <1>3, <1>5
  <2>4. GalleryTypeOK'
    BY <1>1, <1>2, <2>1, <2>2, MakerTyped DEF GalleryInv
  <2>5. HandsAreApart'
    <3>1. HandOK(Quiet, files', rows', stuck')
      BY <2>1 DEF HandOK
    <3>2. ASSUME NEW q \in Maker, q # r
          PROVE  HandOK(maker[q], files', rows', stuck') /\ Apart(Quiet, maker[q]) /\ Apart(maker[q], Quiet)
      BY <1>4, <2>1, <2>2, <3>2 DEF HandOK, Apart
    <3> QED
      BY <2>2, <3>1, <3>2, HandsStay DEF GalleryInv
  <2>6. FilesMatch'
    <3>1. \A i \in (rows' \ files') \ cut' : i \in (rows \ files) \ cut /\ ~Prunes(maker[r], i)
      BY <1>1, <2>2 DEF Prunes
    <3>2. \A i \in (files' \ rows') \ (cut' \cup stuck') :
            i \in (files \ rows) \ (cut \cup stuck) /\ ~Handles(maker[r], i)
      BY <1>1, <2>2, <2>3 DEF Handles
    <3> QED
      BY <2>2, <3>1, <3>2, MatchStays DEF GalleryInv
  <2>7. QuotaIsKept'
    <3>1. /\ rows' \subseteq rows /\ cut \subseteq cut' /\ maker[r].pc # "stored"
          /\ \A i \in rows' : i \in maker[r].old => i \in Quiet.old
      BY <1>1, <2>2
    <3> QED
      BY <2>2, <2>4, <3>1, QuotaStays
  <2> QED
    BY <2>4, <2>5, <2>6, <2>7 DEF GalleryInv
<1>6. CASE left # {}
  <2> DEFINE i == Max(left)
             x == [maker[r] EXCEPT !.gone = maker[r].gone \cup {i}]
  <2>1. i \in left
    <3>1. left \in SUBSET (1..asked) /\ left # {}
      BY <1>3, <1>6
    <3> HIDE DEF left
    <3> QED
      BY <1>2, <3>1, NewestIsThere
  <2>2. /\ x.pc = "pruning" /\ x.image = maker[r].image /\ x.old = maker[r].old
        /\ x.gone = maker[r].gone \cup {i} /\ x \in MakerType(asked)
        /\ maker' = [maker EXCEPT ![r] = x] /\ rows' = rows
        /\ files' \subseteq files /\ files \ {i} \subseteq files'
        /\ i \in files' => i \in stuck'
        /\ stuck \subseteq stuck' /\ stuck' \in SUBSET (1..asked)
    <3>1. i \in 1..asked
      BY <1>3, <2>1
    <3>2. maker' = [maker EXCEPT ![r] = x] /\ RemoveImage(i) /\ rows' = rows
      BY <1>6 DEF Prune, GalleryInv, GalleryTypeOK
    <3> HIDE DEF i
    <3>3. /\ files' \subseteq files /\ files \ {i} \subseteq files'
          /\ i \in files' => i \in stuck'
          /\ stuck \subseteq stuck' /\ stuck' \in SUBSET (1..asked)
      BY <1>2, <3>1, <3>2, Unlinked
    <3> QED
      BY <1>1, <1>2, <3>1, <3>2, <3>3 DEF MakerType
  <2> HIDE DEF i, x
  <2>3. i \in maker[r].old
    BY <2>1
  <2>4. GalleryTypeOK'
    <3>1. /\ asked' \in Nat /\ files' \in SUBSET (1..asked') /\ rows' \in SUBSET (1..asked')
          /\ cut' \in SUBSET (1..asked') /\ stuck' \in SUBSET (1..asked') /\ x \in MakerType(asked')
      BY <1>1, <1>2, <2>2
    <3> QED
      BY <1>2, <2>2, <3>1, MakerTyped DEF GalleryInv
  <2>5. HandsAreApart'
    <3>1. HandOK(x, files', rows', stuck')
      BY <1>3, <2>2, <2>3 DEF HandOK
    <3>2. ASSUME NEW q \in Maker, q # r
          PROVE  HandOK(maker[q], files', rows', stuck') /\ Apart(x, maker[q]) /\ Apart(maker[q], x)
      <4>1. maker[q].pc = "storing" => maker[q].image # i
        BY <1>4, <2>3, <3>2 DEF Apart
      <4>2. HandOK(maker[q], files', rows', stuck')
        BY <1>4, <2>2, <3>2, <4>1 DEF HandOK
      <4>3. Apart(x, maker[q]) /\ Apart(maker[q], x)
        BY <1>4, <2>2, <3>2 DEF Apart
      <4> QED
        BY <4>2, <4>3
    <3> QED
      BY <2>2, <3>1, <3>2, HandsStay DEF GalleryInv
  <2>6. FilesMatch'
    <3>1. \A j \in (rows' \ files') \ cut' :
            Prunes(x, j) \/ (j \in (rows \ files) \ cut /\ ~Prunes(maker[r], j))
      BY <1>1, <2>2, <2>3 DEF Prunes
    <3>2. \A j \in (files' \ rows') \ (cut' \cup stuck') :
            j \in (files \ rows) \ (cut \cup stuck) /\ ~Handles(maker[r], j)
      BY <1>1, <2>2 DEF Handles
    <3> QED
      BY <2>2, <3>1, <3>2, MatchStays DEF GalleryInv
  <2>7. QuotaIsKept'
    <3>1. /\ rows' \subseteq rows /\ cut \subseteq cut' /\ maker[r].pc # "stored"
          /\ \A j \in rows' : j \in maker[r].old => j \in x.old
      BY <1>1, <2>2
    <3> QED
      BY <2>2, <2>4, <3>1, QuotaStays
  <2> QED
    BY <2>4, <2>5, <2>6, <2>7 DEF GalleryInv
<1> QED
  BY <1>5, <1>6

\* Any other step of a request: what is at stake is what it has in its hands.
LEMMA HandStep ==
  ASSUME GalleryInv, NEW r \in Maker, NEW x \in MakerType(asked),
         maker' = [maker EXCEPT ![r] = x], asked' = asked, maker[r].pc # "stored",
         rows' \subseteq rows, files' \subseteq files, cut \subseteq cut', stuck \subseteq stuck',
         cut' \in SUBSET (1..asked) /\ stuck' \in SUBSET (1..asked),
         HandOK(x, files', rows', stuck'), x.pc \notin {"generating", "storing"}, x.old = {},
         \A q \in Maker : q # r =>
           /\ maker[q].pc \in {"generating", "storing"} => maker[q].image # x.image
           /\ maker[q].pc = "storing" => maker[q].image \in files',
         \A i \in (rows' \ files') \ cut' : i \in rows \ files /\ ~Prunes(maker[r], i),
         \A i \in (files' \ rows') \ (cut' \cup stuck') :
           Handles(x, i) \/ (i \in files \ rows /\ ~Handles(maker[r], i)),
         cut' = {} => maker[r].old = {}
  PROVE  GalleryInv'
<1>1. /\ asked \in Nat /\ asked <= asked'
      /\ rows' \in SUBSET (1..asked') /\ files' \in SUBSET (1..asked')
      /\ cut' \in SUBSET (1..asked') /\ stuck' \in SUBSET (1..asked')
  BY DEF GalleryInv, GalleryTypeOK
<1>2. GalleryTypeOK'
  BY <1>1, MakerTyped DEF GalleryInv
<1>3. ASSUME NEW q \in Maker, q # r
      PROVE  HandOK(maker[q], files', rows', stuck') /\ Apart(x, maker[q]) /\ Apart(maker[q], x)
  <2>1. HandOK(maker[q], files, rows, stuck)
    BY DEF GalleryInv, HandsAreApart
  <2>2. HandOK(maker[q], files', rows', stuck')
    BY <1>3, <2>1 DEF HandOK
  <2> QED
    BY <1>3, <2>2 DEF Apart
<1>4. HandsAreApart'
  BY <1>3, HandsStay DEF GalleryInv
<1>5. FilesMatch'
  BY MatchStays DEF GalleryInv
<1>6. QuotaIsKept'
  <2>1. CASE cut' = {}
    BY <1>2, <2>1, QuotaStays
  <2>2. CASE cut' # {}
    BY <2>2 DEF QuotaIsKept
  <2> QED
    BY <2>1, <2>2
<1> QED
  BY <1>2, <1>4, <1>5, <1>6 DEF GalleryInv

\* delete_image has read the row of an image: nobody makes that one any more.
LEMMA DeleteReadsKeeps ==
  ASSUME GalleryInv, NEW r \in Maker, DeleteReads(r)
  PROVE  GalleryInv'
<1>1. PICK i \in rows :
        maker' = [maker EXCEPT ![r] = [pc |-> "deleting", image |-> i, old |-> {}, gone |-> {}]]
  BY DEF DeleteReads
<1>2. maker[r].pc = "idle" /\ UNCHANGED <<rows, files, asked, cut, stuck>>
  BY DEF DeleteReads, MakerAt
<1> DEFINE x == [pc |-> "deleting", image |-> i, old |-> {}, gone |-> {}]
<1>3. i \in 1..asked /\ asked \in Nat
                     /\ cut \in SUBSET (1..asked) /\ stuck \in SUBSET (1..asked) /\ i # 0
  BY DEF GalleryInv, GalleryTypeOK
<1>4. /\ x.pc = "deleting" /\ x.image = i /\ x.old = {} /\ x.gone = {} /\ x \in MakerType(asked)
      /\ maker' = [maker EXCEPT ![r] = x]
  BY <1>1, <1>3 DEF MakerType, MakerPC
<1> HIDE DEF x
<1>5. HandOK(x, files', rows', stuck')
  BY <1>3, <1>4 DEF HandOK
<1>6. \A q \in Maker : maker[q].pc \in {"generating", "storing"} => maker[q].image \notin rows
  BY DEF GalleryInv, HandsAreApart, HandOK
<1>7. \A q \in Maker : maker[q].pc = "storing" => maker[q].image \in files'
  BY <1>2 DEF GalleryInv, HandsAreApart, HandOK
<1>8. maker[r].old = {}
  BY <1>2 DEF GalleryInv, HandsAreApart, HandOK
<1>9. /\ \A j \in (rows' \ files') \ cut' : j \in rows \ files /\ ~Prunes(maker[r], j)
      /\ \A j \in (files' \ rows') \ (cut' \cup stuck') : j \in files \ rows /\ ~Handles(maker[r], j)
  BY <1>2 DEF Prunes, Handles
<1> QED
  BY <1>2, <1>3, <1>4, <1>5, <1>6, <1>7, <1>8, <1>9, HandStep

\* The row goes, and the file is in the hands of the request.
LEMMA DeleteRowKeeps ==
  ASSUME GalleryInv, NEW r \in Maker, DeleteRow(r)
  PROVE  GalleryInv'
<1> DEFINE x == [maker[r] EXCEPT !.pc = "removing"]
<1>1. /\ maker[r].pc = "deleting" /\ UNCHANGED <<files, asked, cut, stuck>>
      /\ rows' = rows \ {maker[r].image}
  BY DEF DeleteRow, MakerAt
<1>2. /\ asked \in Nat
      /\ cut \in SUBSET (1..asked) /\ stuck \in SUBSET (1..asked) /\ maker[r] \in MakerType(asked)
  BY DEF GalleryInv, GalleryTypeOK
<1>3. maker[r].old = {} /\ maker[r].gone = {} /\ maker[r].image # 0
  BY <1>1 DEF GalleryInv, HandsAreApart, HandOK
<1>4. /\ x.pc = "removing" /\ x.image = maker[r].image /\ x.old = {} /\ x.gone = {}
      /\ x \in MakerType(asked) /\ maker' = [maker EXCEPT ![r] = x]
  BY <1>2, <1>3 DEF MakerType, MakerPC, DeleteRow, MakerGoto
<1> HIDE DEF x
<1>5. HandOK(x, files', rows', stuck')
  BY <1>1, <1>3, <1>4 DEF HandOK
<1>6. \A q \in Maker : q # r =>
        (maker[q].pc \in {"generating", "storing"} => maker[q].image # maker[r].image)
  BY DEF GalleryInv, HandsAreApart, Apart
<1>7. \A q \in Maker : maker[q].pc = "storing" => maker[q].image \in files'
  BY <1>1 DEF GalleryInv, HandsAreApart, HandOK
<1>8. /\ \A j \in (rows' \ files') \ cut' : j \in rows \ files /\ ~Prunes(maker[r], j)
      /\ \A j \in (files' \ rows') \ (cut' \cup stuck') :
           Handles(x, j) \/ (j \in files \ rows /\ ~Handles(maker[r], j))
  BY <1>1, <1>4 DEF Prunes, Handles
<1>9. /\ rows' \subseteq rows /\ files' \subseteq files /\ cut \subseteq cut' /\ asked' = asked
      /\ stuck \subseteq stuck' /\ cut' \in SUBSET (1..asked) /\ stuck' \in SUBSET (1..asked) /\ maker[r].pc # "stored"
  BY <1>1, <1>2
<1>10. /\ x.pc \notin {"generating", "storing"} /\ x.old = {} /\ x \in MakerType(asked)
       /\ maker' = [maker EXCEPT ![r] = x]
       /\ cut' = {} => maker[r].old = {}
       /\ \A q \in Maker : q # r =>
            /\ maker[q].pc \in {"generating", "storing"} => maker[q].image # x.image
            /\ maker[q].pc = "storing" => maker[q].image \in files'
  BY <1>1, <1>3, <1>4, <1>6, <1>7
<1>11. \A j \in (files' \ rows') \ (cut' \cup stuck') :
         Handles(x, j) \/ (j \in files \ rows /\ ~Handles(maker[r], j))
  BY <1>8
<1> QED
  BY <1>5, <1>8, <1>9, <1>10, <1>11, HandStep

\* The file follows its row.
LEMMA RemoveFileKeeps ==
  ASSUME GalleryInv, NEW r \in Maker, RemoveFile(r)
  PROVE  GalleryInv'
<1>1. /\ maker[r].pc = "removing" /\ UNCHANGED <<rows, asked, cut>>
      /\ RemoveImage(maker[r].image) /\ maker' = [maker EXCEPT ![r] = Quiet]
  BY DEF RemoveFile, MakerAt
<1>2. /\ asked \in Nat /\ cut \in SUBSET (1..asked)
      /\ files' \subseteq files /\ files \ {maker[r].image} \subseteq files'
      /\ maker[r].image \in files' => maker[r].image \in stuck'
      /\ stuck \subseteq stuck' /\ stuck' \in SUBSET (1..asked)
  <2>1. /\ asked \in Nat /\ cut \in SUBSET (1..asked) /\ stuck \in SUBSET (1..asked)
        /\ maker[r] \in MakerType(asked) /\ maker[r].image # 0
    BY <1>1 DEF GalleryInv, GalleryTypeOK, HandsAreApart, HandOK
  <2>2. maker[r].image \in 1..asked
    BY <2>1 DEF MakerType
  <2> QED
    BY <1>1, <2>1, <2>2, Unlinked
<1>3. maker[r].old = {} /\ maker[r].image \notin rows
  BY <1>1 DEF GalleryInv, HandsAreApart, HandOK
<1>4. /\ Quiet.pc = "idle" /\ Quiet.image = 0 /\ Quiet.old = {} /\ Quiet.gone = {}
      /\ Quiet \in MakerType(asked)
  BY <1>2 DEF Quiet, MakerType, MakerPC
<1>5. HandOK(Quiet, files', rows', stuck')
  BY <1>4 DEF HandOK
<1>6. \A q \in Maker :
        maker[q].pc \in {"generating", "storing"} => maker[q].image # Quiet.image
  BY <1>4 DEF GalleryInv, HandsAreApart, HandOK
<1>7. \A q \in Maker : q # r => (maker[q].pc = "storing" => maker[q].image \in files')
  BY <1>1, <1>2 DEF GalleryInv, HandsAreApart, HandOK, Apart
<1>8. /\ \A j \in (rows' \ files') \ cut' : j \in rows \ files /\ ~Prunes(maker[r], j)
      /\ \A j \in (files' \ rows') \ (cut' \cup stuck') : j \in files \ rows /\ ~Handles(maker[r], j)
  BY <1>1, <1>2, <1>3 DEF Prunes, Handles
<1>9. /\ rows' \subseteq rows /\ files' \subseteq files /\ cut \subseteq cut' /\ asked' = asked
      /\ stuck \subseteq stuck' /\ cut' \in SUBSET (1..asked) /\ stuck' \in SUBSET (1..asked) /\ maker[r].pc # "stored"
  BY <1>1, <1>2
<1>10. /\ Quiet.pc \notin {"generating", "storing"} /\ Quiet.old = {} /\ Quiet \in MakerType(asked)
       /\ maker' = [maker EXCEPT ![r] = Quiet]
       /\ cut' = {} => maker[r].old = {}
       /\ \A q \in Maker : q # r =>
            /\ maker[q].pc \in {"generating", "storing"} => maker[q].image # Quiet.image
            /\ maker[q].pc = "storing" => maker[q].image \in files'
  BY <1>1, <1>3, <1>4, <1>6, <1>7
<1>11. \A j \in (files' \ rows') \ (cut' \cup stuck') :
         Handles(Quiet, j) \/ (j \in files \ rows /\ ~Handles(maker[r], j))
  BY <1>8
<1> QED
  BY <1>5, <1>8, <1>9, <1>10, <1>11, HandStep

\* A request that is cut leaves behind what it had in its hands, and nothing else.
LEMMA CutKeeps ==
  ASSUME GalleryInv, NEW r \in Maker, CutRequest(r)
  PROVE  GalleryInv'
<1>1. /\ maker[r].pc # "idle" /\ UNCHANGED <<rows, files, asked, stuck>>
      /\ maker' = [maker EXCEPT ![r] = Quiet] /\ cut' = cut \cup {maker[r].image} \cup maker[r].old
  BY DEF CutRequest, MakerAt
<1>2. /\ asked \in Nat /\ asked <= asked'
      /\ cut' \in SUBSET (1..asked) /\ stuck' \in SUBSET (1..asked) /\ cut' # {}
      /\ rows' \in SUBSET (1..asked') /\ files' \in SUBSET (1..asked')
  <2>1. /\ asked \in Nat
        /\ cut \in SUBSET (1..asked) /\ stuck \in SUBSET (1..asked) /\ maker[r] \in MakerType(asked)
    BY DEF GalleryInv, GalleryTypeOK
  <2>2. maker[r].image # 0
    BY <1>1 DEF GalleryInv, HandsAreApart, HandOK
  <2>3. maker[r].image \in 1..asked /\ maker[r].old \subseteq 1..asked
    BY <2>1, <2>2 DEF MakerType
  <2>4. cut' \in SUBSET (1..asked) /\ stuck' \in SUBSET (1..asked) /\ cut' # {}
    BY <1>1, <2>1, <2>3
  <2>5. asked <= asked' /\ rows' \in SUBSET (1..asked') /\ files' \in SUBSET (1..asked')
    BY <1>1, <2>1 DEF GalleryInv, GalleryTypeOK
  <2> QED
    BY <2>1, <2>4, <2>5
<1>3. /\ Quiet.pc = "idle" /\ Quiet.image = 0 /\ Quiet.old = {} /\ Quiet.gone = {}
      /\ Quiet \in MakerType(asked)
  BY <1>2 DEF Quiet, MakerType, MakerPC
<1>4. GalleryTypeOK'
  BY <1>1, <1>2, <1>3, MakerTyped DEF GalleryInv
<1>5. HandsAreApart'
  <2>1. HandOK(Quiet, files', rows', stuck')
    BY <1>3 DEF HandOK
  <2>2. ASSUME NEW q \in Maker, q # r
        PROVE  HandOK(maker[q], files', rows', stuck') /\ Apart(Quiet, maker[q]) /\ Apart(maker[q], Quiet)
    BY <1>1, <1>3, <2>2 DEF GalleryInv, HandsAreApart, HandOK, Apart
  <2> QED
    BY <1>1, <2>1, <2>2, HandsStay DEF GalleryInv
<1>6. FilesMatch'
  <2>1. /\ \A j \in (rows' \ files') \ cut' : j \in (rows \ files) \ cut /\ ~Prunes(maker[r], j)
        /\ \A j \in (files' \ rows') \ (cut' \cup stuck') :
             j \in (files \ rows) \ (cut \cup stuck) /\ ~Handles(maker[r], j)
    BY <1>1 DEF Prunes, Handles
  <2> QED
    BY <1>1, <2>1, MatchStays DEF GalleryInv
<1>7. QuotaIsKept'
  BY <1>2 DEF QuotaIsKept
<1> QED
  BY <1>4, <1>5, <1>6, <1>7 DEF GalleryInv

\* An image and its row come and go together, and the quota is kept once everybody has
\* finished, however generations, deletions and prunings cross; what requests that
\* were cut had in their hands, and files that could not be removed, is all that may
\* stay behind.
THEOREM GalleryStaysSound == GallerySpec => []GalleryIsSound
<1>1. GalleryInit => GalleryInv
  <2> SUFFICES ASSUME GalleryInit PROVE GalleryInv
    OBVIOUS
  <2>1. /\ rows = {} /\ files = {} /\ asked = 0 /\ cut = {} /\ stuck = {}
        /\ maker = [r \in Maker |-> Quiet]
    BY DEF GalleryInit
  <2>2. /\ Quiet.pc = "idle" /\ Quiet.image = 0 /\ Quiet.old = {} /\ Quiet.gone = {}
        /\ Quiet \in MakerType(0)
    BY DEF Quiet, MakerType, MakerPC
  <2> HIDE DEF Quiet
  <2>3. GalleryTypeOK
    BY <2>1, <2>2 DEF GalleryTypeOK
  <2>4. HandsAreApart
    BY <2>1, <2>2 DEF HandsAreApart, HandOK, Apart
  <2>5. FilesMatch
    BY <2>1 DEF FilesMatch
  <2>6. Cardinality(rows \ Pruned) = 0
    <3>1. rows \ Pruned = {}
      BY <2>1
    <3> QED
      BY <3>1, FS_EmptySet
  <2>7. QuotaIsKept
    BY <2>6, CapAssumption DEF QuotaIsKept
  <2> QED
    BY <2>3, <2>4, <2>5, <2>7 DEF GalleryInv
<1>2. GalleryInv /\ [GalleryNext]_galleryVars => GalleryInv'
  <2> SUFFICES ASSUME GalleryInv, [GalleryNext]_galleryVars PROVE GalleryInv'
    OBVIOUS
  <2>1. CASE GalleryNext
    <3>1. PICK r \in Maker :
            \/ Generate(r) \/ Generated(r) \/ Store(r) \/ EnforceQuota(r) \/ Prune(r)
            \/ DeleteReads(r) \/ DeleteRow(r) \/ RemoveFile(r) \/ CutRequest(r)
      BY <2>1 DEF GalleryNext
    <3> QED
      BY <3>1, GenerateKeeps, GeneratedKeeps, StoreKeeps, EnforceKeeps, PruneKeeps,
         DeleteReadsKeeps, DeleteRowKeeps, RemoveFileKeeps, CutKeeps
  <2>2. CASE UNCHANGED galleryVars
    BY <2>2 DEF GalleryInv, GalleryTypeOK, HandsAreApart, FilesMatch, QuotaIsKept, Pruned, galleryVars
  <2> QED
    BY <2>1, <2>2
<1>3. GalleryInv => GalleryIsSound
  <2> SUFFICES ASSUME GalleryInv PROVE GalleryIsSound
    OBVIOUS
  <2>1. ASSUME NEW i \in (rows \ files) \ cut
        PROVE  \E r \in Maker : MakerAt(r, "pruning") /\ i \in maker[r].old
    BY <2>1 DEF GalleryInv, FilesMatch, Prunes, MakerAt
  <2>2. ASSUME NEW i \in (files \ rows) \ (cut \cup stuck)
        PROVE  \E r \in Maker : maker[r].image = i /\ maker[r].pc \in {"storing", "removing"}
    BY <2>2 DEF GalleryInv, FilesMatch, Handles
  <2>3. ASSUME Cap > 0, cut = {}, \A r \in Maker : MakerAt(r, "idle")
        PROVE  Cardinality(rows) <= Cap
    <3>1. \A r \in Maker : maker[r].pc # "stored" /\ maker[r].old = {}
      BY <2>3 DEF MakerAt, GalleryInv, HandsAreApart, HandOK
    <3>2. rows \ Pruned = rows
      BY <3>1 DEF Pruned
    <3> QED
      BY <2>3, <3>1, <3>2 DEF GalleryInv, QuotaIsKept
  <2> QED
    BY <2>1, <2>2, <2>3 DEF GalleryIsSound
<1> QED
  BY <1>1, <1>2, <1>3, PTL DEF GallerySpec

-----------------------------------------------------------------------------

(***************************************************************************)
(* OkMeansDone for any number of runs, steps and applications.  A request  *)
(* that says ok was executed by an application, and so were the steps that *)
(* a run without failure has behind it.  The events of a run reach an      *)
(* application in the order of its steps, and none before it is asked.     *)
(***************************************************************************)

BridgePC == {"new", "asking", "waiting"} \cup RunEnded
RunType == [pc : BridgePC, kind : {"route", "tool", "action"}, steps : 1..MaxSteps,
            step : 1..MaxSteps, failed : BOOLEAN]
ClientType == [on : BOOLEAN, queue : Seq(StepOf), doing : StepOf \cup {NoEvent},
               result : {"none", "ok", "error"}]

BridgeTypeOK ==
  /\ run \in [Run -> RunType] /\ \A r \in Run : run[r].step <= run[r].steps
  /\ key \in [StepOf -> {"none", "pending", "ok", "error", "gone"}]
  /\ client \in [Client -> ClientType]
  /\ done \in [Client -> Seq(StepOf)]

\* An event that exists was asked for.
WasAsked(all, q) ==
  LET m == all[q[1]] IN q[2] <= m.step /\ (m.pc \in {"new", "asking"} => q[2] < m.step)
AllAsked(all, s) == \A i \in 1..Len(s) : WasAsked(all, s[i])
EventsWereAsked == \A c \in Client : AllAsked(run, client[c].queue) /\ AllAsked(run, done[c])

\* The steps of each run come in their order in s, and in s before t.
InSteps(s) == \A i, j \in 1..Len(s) : i < j /\ s[i][1] = s[j][1] => s[i][2] < s[j][2]
Precedes(s, t) ==
  \A i \in 1..Len(s) : \A j \in 1..Len(t) : s[i][1] = t[j][1] => s[i][2] < t[j][2]
InOrder(d, q) == InSteps(d) /\ InSteps(q) /\ Precedes(d, q)
EventsInSteps == \A c \in Client : InOrder(done[c], client[c].queue)

DoneBy(all, q) == \E c \in Client : \E i \in 1..Len(all[c]) : all[c][i] = q
RunIsTrue(m, r, all) ==
  /\ ~m.failed => \A k \in 1..MaxSteps : k < m.step => DoneBy(all, <<r, k>>)
  /\ m.pc = "ok" => \A k \in 1..m.steps : DoneBy(all, <<r, k>>)
ResultsAreTrue ==
  /\ \A q \in StepOf : key[q] = "ok" => DoneBy(done, q)
  /\ \A c \in Client :
       (client[c].doing # NoEvent /\ client[c].result = "ok") => DoneBy(done, client[c].doing)
  /\ \A r \in Run : RunIsTrue(run[r], r, done)

BridgeInv == BridgeTypeOK /\ EventsWereAsked /\ EventsInSteps /\ ResultsAreTrue

-----------------------------------------------------------------------------

\* The members of what Append, Tail and SubSeq give.
LEMMA SequencesGive ==
  ASSUME NEW S, NEW s \in Seq(S)
  PROVE  /\ \A e \in S :
              /\ Append(s, e) \in Seq(S) /\ Len(Append(s, e)) = Len(s) + 1
              /\ \A i \in 1..Len(s) : Append(s, e)[i] = s[i]
              /\ Append(s, e)[Len(s) + 1] = e
         /\ s # <<>> =>
              /\ Head(s) = s[1] /\ Len(s) >= 1 /\ Head(s) \in S
              /\ Tail(s) \in Seq(S) /\ Len(Tail(s)) = Len(s) - 1
              /\ \A i \in 1..Len(s) - 1 : Tail(s)[i] = s[i + 1]
         /\ \A n \in 0..Len(s) :
              /\ SubSeq(s, 1, n) \in Seq(S) /\ Len(SubSeq(s, 1, n)) = n
              /\ \A i \in 1..n : SubSeq(s, 1, n)[i] = s[i]
         /\ Len(s) \in Nat /\ \A i \in 1..Len(s) : s[i] \in S
  OBVIOUS

\* A new event comes after all others.
LEMMA AskedInOrder ==
  ASSUME NEW d \in Seq(StepOf), NEW q \in Seq(StepOf), NEW e \in StepOf, InOrder(d, q),
         \A i \in 1..Len(d) : d[i][1] = e[1] => d[i][2] < e[2],
         \A i \in 1..Len(q) : q[i][1] = e[1] => q[i][2] < e[2]
  PROVE  InOrder(d, Append(q, e))
<1> DEFINE p == Append(q, e)
<1>1. /\ Len(p) = Len(q) + 1 /\ Len(q) \in Nat /\ Len(d) \in Nat
      /\ \A i \in 1..Len(q) : p[i] = q[i]
      /\ p[Len(q) + 1] = e
  BY SequencesGive
<1> HIDE DEF p
<1>2. \A j \in 1..Len(p) : j \in 1..Len(q) \/ j = Len(q) + 1
  BY <1>1
<1>3. ASSUME NEW i \in 1..Len(p), NEW j \in 1..Len(p), i < j, p[i][1] = p[j][1]
      PROVE  p[i][2] < p[j][2]
  <2>1. i \in 1..Len(q)
    BY <1>1, <1>3
  <2>2. CASE j \in 1..Len(q)
    BY <1>1, <1>3, <2>1, <2>2 DEF InOrder, InSteps
  <2>3. CASE j = Len(q) + 1
    BY <1>1, <1>3, <2>1, <2>3
  <2> QED
    BY <1>2, <2>2, <2>3
<1>4. ASSUME NEW i \in 1..Len(d), NEW j \in 1..Len(p), d[i][1] = p[j][1]
      PROVE  d[i][2] < p[j][2]
  <2>1. CASE j \in 1..Len(q)
    BY <1>1, <1>4, <2>1 DEF InOrder, Precedes
  <2>2. CASE j = Len(q) + 1
    BY <1>1, <1>4, <2>2
  <2> QED
    BY <1>2, <2>1, <2>2
<1>5. InSteps(p) /\ Precedes(d, p) /\ InSteps(d)
  BY <1>3, <1>4 DEF InSteps, Precedes, InOrder
<1> QED
  BY <1>5 DEF InOrder, p

\* The first event is executed, or dropped.
LEMMA DoneInOrder ==
  ASSUME NEW d \in Seq(StepOf), NEW q \in Seq(StepOf), q # <<>>, InOrder(d, q)
  PROVE  InOrder(Append(d, Head(q)), Tail(q)) /\ InOrder(d, Tail(q))
<1> DEFINE t == Tail(q)
           b == Append(d, Head(q))
<1>1. /\ Head(q) = q[1] /\ Head(q) \in StepOf /\ Len(q) >= 1 /\ Len(q) \in Nat
      /\ Len(t) = Len(q) - 1
      /\ \A i \in 1..Len(q) - 1 : t[i] = q[i + 1]
  BY SequencesGive
<1>2. /\ Len(b) = Len(d) + 1 /\ Len(d) \in Nat
      /\ \A i \in 1..Len(d) : b[i] = d[i]
      /\ b[Len(d) + 1] = q[1]
  BY <1>1, SequencesGive
<1> HIDE DEF t, b
<1>3. \A j \in 1..Len(t) : t[j] = q[j + 1] /\ j + 1 \in 1..Len(q) /\ 1 \in 1..Len(q) /\ j >= 1
  BY <1>1
<1>4. InSteps(t)
  <2> SUFFICES ASSUME NEW i \in 1..Len(t), NEW j \in 1..Len(t), i < j, t[i][1] = t[j][1]
               PROVE  t[i][2] < t[j][2]
    BY DEF InSteps
  <2>1. i + 1 < j + 1
    BY <1>1
  <2> QED
    BY <1>3, <2>1 DEF InOrder, InSteps
<1>5. Precedes(d, t)
  BY <1>3 DEF InOrder, Precedes
<1>6. \A i \in 1..Len(b) : i \in 1..Len(d) \/ i = Len(d) + 1
  BY <1>2
<1>7. InSteps(b)
  <2> SUFFICES ASSUME NEW i \in 1..Len(b), NEW j \in 1..Len(b), i < j, b[i][1] = b[j][1]
               PROVE  b[i][2] < b[j][2]
    BY DEF InSteps
  <2>1. i \in 1..Len(d) /\ 1 \in 1..Len(q)
    BY <1>1, <1>2
  <2>2. CASE j \in 1..Len(d)
    BY <1>2, <2>1, <2>2 DEF InOrder, InSteps
  <2>3. CASE j = Len(d) + 1
    BY <1>2, <2>1, <2>3 DEF InOrder, Precedes
  <2> QED
    BY <1>6, <2>2, <2>3
<1>8. Precedes(b, t)
  <2> SUFFICES ASSUME NEW i \in 1..Len(b), NEW j \in 1..Len(t), b[i][1] = t[j][1]
               PROVE  b[i][2] < t[j][2]
    BY DEF Precedes
  <2>1. CASE i \in 1..Len(d)
    BY <1>2, <1>5, <2>1 DEF Precedes
  <2>2. CASE i = Len(d) + 1
    <3>1. 1 < j + 1
      BY <1>1
    <3> QED
      BY <1>2, <1>3, <2>2, <3>1 DEF InOrder, InSteps
  <2> QED
    BY <1>6, <2>1, <2>2
<1>9. InSteps(d)
  BY DEF InOrder
<1> QED
  BY <1>4, <1>5, <1>7, <1>8, <1>9 DEF InOrder, t, b

\* The stream breaks after some events.
LEMMA CutInOrder ==
  ASSUME NEW d \in Seq(StepOf), NEW q \in Seq(StepOf), InOrder(d, q), NEW n \in 0..Len(q)
  PROVE  InOrder(d, SubSeq(q, 1, n)) /\ InOrder(d, <<>>)
<1> DEFINE p == SubSeq(q, 1, n)
<1>1. Len(p) = n /\ \A i \in 1..n : p[i] = q[i] /\ i \in 1..Len(q)
  BY SequencesGive
<1> HIDE DEF p
<1>2. InSteps(p) /\ Precedes(d, p) /\ InSteps(d)
  BY <1>1 DEF InOrder, InSteps, Precedes
<1>3. Len(<<>>) = 0
  OBVIOUS
<1>4. InSteps(<<>>) /\ Precedes(d, <<>>)
  BY <1>3 DEF InSteps, Precedes
<1> QED
  BY <1>2, <1>4 DEF InOrder, p

\* The same for what was asked.
LEMMA AskedStays ==
  ASSUME NEW all, NEW q \in Seq(StepOf), AllAsked(all, q)
  PROVE  /\ AllAsked(all, <<>>)
         /\ \A n \in 0..Len(q) : AllAsked(all, SubSeq(q, 1, n))
         /\ q # <<>> => AllAsked(all, Tail(q)) /\ WasAsked(all, Head(q))
         /\ \A e \in StepOf : WasAsked(all, e) => AllAsked(all, Append(q, e))
<1>1. AllAsked(all, <<>>)
  <2>1. Len(<<>>) = 0
    OBVIOUS
  <2> QED
    BY <2>1 DEF AllAsked
<1>2. ASSUME NEW n \in 0..Len(q) PROVE AllAsked(all, SubSeq(q, 1, n))
  <2>1. /\ Len(SubSeq(q, 1, n)) = n
        /\ \A i \in 1..n : SubSeq(q, 1, n)[i] = q[i] /\ i \in 1..Len(q)
    BY SequencesGive
  <2> QED
    BY <2>1 DEF AllAsked
<1>3. ASSUME q # <<>> PROVE AllAsked(all, Tail(q)) /\ WasAsked(all, Head(q))
  <2>1. /\ Head(q) = q[1] /\ 1 \in 1..Len(q) /\ Len(Tail(q)) = Len(q) - 1
        /\ \A i \in 1..Len(q) - 1 : Tail(q)[i] = q[i + 1] /\ i + 1 \in 1..Len(q)
    BY <1>3, SequencesGive
  <2> QED
    BY <2>1 DEF AllAsked
<1>4. ASSUME NEW e \in StepOf, WasAsked(all, e) PROVE AllAsked(all, Append(q, e))
  <2>1. /\ Len(Append(q, e)) = Len(q) + 1 /\ Len(q) \in Nat
        /\ \A i \in 1..Len(q) : Append(q, e)[i] = q[i]
        /\ Append(q, e)[Len(q) + 1] = e
    BY SequencesGive
  <2>2. \A i \in 1..Len(q) + 1 : i \in 1..Len(q) \/ i = Len(q) + 1
    BY <2>1
  <2> QED
    BY <1>4, <2>1, <2>2 DEF AllAsked
<1> QED
  BY <1>1, <1>2, <1>3, <1>4

\* What was asked of a run remains so when it moves on to m.
LEMMA AskedGoesOn ==
  ASSUME BridgeTypeOK, NEW r \in Run, NEW m \in RunType, run' = [run EXCEPT ![r] = m],
         run[r].step <= m.step,
         (m.step = run[r].step /\ m.pc \in {"new", "asking"}) => run[r].pc \in {"new", "asking"}
  PROVE  \A q \in StepOf : WasAsked(run, q) => WasAsked(run', q)
<1> SUFFICES ASSUME NEW q \in StepOf, WasAsked(run, q) PROVE WasAsked(run', q)
  OBVIOUS
<1>1. q[1] \in Run /\ q[2] \in Nat
  BY DEF StepOf
<1>2. CASE q[1] # r
  <2>1. run'[q[1]] = run[q[1]]
    BY <1>1, <1>2 DEF BridgeTypeOK
  <2> QED
    BY <2>1 DEF WasAsked
<1>3. CASE q[1] = r
  <2>1. run'[q[1]] = m
    BY <1>3 DEF BridgeTypeOK
  <2>2. run[r].step \in Nat /\ m.step \in Nat
    BY StepAssumption DEF BridgeTypeOK, RunType
  <2>3. q[2] <= run[r].step /\ (run[r].pc \in {"new", "asking"} => q[2] < run[r].step)
    BY <1>3 DEF WasAsked
  <2>4. q[2] <= m.step /\ (m.pc \in {"new", "asking"} => q[2] < m.step)
    BY <1>1, <2>2, <2>3
  <2> QED
    BY <2>1, <2>4 DEF WasAsked
<1> QED
  BY <1>2, <1>3

\* One run moves on to m, and nothing else happens.
LEMMA RunMoves ==
  ASSUME BridgeInv, NEW r \in Run, NEW m \in RunType, run' = [run EXCEPT ![r] = m],
         UNCHANGED <<key, client, done>>,
         m.step <= m.steps, run[r].step <= m.step,
         (m.step = run[r].step /\ m.pc \in {"new", "asking"}) => run[r].pc \in {"new", "asking"},
         RunIsTrue(m, r, done)
  PROVE  BridgeInv'
<1>1. run'[r] = m /\ \A p \in Run : p # r => run'[p] = run[p]
  BY DEF BridgeInv, BridgeTypeOK
<1>2. BridgeTypeOK'
  BY <1>1 DEF BridgeInv, BridgeTypeOK
<1>3. EventsWereAsked'
  <2>1. \A q \in StepOf : WasAsked(run, q) => WasAsked(run', q)
    BY AskedGoesOn DEF BridgeInv
  <2>2. \A c \in Client :
          /\ \A i \in 1..Len(client[c].queue) : client[c].queue[i] \in StepOf
          /\ \A i \in 1..Len(done[c]) : done[c][i] \in StepOf
    BY SequencesGive DEF BridgeInv, BridgeTypeOK, ClientType
  <2> QED
    BY <2>1, <2>2 DEF BridgeInv, EventsWereAsked, AllAsked
<1>4. EventsInSteps'
  BY DEF BridgeInv, EventsInSteps
<1>5. ResultsAreTrue'
  <2>1. \A q : DoneBy(done', q) <=> DoneBy(done, q)
    BY DEF DoneBy
  <2>2. ASSUME NEW p \in Run PROVE RunIsTrue(run'[p], p, done')
    BY <1>1, <2>1 DEF RunIsTrue, BridgeInv, ResultsAreTrue
  <2> QED
    BY <2>1, <2>2 DEF BridgeInv, ResultsAreTrue
<1> QED
  BY <1>2, <1>3, <1>4, <1>5 DEF BridgeInv

\* Keys change, and none of them says ok without reason.
LEMMA KeysMove ==
  ASSUME BridgeInv, UNCHANGED <<run, client, done>>,
         key' \in [StepOf -> {"none", "pending", "ok", "error", "gone"}],
         \A q \in StepOf : key'[q] = "ok" => DoneBy(done, q)
  PROVE  BridgeInv'
<1>1. \A q : DoneBy(done', q) <=> DoneBy(done, q)
  BY DEF DoneBy
<1>2. BridgeTypeOK' /\ EventsWereAsked' /\ EventsInSteps'
  BY DEF BridgeInv, BridgeTypeOK, EventsWereAsked, AllAsked, WasAsked, EventsInSteps
<1>3. ResultsAreTrue'
  BY <1>1 DEF BridgeInv, ResultsAreTrue, RunIsTrue
<1> QED
  BY <1>2, <1>3 DEF BridgeInv

\* One application moves on to x, and has executed d.
LEMMA ClientMoves ==
  ASSUME BridgeInv, NEW c \in Client, NEW x \in ClientType, NEW d \in Seq(StepOf),
         client' = [client EXCEPT ![c] = x], done' = [done EXCEPT ![c] = d], UNCHANGED run,
         AllAsked(run, x.queue), AllAsked(run, d), InOrder(d, x.queue),
         \A i \in 1..Len(done[c]) : \E j \in 1..Len(d) : d[j] = done[c][i],
         (x.doing # NoEvent /\ x.result = "ok") => \E j \in 1..Len(d) : d[j] = x.doing,
         key' \in [StepOf -> {"none", "pending", "ok", "error", "gone"}],
         \A q \in StepOf : key'[q] = "ok" => DoneBy(done, q)
  PROVE  BridgeInv'
<1>1. /\ client'[c] = x /\ \A b \in Client : b # c => client'[b] = client[b]
      /\ done'[c] = d /\ \A b \in Client : b # c => done'[b] = done[b]
  BY DEF BridgeInv, BridgeTypeOK
<1>2. BridgeTypeOK'
  BY <1>1 DEF BridgeInv, BridgeTypeOK
<1>3. EventsWereAsked'
  BY <1>1 DEF BridgeInv, EventsWereAsked, AllAsked, WasAsked
<1>4. EventsInSteps'
  BY <1>1 DEF BridgeInv, EventsInSteps
<1>5. \A q : DoneBy(done, q) => DoneBy(done', q)
  <2> SUFFICES ASSUME NEW q, DoneBy(done, q) PROVE DoneBy(done', q)
    OBVIOUS
  <2>1. PICK b \in Client : \E i \in 1..Len(done[b]) : done[b][i] = q
    BY DEF DoneBy
  <2>2. \E i \in 1..Len(done'[b]) : done'[b][i] = q
    BY <1>1, <2>1
  <2> QED
    BY <2>2 DEF DoneBy
<1>6. ResultsAreTrue'
  <2>1. \A q \in StepOf : key'[q] = "ok" => DoneBy(done', q)
    BY <1>5
  <2>2. ASSUME NEW b \in Client, client'[b].doing # NoEvent, client'[b].result = "ok"
        PROVE  DoneBy(done', client'[b].doing)
    <3>1. CASE b = c
      <4>1. \E j \in 1..Len(done'[c]) : done'[c][j] = client'[b].doing
        BY <1>1, <2>2, <3>1
      <4> QED
        BY <4>1 DEF DoneBy
    <3>2. CASE b # c
      BY <1>1, <1>5, <2>2, <3>2 DEF BridgeInv, ResultsAreTrue
    <3> QED
      BY <3>1, <3>2
  <2>3. ASSUME NEW p \in Run PROVE RunIsTrue(run'[p], p, done')
    BY <1>5 DEF RunIsTrue, BridgeInv, ResultsAreTrue
  <2> QED
    BY <2>1, <2>2, <2>3 DEF ResultsAreTrue
<1> QED
  BY <1>2, <1>3, <1>4, <1>6 DEF BridgeInv

\* A run goes to another point.
LEMMA RunGoes ==
  ASSUME BridgeTypeOK, NEW r \in Run, NEW pc \in BridgePC, RunGoto(r, pc)
  PROVE  \E m \in RunType :
           /\ m.pc = pc /\ m.step = run[r].step /\ m.steps = run[r].steps /\ m.failed = run[r].failed
           /\ run' = [run EXCEPT ![r] = m]
<1> DEFINE m == [run[r] EXCEPT !.pc = pc]
<1>1. run[r] \in RunType /\ run' = [run EXCEPT ![r] = m]
  BY DEF BridgeTypeOK, RunGoto
<1>2. m.pc = pc /\ m.step = run[r].step /\ m.steps = run[r].steps /\ m.failed = run[r].failed
  BY <1>1 DEF RunType
<1>3. m \in RunType
  BY <1>1 DEF RunType
<1> HIDE DEF m
<1> QED
  BY <1>1, <1>2, <1>3

\* A run starts, or fails with Redis.
LEMMA RunsKeep ==
  ASSUME BridgeInv, NEW r \in Run,
         RunMacro(r) \/ CallMacro(r) \/ CallAction(r) \/ RedisFails(r)
  PROVE  BridgeInv'
<1>1. /\ UNCHANGED <<key, client, done>>
      /\ \/ run[r].pc = "new" /\ \E pc \in {"asking", "refused"} : RunGoto(r, pc)
         \/ RunGoto(r, "failed")
  BY DEF RunMacro, CallMacro, CallAction, RedisFails, Started, RunAt
<1>2. PICK pc \in {"asking", "refused", "failed"} :
        RunGoto(r, pc) /\ (pc = "asking" => run[r].pc = "new")
  BY <1>1
<1>0. /\ pc \in BridgePC /\ run[r].step \in Nat /\ run[r].step <= run[r].steps
  BY <1>2, StepAssumption DEF BridgeInv, BridgeTypeOK, RunType, BridgePC, RunEnded
<1>3. PICK m \in RunType :
        /\ m.pc = pc /\ m.step = run[r].step /\ m.steps = run[r].steps /\ m.failed = run[r].failed
        /\ run' = [run EXCEPT ![r] = m]
  BY <1>0, <1>2, RunGoes DEF BridgeInv
<1>4. RunIsTrue(m, r, done)
  BY <1>3 DEF RunIsTrue, BridgeInv, ResultsAreTrue
<1>5. /\ m.step <= m.steps /\ run[r].step <= m.step
      /\ (m.step = run[r].step /\ m.pc \in {"new", "asking"}) => run[r].pc \in {"new", "asking"}
  BY <1>0, <1>2, <1>3
<1> QED
  BY <1>1, <1>3, <1>4, <1>5, RunMoves

\* A step has its result: the next one is asked for, or the run ends.
LEMMA ResultsKeep ==
  ASSUME BridgeInv, NEW r \in Run, PollStep(r) \/ TimeOut(r)
  PROVE  BridgeInv'
<1>1. PICK well \in BOOLEAN :
        /\ well => key[Asked(r)] = "ok"
        /\ run[r].pc = "waiting" /\ StepResult(r, well) /\ UNCHANGED <<key, client, done>>
  BY DEF PollStep, TimeOut, RunAt
<1> DEFINE failed == run[r].failed \/ ~well
           last == run[r].step = run[r].steps
           m == [pc |-> IF ~last THEN "asking"
                        ELSE IF run[r].kind = "action" THEN "answered"
                        ELSE IF failed THEN "partial" ELSE "ok",
                 kind |-> run[r].kind, steps |-> run[r].steps, failed |-> failed,
                 step |-> IF last THEN run[r].step ELSE run[r].step + 1]
<1>2. /\ run[r] \in RunType /\ run[r].step <= run[r].steps /\ run[r].step \in Nat
      /\ run[r].steps \in Nat /\ run[r].step \in 1..MaxSteps /\ MaxSteps \in Nat
  BY StepAssumption DEF BridgeInv, BridgeTypeOK, RunType
<1>3. run' = [run EXCEPT ![r] = m]
  BY <1>1 DEF StepResult, BridgeInv, BridgeTypeOK
<1>4. m \in RunType
  <2>1. m.step \in 1..MaxSteps
    BY <1>2 DEF RunType
  <2> QED
    BY <1>2, <2>1 DEF RunType, BridgePC, RunEnded
<1>5. /\ m.steps = run[r].steps
      /\ m.failed <=> run[r].failed \/ ~well
      /\ \/ /\ run[r].step # run[r].steps /\ m.pc = "asking" /\ m.step = run[r].step + 1
         \/ /\ run[r].step = run[r].steps /\ m.step = run[r].step
            /\ m.pc \in {"answered", "partial", "ok"} /\ (m.pc = "ok" => ~m.failed)
  OBVIOUS
<1> HIDE DEF m, failed, last
<1>6. ASSUME ~m.failed, NEW k \in 1..MaxSteps, k <= run[r].step
      PROVE  DoneBy(done, <<r, k>>)
  <2>1. CASE k < run[r].step
    BY <1>5, <1>6, <2>1 DEF BridgeInv, ResultsAreTrue, RunIsTrue
  <2>2. CASE k = run[r].step
    <3>1. Asked(r) = <<r, k>> /\ <<r, k>> \in StepOf
      BY <2>2 DEF Asked, RequestOf, StepOf
    <3>2. key[<<r, k>>] = "ok"
      BY <1>1, <1>5, <1>6, <3>1
    <3> QED
      BY <3>1, <3>2 DEF BridgeInv, ResultsAreTrue
  <2> QED
    BY <1>2, <1>6, <2>1, <2>2
<1>7. RunIsTrue(m, r, done)
  <2>1. ASSUME ~m.failed, NEW k \in 1..MaxSteps, k < m.step PROVE DoneBy(done, <<r, k>>)
    <3>1. k <= run[r].step
      BY <1>2, <1>5, <2>1
    <3> QED
      BY <1>6, <2>1, <3>1
  <2>2. ASSUME m.pc = "ok", NEW k \in 1..m.steps PROVE DoneBy(done, <<r, k>>)
    <3>1. k \in 1..MaxSteps /\ k <= run[r].step /\ ~m.failed
      BY <1>2, <1>5, <2>2
    <3> QED
      BY <1>6, <3>1
  <2> QED
    BY <2>1, <2>2 DEF RunIsTrue
<1>8. /\ m.step <= m.steps /\ run[r].step <= m.step
      /\ (m.step = run[r].step /\ m.pc \in {"new", "asking"}) => run[r].pc \in {"new", "asking"}
  BY <1>2, <1>5
<1> QED
  BY <1>1, <1>3, <1>4, <1>7, <1>8, RunMoves

\* Keys expire, or are lost with Redis.
LEMMA RedisKeeps ==
  ASSUME BridgeInv, (\E q \in StepOf : KeyExpires(q)) \/ RedisRestarts
  PROVE  BridgeInv'
<1>1. /\ UNCHANGED <<run, client, done>>
      /\ key' \in [StepOf -> {"none", "pending", "ok", "error", "gone"}]
      /\ \A q \in StepOf : key'[q] = "ok" => key[q] = "ok"
  BY DEF KeyExpires, RedisRestarts, BridgeInv, BridgeTypeOK
<1> QED
  BY <1>1, KeysMove DEF BridgeInv, ResultsAreTrue

\* A request is written and published: its event is the last of all.
LEMMA AskKeeps ==
  ASSUME BridgeInv, NEW r \in Run, AskStep(r)
  PROVE  BridgeInv'
<1> DEFINE e == <<r, run[r].step>>
<1>1. /\ run[r].pc = "asking" /\ done' = done
      /\ key' = [key EXCEPT ![e] = "pending"]
      /\ client' \in {client,
                      [c \in Client |-> IF client[c].on
                        THEN [client[c] EXCEPT !.queue = Append(client[c].queue, e)]
                        ELSE client[c]]}
  BY DEF AskStep, RunAt, Asked, RequestOf
<1>0. run[r].step \in 1..MaxSteps /\ run[r].step \in Nat
  BY StepAssumption DEF BridgeInv, BridgeTypeOK, RunType
<1>2. PICK m \in RunType :
        /\ m.pc = "waiting" /\ m.step = run[r].step /\ m.steps = run[r].steps
        /\ m.failed = run[r].failed /\ run' = [run EXCEPT ![r] = m]
  BY RunGoes DEF BridgeInv, BridgePC, AskStep
<1>3. e \in StepOf /\ e[1] = r /\ e[2] = run[r].step
  BY <1>0 DEF StepOf
<1> HIDE DEF e
<1>4. /\ run'[r] = m /\ \A p \in Run : p # r => run'[p] = run[p]
  BY <1>2 DEF BridgeInv, BridgeTypeOK
<1>5. \A q \in StepOf : WasAsked(run, q) => WasAsked(run', q)
  <2>1. /\ run[r].step <= m.step
        /\ (m.step = run[r].step /\ m.pc \in {"new", "asking"}) => run[r].pc \in {"new", "asking"}
    BY <1>0, <1>2
  <2> QED
    BY <1>2, <2>1, AskedGoesOn DEF BridgeInv
<1>6. WasAsked(run', e)
  BY <1>0, <1>2, <1>3, <1>4 DEF WasAsked
<1>7. ASSUME NEW s \in Seq(StepOf), AllAsked(run, s)
      PROVE  AllAsked(run', s) /\ \A i \in 1..Len(s) : s[i][1] = e[1] => s[i][2] < e[2]
  <2>1. \A i \in 1..Len(s) : s[i] \in StepOf /\ WasAsked(run, s[i])
    BY <1>7, SequencesGive DEF AllAsked
  <2> QED
    BY <1>1, <1>3, <1>5, <2>1 DEF AllAsked, WasAsked
<1>8. ASSUME NEW c \in Client
      PROVE  /\ client'[c] \in ClientType
             /\ client'[c].doing = client[c].doing /\ client'[c].result = client[c].result
             /\ client'[c].queue \in {client[c].queue, Append(client[c].queue, e)}
  <2>1. client[c] \in ClientType /\ client[c].queue \in Seq(StepOf)
    BY DEF BridgeInv, BridgeTypeOK, ClientType
  <2>2. Append(client[c].queue, e) \in Seq(StepOf)
    BY <1>3, <2>1, SequencesGive
  <2>3. client'[c] \in {client[c], [client[c] EXCEPT !.queue = Append(client[c].queue, e)]}
    BY <1>1
  <2> QED
    BY <2>1, <2>2, <2>3 DEF ClientType
<1>9. BridgeTypeOK'
  <2>1. client' \in [Client -> ClientType]
    BY <1>1, <1>8 DEF BridgeInv, BridgeTypeOK
  <2>2. key' \in [StepOf -> {"none", "pending", "ok", "error", "gone"}]
    BY <1>1, <1>3 DEF BridgeInv, BridgeTypeOK
  <2>3. run' \in [Run -> RunType] /\ \A p \in Run : run'[p].step <= run'[p].steps
    BY <1>2, <1>4 DEF BridgeInv, BridgeTypeOK
  <2> QED
    BY <1>1, <2>1, <2>2, <2>3 DEF BridgeInv, BridgeTypeOK
<1>10. ASSUME NEW c \in Client
       PROVE  /\ AllAsked(run', client'[c].queue) /\ AllAsked(run', done[c])
              /\ InOrder(done[c], client'[c].queue)
  <2>1. client[c].queue \in Seq(StepOf) /\ done[c] \in Seq(StepOf)
    BY DEF BridgeInv, BridgeTypeOK, ClientType
  <2>2. AllAsked(run, client[c].queue) /\ AllAsked(run, done[c]) /\ InOrder(done[c], client[c].queue)
    BY DEF BridgeInv, EventsWereAsked, EventsInSteps
  <2>3. AllAsked(run', client[c].queue) /\ AllAsked(run', done[c])
    BY <1>7, <2>1, <2>2
  <2>4. AllAsked(run', Append(client[c].queue, e))
    BY <1>3, <1>6, <2>1, <2>3, AskedStays
  <2>5. InOrder(done[c], Append(client[c].queue, e))
    <3>1. /\ \A i \in 1..Len(done[c]) : done[c][i][1] = e[1] => done[c][i][2] < e[2]
          /\ \A i \in 1..Len(client[c].queue) :
               client[c].queue[i][1] = e[1] => client[c].queue[i][2] < e[2]
      BY <1>7, <2>1, <2>2
    <3> QED
      BY <1>3, <2>1, <2>2, <3>1, AskedInOrder
  <2> QED
    BY <1>8, <2>2, <2>3, <2>4, <2>5
<1>11. EventsWereAsked' /\ EventsInSteps'
  BY <1>1, <1>10 DEF EventsWereAsked, EventsInSteps
<1>12. ResultsAreTrue'
  <2>1. \A q \in StepOf : key'[q] = "ok" => key[q] = "ok"
    BY <1>1 DEF BridgeInv, BridgeTypeOK
  <2>2. ASSUME NEW p \in Run PROVE RunIsTrue(run'[p], p, done)
    BY <1>2, <1>4 DEF BridgeInv, ResultsAreTrue, RunIsTrue
  <2> QED
    BY <1>1, <1>8, <2>1, <2>2 DEF BridgeInv, ResultsAreTrue
<1> QED
  BY <1>9, <1>11, <1>12 DEF BridgeInv

\* What BridgeInv says of one application.
LEMMA ClientShape ==
  ASSUME BridgeInv, NEW c \in Client
  PROVE  /\ client[c] \in ClientType /\ client[c].queue \in Seq(StepOf) /\ done[c] \in Seq(StepOf)
         /\ AllAsked(run, client[c].queue) /\ AllAsked(run, done[c])
         /\ InOrder(done[c], client[c].queue)
         /\ done = [done EXCEPT ![c] = done[c]]
         /\ (client[c].doing # NoEvent /\ client[c].result = "ok") => DoneBy(done, client[c].doing)
         /\ key \in [StepOf -> {"none", "pending", "ok", "error", "gone"}]
         /\ \A q \in StepOf : key[q] = "ok" => DoneBy(done, q)
  BY DEF BridgeInv, BridgeTypeOK, EventsWereAsked, EventsInSteps, ResultsAreTrue, ClientType

\* A stream opens, breaks, or ends with its application; a result is posted.
LEMMA ApplicationsKeep ==
  ASSUME BridgeInv, NEW c \in Client,
         Listen(c) \/ BreakStream(c) \/ CloseApp(c) \/ PostResult(c)
  PROVE  BridgeInv'
<1>1. UNCHANGED <<run, done>>
  BY DEF Listen, BreakStream, CloseApp, PostResult
<1>2. /\ key' \in [StepOf -> {"none", "pending", "ok", "error", "gone"}]
      /\ \A q \in StepOf : key'[q] = "ok" => DoneBy(done, q)
  <2>1. CASE key' = key
    BY <2>1, ClientShape
  <2>2. CASE key' # key
    <3>1. PostResult(c)
      BY <2>2 DEF Listen, BreakStream, CloseApp
    <3> DEFINE q == <<client[c].doing[1], client[c].doing[2]>>
    <3>2. /\ key' = [key EXCEPT ![q] = client[c].result] /\ client[c].doing # NoEvent
      BY <2>2, <3>1 DEF PostResult, RequestOf
    <3>3. client[c].doing \in StepOf /\ client[c].result \in {"none", "ok", "error"}
      BY <3>2, ClientShape DEF ClientType
    <3>4. q = client[c].doing
      BY <3>3 DEF StepOf
    <3> HIDE DEF q
    <3> QED
      BY <3>2, <3>3, <3>4, ClientShape
  <2> QED
    BY <2>1, <2>2
<1>3. PICK x \in ClientType :
        /\ client' = [client EXCEPT ![c] = x]
        /\ AllAsked(run, x.queue) /\ InOrder(done[c], x.queue)
        /\ (x.doing # NoEvent /\ x.result = "ok") =>
             (x.doing = client[c].doing /\ x.result = client[c].result)
  <2>0. /\ client[c] \in ClientType /\ client[c].queue \in Seq(StepOf) /\ done[c] \in Seq(StepOf)
        /\ AllAsked(run, client[c].queue) /\ InOrder(done[c], client[c].queue)
    BY ClientShape
  <2>1. CASE Listen(c)
    <3> DEFINE x == [client[c] EXCEPT !.on = TRUE]
    <3>1. client' = [client EXCEPT ![c] = x]
      BY <2>1 DEF Listen
    <3>2. /\ x.queue = client[c].queue /\ x.doing = client[c].doing /\ x.result = client[c].result
          /\ x \in ClientType
      BY <2>0 DEF ClientType
    <3> HIDE DEF x
    <3> QED
      BY <2>0, <3>1, <3>2
  <2>2. CASE BreakStream(c)
    <3>1. PICK n \in 0..Len(client[c].queue) :
            client' = [client EXCEPT ![c] = [on |-> FALSE, queue |-> SubSeq(client[c].queue, 1, n),
                                             doing |-> client[c].doing, result |-> client[c].result]]
      BY <2>2 DEF BreakStream, BridgeInv, BridgeTypeOK
    <3> DEFINE x == [on |-> FALSE, queue |-> SubSeq(client[c].queue, 1, n),
                     doing |-> client[c].doing, result |-> client[c].result]
    <3>2. SubSeq(client[c].queue, 1, n) \in Seq(StepOf)
      BY <2>0, SequencesGive
    <3>3. x \in ClientType
      BY <2>0, <3>2 DEF ClientType
    <3>4. AllAsked(run, x.queue) /\ InOrder(done[c], x.queue)
      BY <2>0, AskedStays, CutInOrder
    <3> QED
      BY <3>1, <3>3, <3>4
  <2>3. CASE CloseApp(c)
    <3> DEFINE x == [on |-> FALSE, queue |-> <<>>, doing |-> NoEvent, result |-> "none"]
    <3>1. client' = [client EXCEPT ![c] = x]
      BY <2>3 DEF CloseApp
    <3>2. x \in ClientType /\ x.queue = <<>> /\ x.doing = NoEvent
      BY DEF ClientType
    <3>3. AllAsked(run, <<>>) /\ InOrder(done[c], <<>>)
      <4>1. 0 \in 0..Len(client[c].queue)
        BY <2>0, SequencesGive
      <4> QED
        BY <2>0, <4>1, AskedStays, CutInOrder
    <3> HIDE DEF x
    <3> QED
      BY <3>1, <3>2, <3>3
  <2>4. CASE PostResult(c)
    <3> DEFINE x == [on |-> client[c].on, queue |-> client[c].queue, doing |-> NoEvent,
                     result |-> "none"]
    <3>1. client' = [client EXCEPT ![c] = x]
      BY <2>4 DEF PostResult, BridgeInv, BridgeTypeOK
    <3>2. x \in ClientType /\ x.queue = client[c].queue /\ x.doing = NoEvent
      BY <2>0 DEF ClientType
    <3> HIDE DEF x
    <3> QED
      BY <2>0, <3>1, <3>2
  <2> QED
    BY <2>1, <2>2, <2>3, <2>4
<1>5. /\ BridgeTypeOK' /\ EventsWereAsked' /\ EventsInSteps'
      /\ client'[c] = x /\ \A b \in Client : b # c => client'[b] = client[b]
  <2>1. /\ client'[c] = x /\ \A b \in Client : b # c => client'[b] = client[b]
        /\ client' \in [Client -> ClientType]
    BY <1>3 DEF BridgeInv, BridgeTypeOK
  <2> QED
    BY <1>1, <1>2, <1>3, <2>1
       DEF BridgeInv, BridgeTypeOK, EventsWereAsked, EventsInSteps
<1>6. ResultsAreTrue'
  <2>1. ASSUME NEW b \in Client, client'[b].doing # NoEvent, client'[b].result = "ok"
        PROVE  DoneBy(done, client'[b].doing)
    <3>1. client'[b].doing = client[b].doing /\ client'[b].result = client[b].result
      BY <1>3, <1>5, <2>1
    <3> QED
      BY <2>1, <3>1, ClientShape
  <2> QED
    BY <1>1, <1>2, <2>1 DEF ResultsAreTrue, BridgeInv
<1> QED
  BY <1>5, <1>6 DEF BridgeInv

\* An event leaves its queue, and is executed well or not.
LEMMA ExecuteKeeps ==
  ASSUME BridgeInv, NEW c \in Client, ExecuteStep(c)
  PROVE  BridgeInv'
<1> DEFINE q == client[c].queue
           e == Head(q)
<1>1. /\ client[c] \in ClientType /\ q \in Seq(StepOf) /\ done[c] \in Seq(StepOf)
      /\ AllAsked(run, q) /\ AllAsked(run, done[c]) /\ InOrder(done[c], q)
      /\ q # <<>> /\ UNCHANGED <<run, key>>
  BY ClientShape DEF ExecuteStep
<1>2. PICK result \in {"ok", "error"} :
        /\ client' = [client EXCEPT ![c] = [on |-> client[c].on, queue |-> Tail(q),
                                            doing |-> e, result |-> result]]
        /\ done' = IF result = "ok" THEN [done EXCEPT ![c] = Append(done[c], e)] ELSE done
  BY DEF ExecuteStep, BridgeInv, BridgeTypeOK
<1> DEFINE x == [on |-> client[c].on, queue |-> Tail(q), doing |-> e, result |-> result]
           d == IF result = "ok" THEN Append(done[c], e) ELSE done[c]
<1>3. e \in StepOf /\ Tail(q) \in Seq(StepOf)
  BY <1>1, SequencesGive
<1>4. /\ x \in ClientType /\ x.queue = Tail(q) /\ x.doing = e /\ x.result = result
      /\ client' = [client EXCEPT ![c] = x]
  BY <1>1, <1>2, <1>3 DEF ClientType
<1>5. /\ AllAsked(run, Tail(q)) /\ WasAsked(run, e)
      /\ InOrder(Append(done[c], e), Tail(q)) /\ InOrder(done[c], Tail(q))
  BY <1>1, AskedStays, DoneInOrder
<1>6. AllAsked(run, Append(done[c], e))
  BY <1>1, <1>3, <1>5, AskedStays
<1>7. /\ Append(done[c], e) \in Seq(StepOf)
      /\ \A i \in 1..Len(done[c]) :
           i \in 1..Len(Append(done[c], e)) /\ Append(done[c], e)[i] = done[c][i]
      /\ Append(done[c], e)[Len(done[c]) + 1] = e
      /\ Len(done[c]) + 1 \in 1..Len(Append(done[c], e))
  <2>1. /\ Append(done[c], e) \in Seq(StepOf) /\ Len(Append(done[c], e)) = Len(done[c]) + 1
        /\ \A i \in 1..Len(done[c]) : Append(done[c], e)[i] = done[c][i]
        /\ Append(done[c], e)[Len(done[c]) + 1] = e /\ Len(done[c]) \in Nat
    BY <1>1, <1>3, SequencesGive
  <2> QED
    BY <2>1
<1>8. done' = [done EXCEPT ![c] = d]
  BY <1>2, ClientShape
<1> HIDE DEF x, e, q
<1>9. /\ d \in Seq(StepOf) /\ AllAsked(run, d) /\ InOrder(d, x.queue)
      /\ \A i \in 1..Len(done[c]) : \E j \in 1..Len(d) : d[j] = done[c][i]
      /\ (x.doing # NoEvent /\ x.result = "ok") => \E j \in 1..Len(d) : d[j] = x.doing
  <2>1. CASE result = "ok"
    <3>1. d = Append(done[c], e)
      BY <2>1
    <3> HIDE DEF d
    <3> QED
      BY <1>4, <1>5, <1>6, <1>7, <3>1
  <2>2. CASE result # "ok"
    <3>1. d = done[c]
      BY <2>2
    <3> HIDE DEF d
    <3> QED
      BY <1>1, <1>4, <1>5, <2>2, <3>1
  <2> QED
    BY <2>1, <2>2
<1>10. /\ key' \in [StepOf -> {"none", "pending", "ok", "error", "gone"}]
       /\ \A p \in StepOf : key'[p] = "ok" => DoneBy(done, p)
  BY <1>1, ClientShape
<1> HIDE DEF d
<1>11. /\ UNCHANGED run /\ x \in ClientType /\ client' = [client EXCEPT ![c] = x]
       /\ AllAsked(run, x.queue)
  BY <1>1, <1>4, <1>5
<1> QED
  BY <1>8, <1>9, <1>10, <1>11, ClientMoves

\* A run that answers ok had all its steps executed, in their order on each application,
\* however many applications listen, and whatever is late, lost, repeated or expired.
THEOREM OkRunsWereDone == BridgeSpec => []OkMeansDone
<1>1. BridgeInit => BridgeInv
  <2> SUFFICES ASSUME BridgeInit PROVE BridgeInv
    OBVIOUS
  <2> DEFINE Fresh == [pc : {"new"}, kind : {"route", "tool", "action"}, steps : 1..MaxSteps,
                       step : {1}, failed : {FALSE}]
  <2>0. run \in [Run -> Fresh]
    BY DEF BridgeInit
  <2>1. \A r \in Run : /\ run[r] \in RunType /\ run[r].step = 1 /\ run[r].pc = "new"
                       /\ run[r].step <= run[r].steps
    <3>1. 1 \in 1..MaxSteps
      BY StepAssumption
    <3>2. Fresh \subseteq RunType
      BY <3>1 DEF RunType, BridgePC
    <3>3. \A m \in Fresh : m.step = 1 /\ m.pc = "new" /\ m.step <= m.steps
      OBVIOUS
    <3> HIDE DEF Fresh
    <3> QED
      BY <2>0, <3>2, <3>3
  <2>2. BridgeTypeOK
    <3>1. run \in [Run -> RunType]
      <4> HIDE DEF Fresh
      <4> QED
        BY <2>0, <2>1
    <3>2. client \in [Client -> ClientType] /\ done \in [Client -> Seq(StepOf)]
      BY DEF BridgeInit, ClientType
    <3>3. key \in [StepOf -> {"none", "pending", "ok", "error", "gone"}]
      BY DEF BridgeInit
    <3> QED
      BY <2>1, <3>1, <3>2, <3>3 DEF BridgeTypeOK
  <2>3. \A c \in Client : /\ client[c].queue = <<>> /\ done[c] = <<>> /\ client[c].doing = NoEvent
    BY DEF BridgeInit
  <2>4. Len(<<>>) = 0
    OBVIOUS
  <2>5. EventsWereAsked /\ EventsInSteps
    BY <2>3, <2>4 DEF EventsWereAsked, AllAsked, EventsInSteps, InOrder, InSteps, Precedes
  <2>6. ResultsAreTrue
    <3>1. \A q \in StepOf : key[q] # "ok"
      BY DEF BridgeInit
    <3>2. \A r \in Run : RunIsTrue(run[r], r, done)
      BY <2>1 DEF RunIsTrue
    <3> QED
      BY <2>3, <3>1, <3>2 DEF ResultsAreTrue
  <2> QED
    BY <2>2, <2>5, <2>6 DEF BridgeInv
<1>2. BridgeInv /\ [BridgeNext]_bridgeVars => BridgeInv'
  <2> SUFFICES ASSUME BridgeInv, [BridgeNext]_bridgeVars PROVE BridgeInv'
    OBVIOUS
  <2>1. ASSUME NEW r \in Run, RunMacro(r) \/ CallMacro(r) \/ CallAction(r) \/ RedisFails(r)
        PROVE  BridgeInv'
    BY <2>1, RunsKeep
  <2>2. ASSUME NEW r \in Run, AskStep(r) PROVE BridgeInv'
    BY <2>2, AskKeeps
  <2>3. ASSUME NEW r \in Run, PollStep(r) \/ TimeOut(r) PROVE BridgeInv'
    BY <2>3, ResultsKeep
  <2>4. CASE (\E q \in StepOf : KeyExpires(q)) \/ RedisRestarts
    BY <2>4, RedisKeeps
  <2>5. ASSUME NEW c \in Client, Listen(c) \/ BreakStream(c) \/ CloseApp(c) \/ PostResult(c)
        PROVE  BridgeInv'
    BY <2>5, ApplicationsKeep
  <2>6. ASSUME NEW c \in Client, ExecuteStep(c) PROVE BridgeInv'
    BY <2>6, ExecuteKeeps
  <2>7. CASE CapsExpire \/ Hello \/ UNCHANGED bridgeVars
    <3>1. UNCHANGED <<run, key, client, done>>
      BY <2>7 DEF CapsExpire, Hello, bridgeVars
    <3> QED
      BY <3>1 DEF BridgeInv, BridgeTypeOK, EventsWereAsked, EventsInSteps, ResultsAreTrue
  <2> QED
    BY <2>1, <2>2, <2>3, <2>4, <2>5, <2>6, <2>7 DEF BridgeNext
<1>3. BridgeInv => OkMeansDone
  <2> SUFFICES ASSUME BridgeInv, NEW r \in Run, RunAt(r, "ok")
               PROVE  /\ \A k \in 1..run[r].steps : \E c \in Client : Contains(done[c], <<r, k>>)
                      /\ \A c \in Client : \A i, j \in 1..Len(done[c]) :
                           (i < j /\ done[c][i][1] = r /\ done[c][j][1] = r) =>
                             done[c][i][2] < done[c][j][2]
    BY DEF OkMeansDone
  <2>1. \A k \in 1..run[r].steps : DoneBy(done, <<r, k>>)
    BY DEF BridgeInv, ResultsAreTrue, RunIsTrue, RunAt
  <2>2. \A c \in Client : InSteps(done[c])
    BY DEF BridgeInv, EventsInSteps, InOrder
  <2> QED
    BY <2>1, <2>2 DEF DoneBy, Contains, InSteps
<1> QED
  BY <1>1, <1>2, <1>3, PTL DEF BridgeSpec

-----------------------------------------------------------------------------

(***************************************************************************)
(* What chunk_text cuts, for a text of any length: every sentence once and *)
(* in order, in chunks that do not exceed the target unless an item does.  *)
(***************************************************************************)

\* A sum is made step by step.
Sums(sum, sizes) == sum[0] = 0 /\ \A i \in 1 .. Len(sizes) : sum[i] = sum[i - 1] + sizes[i]

LEMMA TotalSums ==
  ASSUME NEW sizes \in Seq(Nat)
  PROVE  \E sum : Sums(sum, sizes) /\ Total(sizes) = sum[Len(sizes)]
<1> DEFINE n == Len(sizes)
           step == [i \in 1 .. n |-> [x \in Nat |-> x + sizes[i]]]
           Eq(f) == f = [i \in 0 .. n |-> IF i = 0 THEN 0 ELSE f[i - 1] + sizes[i]]
           sum == CHOOSE f : Eq(f)
<1>1. n \in Nat /\ 0 \in Nat /\ \A i \in 1 .. n : sizes[i] \in Nat
  OBVIOUS
<1>2. step \in [1 .. n -> [Nat -> Nat]]
  <2>1. \A i \in 1 .. n : [x \in Nat |-> x + sizes[i]] \in [Nat -> Nat]
    BY <1>1
  <2> QED
    BY <2>1
<1>3. PICK f \in [0 .. n -> Nat] : Computes(f, n, 0, step)
  <2> HIDE DEF n, step
  <2> QED
    BY <1>1, <1>2, Iterated
<1>4. f[0] = 0 /\ \A i \in 1 .. n : f[i] = f[i - 1] + sizes[i]
  <2>0. \A i \in 1 .. n : i - 1 \in 0 .. n
    BY <1>1
  <2>1. \A i \in 1 .. n : f[i - 1] \in Nat /\ f[i] = step[i][f[i - 1]]
    <3> HIDE DEF n, step
    <3> QED
      BY <2>0, <1>3 DEF Computes
  <2>2. \A i \in 1 .. n : \A x \in Nat : step[i][x] = x + sizes[i]
    OBVIOUS
  <2> QED
    BY <1>3, <2>1, <2>2 DEF Computes
<1>5. Eq(f)
  BY <1>4
<1>6. Eq(sum)
  <2> HIDE DEF Eq
  <2> QED
    BY <1>5
<1>7. Total(sizes) = sum[n]
  BY DEF Total
<1> HIDE DEF sum
<1>8. sum[0] = 0 /\ \A i \in 1 .. n : sum[i] = sum[i - 1] + sizes[i]
  <2>1. \A i \in 0 .. n : sum[i] = IF i = 0 THEN 0 ELSE sum[i - 1] + sizes[i]
    BY <1>6
  <2> QED
    BY <1>1, <2>1
<1> QED
  BY <1>7, <1>8 DEF Sums

\* Nothing has no size.
LEMMA TotalNone == Total(<< >>) = 0
<1>1. PICK sum : Sums(sum, << >>) /\ Total(<< >>) = sum[Len(<< >>)]
  <2>1. << >> \in Seq(Nat)
    OBVIOUS
  <2> QED
    BY <2>1, TotalSums
<1> QED
  BY <1>1 DEF Sums

\* One more size.
LEMMA TotalAppend ==
  ASSUME NEW s \in Seq(Nat), NEW x \in Nat
  PROVE  Total(s) \in Nat /\ Total(Append(s, x)) = Total(s) + x
<1> DEFINE n == Len(s)
           t == Append(s, x)
<1>1. n \in Nat /\ t \in Seq(Nat) /\ Len(t) = n + 1 /\ t[n + 1] = x /\ \A i \in 1 .. n : t[i] = s[i] /\ s[i] \in Nat
  OBVIOUS
<1>2. PICK f : Sums(f, s) /\ Total(s) = f[n]
  BY TotalSums
<1>3. PICK g : Sums(g, t) /\ Total(t) = g[Len(t)]
  <2> HIDE DEF t
  <2> QED
    BY <1>1, TotalSums
<1> HIDE DEF t
<1> DEFINE T == {i \in 0 .. n : f[i] = g[i] /\ f[i] \in Nat}
<1>4. 0 \in T
  BY <1>1, <1>2, <1>3 DEF Sums
<1>5. ASSUME NEW i \in 1 .. n, i - 1 \in T
      PROVE  i \in T
  <2>1. i \in 1 .. Len(s) /\ i \in 1 .. Len(t) /\ t[i] = s[i] /\ s[i] \in Nat /\ i \in 0 .. n
    BY <1>1
  <2>2. f[i] = f[i - 1] + s[i] /\ g[i] = g[i - 1] + s[i]
    BY <1>2, <1>3, <2>1 DEF Sums
  <2>3. f[i - 1] = g[i - 1] /\ f[i - 1] \in Nat
    BY <1>5
  <2>4. f[i] = g[i] /\ f[i] \in Nat
    BY <2>1, <2>2, <2>3
  <2> QED
    BY <2>1, <2>4
<1>6. n \in T
  <2>1. \A i \in 1 .. n : i - 1 \in T => i \in T
    BY <1>5
  <2> HIDE DEF T
  <2>2. 0 .. n \subseteq T
    <3> HIDE DEF n
    <3> QED
      BY <1>1, <1>4, <2>1, UpTo
  <2>3. n \in 0 .. n
    BY <1>1
  <2> QED
    BY <2>2, <2>3
<1>7. g[n + 1] = g[n] + x
  <2>1. n + 1 \in 1 .. Len(t)
    BY <1>1
  <2>2. g[n + 1] = g[n + 1 - 1] + t[n + 1]
    BY <1>3, <2>1 DEF Sums
  <2> QED
    BY <1>1, <2>2
<1>8. Total(s) \in Nat /\ Total(t) = Total(s) + x
  BY <1>1, <1>2, <1>3, <1>6, <1>7
<1> QED
  BY <1>8 DEF t

\* The ranges of sentences there are in a text, and the sentences of each.
Ranges(text) ==
  {x \in [para : Nat, from : Nat, to : Nat] :
     x.para \in DOMAIN text /\ 1 <= x.from /\ x.from <= x.to /\ x.to <= Len(text[x.para])}
Between(p, a, b) == [s \in 1 .. b - a + 1 |-> <<p, a + s - 1>>]
Of(text) == [x \in Ranges(text) |-> Between(x.para, x.from, x.to)]
Sentence == Nat \X Nat

\* A range says which sentences it has.
LEMMA OfMaps == ASSUME NEW text PROVE Maps(Of(text), Ranges(text), Sentence)
<1>1. ASSUME NEW x \in Ranges(text)
      PROVE  Between(x.para, x.from, x.to) \in Seq(Sentence)
  <2> DEFINE a == x.from
             b == x.to
             p == x.para
             n == b - a + 1
  <2>1. a \in Nat /\ b \in Nat /\ p \in Nat /\ 1 <= a /\ a <= b
    BY DEF Ranges
  <2> HIDE DEF a, b, p
  <2>2. n \in Nat
    BY <2>1
  <2>3. \A s \in 1 .. n : a + s - 1 \in Nat
    BY <2>1
  <2>4. \A s \in 1 .. n : <<p, a + s - 1>> \in Sentence
    BY <2>1, <2>3 DEF Sentence
  <2>5. [s \in 1 .. n |-> <<p, a + s - 1>>] \in Seq(Sentence)
    <3> HIDE DEF n
    <3> QED
      BY <2>2, <2>4
  <2> QED
    BY <2>5 DEF Between, a, b, p
<1> QED
  BY <1>1 DEF Maps, Of

\* One more sentence of a paragraph.
LEMMA BetweenGrows ==
  ASSUME NEW p \in Nat, NEW a \in Nat, NEW b \in Nat, 1 <= a, a <= b + 1
  PROVE  /\ Between(p, a, b) \in Seq(Sentence)
         /\ Between(p, a, b + 1) = Between(p, a, b) \o << <<p, b + 1>> >>
         /\ Between(p, b + 1, b + 1) = << <<p, b + 1>> >>
<1> DEFINE n == b - a + 1
           u == Between(p, a, b)
           v == << <<p, b + 1>> >>
           w == Between(p, a, b + 1)
<1>1. n \in Nat /\ b + 1 - a + 1 = n + 1
  OBVIOUS
<1>2. \A s \in 1 .. n + 1 : a + s - 1 \in Nat
  BY <1>1
<1>3. u \in Seq(Sentence) /\ Len(u) = n
  <2>1. u = [s \in 1 .. n |-> <<p, a + s - 1>>]
    BY DEF Between
  <2>2. \A s \in 1 .. n : <<p, a + s - 1>> \in Sentence
    <3>1. \A s \in 1 .. n : s \in 1 .. n + 1
      BY <1>1
    <3> QED
      BY <1>2, <3>1 DEF Sentence
  <2> HIDE DEF n, u
  <2>3. n \in Nat
    BY <1>1
  <2>4. [s \in 1 .. n |-> <<p, a + s - 1>>] \in Seq(Sentence)
    BY <2>2, <2>3
  <2>5. Len([s \in 1 .. n |-> <<p, a + s - 1>>]) = n
    BY <2>3
  <2> QED
    BY <2>1, <2>4, <2>5
<1>4. w = [s \in 1 .. n + 1 |-> <<p, a + s - 1>>]
  BY <1>1 DEF Between
<1>5. v \in Seq(Sentence) /\ Len(v) = 1 /\ v[1] = <<p, b + 1>>
  BY DEF Sentence
<1>6. u \o v \in Seq(Sentence) /\ Len(u \o v) = n + 1
      /\ \A s \in 1 .. n + 1 : (u \o v)[s] = IF s <= n THEN u[s] ELSE v[s - n]
  <2> HIDE DEF u, v, n
  <2>1. u \in Seq(Sentence)
    BY <1>3
  <2>2. v \in Seq(Sentence)
    BY <1>5
  <2>3. u \o v \in Seq(Sentence)
    BY <2>1, <2>2
  <2>a. Len(u) = n /\ Len(v) = 1
    BY <1>3, <1>5
  <2>b. /\ Len(u \o v) = Len(u) + Len(v)
        /\ \A s \in 1 .. Len(u) + Len(v) : (u \o v)[s] = IF s <= Len(u) THEN u[s] ELSE v[s - Len(u)]
    BY <2>1, <2>2, ConcatProperties
  <2>4. Len(u \o v) = n + 1
    BY <2>a, <2>b
  <2>5. \A s \in 1 .. n + 1 : (u \o v)[s] = IF s <= n THEN u[s] ELSE v[s - n]
    BY <2>a, <2>b
  <2> QED
    BY <2>3, <2>4, <2>5
<1>7. \A s \in 1 .. n + 1 : w[s] = (u \o v)[s]
  <2> SUFFICES ASSUME NEW s \in 1 .. n + 1
               PROVE  w[s] = (u \o v)[s]
    OBVIOUS
  <2>1. w[s] = <<p, a + s - 1>>
    BY <1>4
  <2>2. CASE s <= n
    <3>1. s \in 1 .. n
      BY <1>1, <2>2
    <3>2. u[s] = <<p, a + s - 1>>
      BY <3>1 DEF Between
    <3> HIDE DEF u, v, n, w
    <3> QED
      BY <1>6, <2>1, <2>2, <3>2
  <2>3. CASE s > n
    <3>1. s = n + 1 /\ s - n = 1 /\ a + s - 1 = b + 1 /\ ~(s <= n)
      BY <1>1, <2>3
    <3> HIDE DEF u, v, n, w
    <3> QED
      BY <1>5, <1>6, <2>1, <3>1
  <2>4. s <= n \/ s > n
    BY <1>1
  <2> HIDE DEF u, v, w, n
  <2> QED
    BY <2>2, <2>3, <2>4
<1>8. w \in Seq(Sentence) /\ Len(w) = n + 1
  <2>1. \A s \in 1 .. n + 1 : <<p, a + s - 1>> \in Sentence
    BY <1>2 DEF Sentence
  <2> HIDE DEF w, n
  <2>2. n + 1 \in Nat
    BY <1>1
  <2> DEFINE m == n + 1
  <2> HIDE DEF m
  <2>3. [s \in 1 .. m |-> <<p, a + s - 1>>] \in Seq(Sentence) /\ Len([s \in 1 .. m |-> <<p, a + s - 1>>]) = m
    <3>1. \A s \in 1 .. m : <<p, a + s - 1>> \in Sentence
      BY <2>1 DEF m
    <3>2. m \in Nat
      BY <2>2 DEF m
    <3>3. [s \in 1 .. m |-> <<p, a + s - 1>>] \in Seq(Sentence)
      BY <3>1, <3>2
    <3>4. Len([s \in 1 .. m |-> <<p, a + s - 1>>]) = m
      BY <3>2
    <3> QED
      BY <3>3, <3>4
  <2>4. w = [s \in 1 .. m |-> <<p, a + s - 1>>]
    BY <1>4 DEF m
  <2> QED
    BY <2>3, <2>4 DEF m
<1>9. w = u \o v
  <2> HIDE DEF w, u, v, n
  <2> QED
    BY <1>6, <1>7, <1>8
<1>10. Between(p, b + 1, b + 1) = v
  <2>1. b + 1 - (b + 1) + 1 = 1 /\ b + 1 + 1 - 1 = b + 1
    OBVIOUS
  <2> QED
    BY <2>1 DEF Between
<1> QED
  BY <1>3, <1>9, <1>10

\* The sentences of a sequence of ranges.
LEMMA SentencesSpread ==
  ASSUME NEW text, NEW items \in Seq(Ranges(text))
  PROVE  Sentences(items) = Spread(items, Of(text))
<1>1. DOMAIN items = 1 .. Len(items) /\ \A i \in 1 .. Len(items) : items[i] \in Ranges(text)
  OBVIOUS
<1>2. \A x \in Ranges(text) : Of(text)[x] = [s \in 1 .. x.to - x.from + 1 |-> <<x.para, x.from + s - 1>>]
  BY DEF Of, Between
<1>3. \A i \in 1 .. Len(items) :
        [s \in 1 .. items[i].to - items[i].from + 1 |-> <<items[i].para, items[i].from + s - 1>>]
        = Of(text)[items[i]]
  BY <1>1, <1>2
<1>4. [i \in DOMAIN items |->
         [s \in 1 .. items[i].to - items[i].from + 1 |-> <<items[i].para, items[i].from + s - 1>>]]
      = [i \in 1 .. Len(items) |-> Of(text)[items[i]]]
  BY <1>1, <1>3
<1> QED
  BY <1>4 DEF Sentences, Spread

\* Groups that say what has been put into them, up to sentence k.
Grouping(text, p, g, k) ==
  /\ g \in Seq(Ranges(text))
  /\ g # << >> => Last(g).para = p /\ Last(g).to = k
  /\ Spread(g, Of(text)) = Between(p, 1, k)

\* The next sentence joins the last group or begins one.
LEMMA GroupsGrow ==
  ASSUME NEW text \in Seq(Seq(Nat)), NEW p \in DOMAIN text, NEW k \in 1 .. Len(text[p]),
         NEW g, Grouping(text, p, g, k - 1)
  PROVE  Grouping(text, p, Joined(text, g, p, k), k)
<1> DEFINE R == Ranges(text)
           e == Of(text)
           one == << <<p, k>> >>
<1>1. p \in Nat /\ k \in Nat /\ k - 1 \in Nat /\ 1 <= k /\ k <= Len(text[p]) /\ k - 1 + 1 = k
  OBVIOUS
<1>2. Maps(e, R, Sentence)
  BY OfMaps
<1>3. g \in Seq(R) /\ Spread(g, e) = Between(p, 1, k - 1)
  BY DEF Grouping
<1>4. Between(p, 1, k) = Between(p, 1, k - 1) \o one /\ Between(p, k, k) = one
  <2> DEFINE b == k - 1
  <2>1. b \in Nat /\ b + 1 = k /\ 1 <= b + 1
    BY <1>1
  <2> HIDE DEF b
  <2>a. p \in Nat
    BY <1>1
  <2>b. b \in Nat /\ 1 \in Nat /\ 1 <= 1 /\ 1 <= b + 1
    BY <2>1
  <2>2. /\ Between(p, 1, b + 1) = Between(p, 1, b) \o << <<p, b + 1>> >>
        /\ Between(p, b + 1, b + 1) = << <<p, b + 1>> >>
    BY <2>a, <2>b, BetweenGrows
  <2> QED
    BY <2>1, <2>2 DEF b
<1>5. CASE Joined(text, g, p, k) = Append(g, Item(p, k, k))
  <2> DEFINE x == Item(p, k, k)
             h == Append(g, x)
  <2>1. x \in R /\ x.para = p /\ x.from = k /\ x.to = k
    BY <1>1 DEF Item, Ranges
  <2>2. e[x] = one
    BY <1>4, <2>1 DEF Of
  <2> HIDE DEF x, R, e, one
  <2>3. Spread(h, e) = Spread(g, e) \o e[x] /\ h \in Seq(R)
    <3>a. g \in Seq(R)
      BY <1>3
    <3>b. x \in R
      BY <2>1
    <3>1. Spread(h, e) = Spread(g, e) \o e[x]
      BY <1>2, <3>a, <3>b, SpreadAppend
    <3>2. h \in Seq(R)
      BY <1>3, <2>1
    <3> QED
      BY <3>1, <3>2
  <2>4. Last(h) = x
    BY <1>3, <2>1 DEF Last
  <2> HIDE DEF h
  <2>5. Spread(h, e) = Between(p, 1, k)
    BY <1>3, <1>4, <2>2, <2>3
  <2> QED
    BY <1>5, <2>1, <2>3, <2>4, <2>5 DEF Grouping, R, e, h, x
<1>6. CASE g # << >> /\ Joined(text, g, p, k) = Append(Front(g), Item(p, Last(g).from, k))
  <2> DEFINE z == Last(g)
             a == z.from
             f == Front(g)
             x == Item(p, a, k)
             h == Append(f, x)
  <2>1. z \in R /\ f \in Seq(R) /\ g = Append(f, z) /\ z.para = p /\ z.to = k - 1
    <3>1. z.para = p /\ z.to = k - 1
      BY <1>6 DEF Grouping
    <3>2. z \in R /\ f \in Seq(R) /\ g = Append(f, z)
      <4> HIDE DEF R, e, one
      <4> QED
        BY <1>3, <1>6 DEF Front, Last
    <3> QED
      BY <3>1, <3>2
  <2>2. a \in Nat /\ 1 <= a /\ a <= k - 1
    BY <2>1 DEF Ranges
  <2>3. x \in R /\ x.para = p /\ x.from = a /\ x.to = k
    <3> HIDE DEF a
    <3> QED
      BY <1>1, <2>2 DEF Item, Ranges
  <2>4. e[z] = Between(p, a, k - 1) /\ e[x] = Between(p, a, k)
    <3>1. \A y \in R : e[y] = Between(y.para, y.from, y.to)
      BY DEF Of
    <3> HIDE DEF R, e, x, z
    <3> QED
      BY <2>1, <2>3, <3>1
  <2> HIDE DEF a, x, z, f
  <2>5. Between(p, a, k) = Between(p, a, k - 1) \o one
    <3> DEFINE b == k - 1
    <3>1. b \in Nat /\ b + 1 = k /\ a <= b + 1
      BY <1>1, <2>2
    <3> HIDE DEF b
    <3>2. Between(p, a, b + 1) = Between(p, a, b) \o << <<p, b + 1>> >>
      BY <1>1, <2>2, <3>1, BetweenGrows
    <3> QED
      BY <3>1, <3>2 DEF b
  <2> HIDE DEF R, e
  <2>6. Spread(g, e) = Spread(f, e) \o e[z] /\ Spread(h, e) = Spread(f, e) \o e[x] /\ Spread(f, e) \in Seq(Sentence)
    <3>1. Spread(Append(f, z), e) = Spread(f, e) \o e[z] /\ Spread(f, e) \in Seq(Sentence)
      BY <1>2, <2>1, SpreadAppend
    <3>2. Spread(Append(f, x), e) = Spread(f, e) \o e[x]
      BY <1>2, <2>1, <2>3, SpreadAppend
    <3> QED
      BY <2>1, <3>1, <3>2
  <2>7. (Spread(f, e) \o e[z]) \o one = Spread(f, e) \o (e[z] \o one)
    <3> DEFINE u == Spread(f, e)
               v == e[z]
    <3>1. u \in Seq(Sentence)
      BY <2>6
    <3>2. v \in Seq(Sentence)
      BY <1>2, <2>1 DEF Maps
    <3>3. one \in Seq(Sentence)
      BY <1>1 DEF Sentence
    <3> HIDE DEF u, v, one
    <3>4. (u \o v) \o one = u \o (v \o one)
      BY <3>1, <3>2, <3>3, ConcatAssociative, SMTT(30)
    <3> QED
      BY <3>4 DEF u, v
  <2> HIDE DEF one
  <2>8. Spread(h, e) = Between(p, 1, k)
    BY <1>3, <1>4, <2>4, <2>5, <2>6, <2>7
  <2>9. h \in Seq(R) /\ Last(h) = x
    BY <2>1, <2>3 DEF Last
  <2>10. Joined(text, g, p, k) = h
    BY <1>6 DEF h, f, x, a, z
  <2> HIDE DEF h
  <2> QED
    BY <2>3, <2>8, <2>9, <2>10 DEF Grouping, R, e
<1> QED
  BY <1>5, <1>6 DEF Joined

\* A long paragraph is split into groups that have its sentences, each once and in order.
LEMMA SplitIs ==
  ASSUME NEW text \in Seq(Seq(Nat)), NEW p \in DOMAIN text
  PROVE  Grouping(text, p, SplitLong(text, p), Len(text[p]))
<1> DEFINE n == Len(text[p])
           J == [para : Nat, from : Nat, to : Nat]
           Q == Seq(J)
           step == [i \in 1 .. n |-> [g \in Q |-> Joined(text, g, p, i)]]
           Eq(f) == f = [s \in 0 .. n |-> IF s = 0 THEN << >> ELSE Joined(text, f[s - 1], p, s)]
           groups == CHOOSE f : Eq(f)
<1>1. n \in Nat /\ << >> \in Q /\ p \in Nat
  OBVIOUS
<1>2. ASSUME NEW i \in 1 .. n, NEW g \in Q
      PROVE  Joined(text, g, p, i) \in Q
  <2>1. i \in Nat
    BY <1>1
  <2>2. Item(p, i, i) \in J
    BY <1>1, <2>1 DEF Item
  <2>3. Append(g, Item(p, i, i)) \in Q
    <3> DEFINE x == Item(p, i, i)
    <3> HIDE DEF x, J
    <3> QED
      BY <2>2 DEF x
  <2>4. g # << >> => Append(Front(g), Item(p, Last(g).from, i)) \in Q
    <3> SUFFICES ASSUME g # << >>
                 PROVE  Append(Front(g), Item(p, Last(g).from, i)) \in Q
      OBVIOUS
    <3>0. g \in Seq(J)
      OBVIOUS
    <3>1. Front(g) \in Q /\ Last(g) \in J
      <4> HIDE DEF J
      <4>1. Front(g) \in Seq(J)
        BY <3>0 DEF Front
      <4>2. Last(g) \in J
        BY <3>0 DEF Last
      <4> QED
        BY <4>1, <4>2
    <3>2. Item(p, Last(g).from, i) \in J
      BY <1>1, <2>1, <3>1 DEF Item
    <3> DEFINE x == Item(p, Last(g).from, i)
               h == Front(g)
    <3> HIDE DEF x, h, J
    <3> QED
      BY <3>1, <3>2 DEF x, h
  <2> QED
    BY <2>3, <2>4 DEF Joined
<1>3. step \in [1 .. n -> [Q -> Q]]
  <2>1. \A i \in 1 .. n : [g \in Q |-> Joined(text, g, p, i)] \in [Q -> Q]
    BY <1>2
  <2> QED
    BY <2>1
<1>4. PICK f \in [0 .. n -> Q] : Computes(f, n, << >>, step)
  <2> HIDE DEF n, step, Q
  <2> QED
    BY <1>1, <1>3, Iterated
<1>5. f[0] = << >> /\ \A i \in 1 .. n : f[i] = Joined(text, f[i - 1], p, i)
  <2>0. \A i \in 1 .. n : i - 1 \in 0 .. n
    BY <1>1
  <2>1. \A i \in 1 .. n : f[i - 1] \in Q /\ f[i] = step[i][f[i - 1]]
    <3> HIDE DEF n, step, Q
    <3> QED
      BY <2>0, <1>4 DEF Computes
  <2>2. \A i \in 1 .. n : \A x \in Q : step[i][x] = Joined(text, x, p, i)
    OBVIOUS
  <2> QED
    BY <1>4, <2>1, <2>2 DEF Computes
<1>6. Eq(f)
  BY <1>5
<1>7. Eq(groups)
  <2> HIDE DEF Eq
  <2> QED
    BY <1>6
<1>8. SplitLong(text, p) = groups[n]
  BY DEF SplitLong
<1> HIDE DEF groups
<1>9. groups[0] = << >> /\ \A s \in 1 .. n : groups[s] = Joined(text, groups[s - 1], p, s)
  <2>1. \A s \in 0 .. n : groups[s] = IF s = 0 THEN << >> ELSE Joined(text, groups[s - 1], p, s)
    BY <1>7
  <2> QED
    BY <1>1, <2>1
<1> DEFINE T == {s \in 0 .. n : Grouping(text, p, groups[s], s)}
<1>10. 0 \in T
  <2>1. << >> \in Seq(Ranges(text)) /\ Spread(<< >>, Of(text)) = << >>
    BY SpreadNone
  <2>2. Between(p, 1, 0) = << >>
    BY DEF Between
  <2>3. Grouping(text, p, << >>, 0)
    BY <2>1, <2>2 DEF Grouping
  <2> QED
    BY <1>1, <1>9, <2>3
<1>11. ASSUME NEW s \in 1 .. n, s - 1 \in T
       PROVE  s \in T
  <2>1. Grouping(text, p, groups[s - 1], s - 1)
    BY <1>11
  <2> DEFINE g == groups[s - 1]
  <2>2. Grouping(text, p, Joined(text, g, p, s), s)
    <3> HIDE DEF g
    <3>1. Grouping(text, p, g, s - 1)
      BY <2>1 DEF g
    <3> QED
      BY <3>1, GroupsGrow
  <2>3. groups[s] = Joined(text, g, p, s) /\ s \in 0 .. n
    BY <1>9
  <2> QED
    BY <2>2, <2>3
<1>12. n \in T
  <2>1. \A s \in 1 .. n : s - 1 \in T => s \in T
    BY <1>11
  <2> HIDE DEF T
  <2>2. 0 .. n \subseteq T
    <3> HIDE DEF n
    <3> QED
      BY <1>1, <1>10, <2>1, UpTo
  <2>3. n \in 0 .. n
    BY <1>1
  <2> QED
    BY <2>2, <2>3
<1> QED
  BY <1>8, <1>12

\* The items of a text have its sentences, each once and in order.
LEMMA ItemsAre ==
  ASSUME NEW text \in Seq(Seq(Nat)), \A p \in DOMAIN text : text[p] # << >>
  PROVE  Items(text) \in Seq(Ranges(text)) /\ Sentences(Items(text)) = WholeText(text)
<1> DEFINE R == Ranges(text)
           e == Of(text)
           n == Len(text)
           parts == [p \in DOMAIN text |->
                       IF 2 * Total(text[p]) > 3 * Target THEN SplitLong(text, p)
                       ELSE << Item(p, 1, Len(text[p])) >>]
           wholes == [p \in DOMAIN text |-> Item(p, 1, Len(text[p]))]
           each == [p \in 1 .. n |-> Between(p, 1, Len(text[p]))]
<1>1. n \in Nat /\ DOMAIN text = 1 .. n
  OBVIOUS
<1>2. Maps(e, R, Sentence)
  BY OfMaps
<1>3. ASSUME NEW p \in 1 .. n
      PROVE  /\ wholes[p] \in R /\ e[wholes[p]] = Between(p, 1, Len(text[p]))
             /\ parts[p] \in Seq(R) /\ Spread(parts[p], e) = Between(p, 1, Len(text[p]))
  <2> DEFINE x == Item(p, 1, Len(text[p]))
  <2>1. p \in Nat /\ p \in DOMAIN text /\ text[p] \in Seq(Nat) /\ text[p] # << >>
    <3> HIDE DEF n
    <3>1. p \in Nat /\ p \in DOMAIN text
      BY <1>1
    <3>2. text[p] \in Seq(Nat)
      BY <3>1
    <3>3. text[p] # << >>
      BY <3>1
    <3> QED
      BY <3>1, <3>2, <3>3
  <2>2. Len(text[p]) \in Nat /\ 1 <= Len(text[p])
    BY <2>1
  <2>3. x \in R /\ x.para = p /\ x.from = 1 /\ x.to = Len(text[p])
    BY <2>1, <2>2 DEF Item, Ranges
  <2>4. e[x] = Between(p, 1, Len(text[p]))
    BY <2>3 DEF Of
  <2>5. wholes[p] = x
    BY <2>1
  <2>6. CASE parts[p] = << x >>
    <3>1. << x >> \in Seq(R)
      BY <2>3
    <3>2. Spread(<< x >>, e) = e[x]
      <4>1. x \in R
        BY <2>3
      <4> HIDE DEF x, e, R
      <4> QED
        BY <1>2, <4>1, SpreadOne
    <3> QED
      BY <2>3, <2>4, <2>5, <2>6, <3>1, <3>2
  <2>7. CASE parts[p] = SplitLong(text, p)
    <3>1. Grouping(text, p, SplitLong(text, p), Len(text[p]))
      BY <2>1, SplitIs
    <3> QED
      BY <2>3, <2>4, <2>5, <2>7, <3>1 DEF Grouping
  <2> QED
    BY <2>1, <2>6, <2>7
<1>4. parts \in Seq(Seq(R)) /\ Len(parts) = n
  <2>1. parts = [p \in 1 .. n |-> parts[p]]
    BY <1>1
  <2>2. \A p \in 1 .. n : parts[p] \in Seq(R)
    BY <1>3
  <2> HIDE DEF parts, n, R
  <2>3. [p \in 1 .. n |-> parts[p]] \in Seq(Seq(R)) /\ Len([p \in 1 .. n |-> parts[p]]) = n
    BY <1>1, <2>2
  <2> QED
    BY <2>1, <2>3
<1>5. wholes \in Seq(R) /\ Len(wholes) = n
  <2>1. wholes = [p \in 1 .. n |-> wholes[p]]
    BY <1>1
  <2>2. \A p \in 1 .. n : wholes[p] \in R
    BY <1>3
  <2> HIDE DEF wholes, n, R
  <2>3. [p \in 1 .. n |-> wholes[p]] \in Seq(R) /\ Len([p \in 1 .. n |-> wholes[p]]) = n
    BY <1>1, <2>2
  <2> QED
    BY <2>1, <2>3
<1>6. Items(text) = FlattenSeq(parts)
  BY DEF Items
<1>7. WholeText(text) = Sentences(wholes)
  BY DEF WholeText
<1>8. [p \in 1 .. Len(parts) |-> Spread(parts[p], e)] = each
      /\ [p \in 1 .. Len(wholes) |-> e[wholes[p]]] = each
  <2>1. \A p \in 1 .. n : Spread(parts[p], e) = each[p] /\ e[wholes[p]] = each[p]
    BY <1>3
  <2>2. each = [p \in 1 .. n |-> each[p]]
    OBVIOUS
  <2> HIDE DEF parts, wholes, n, each, e
  <2> QED
    BY <1>4, <1>5, <2>1, <2>2
<1> HIDE DEF parts, wholes, n, each, e, R
<1>9. FlattenSeq(parts) \in Seq(R)
  <2>1. << >> \in Seq(R)
    OBVIOUS
  <2>2. parts \in Seq(Seq(R))
    BY <1>4
  <2> QED
    BY <2>1, <2>2, FlattenAppend
<1>10. Spread(FlattenSeq(parts), e) = FlattenSeq(each)
  <2>1. parts \in Seq(Seq(R))
    BY <1>4
  <2>2. Spread(FlattenSeq(parts), e) = FlattenSeq([p \in 1 .. Len(parts) |-> Spread(parts[p], e)])
    BY <1>2, <2>1, SpreadFlatten
  <2> QED
    BY <1>8, <2>2
<1>11. Spread(wholes, e) = FlattenSeq(each)
  BY <1>8 DEF Spread
<1>12. Sentences(FlattenSeq(parts)) = Spread(FlattenSeq(parts), e)
  BY <1>9, SentencesSpread DEF R, e
<1>13. Sentences(wholes) = Spread(wholes, e)
  BY <1>5, SentencesSpread DEF R, e
<1> QED
  BY <1>6, <1>7, <1>9, <1>10, <1>11, <1>12, <1>13 DEF R

-----------------------------------------------------------------------------

\* The size of a range of sentences is a number.
LEMMA SizeIsNat ==
  ASSUME NEW text \in Seq(Seq(Nat)), NEW x \in Ranges(text)
  PROVE  Size(text, x) \in Nat
<1> DEFINE p == text[x.para]
           a == x.from
           b == x.to
           s == SubSeq(p, a, b)
<1>1. x.para \in DOMAIN text /\ a \in Nat /\ b \in Nat /\ 1 <= a /\ a <= b /\ b <= Len(p)
  BY DEF Ranges
<1>2. p \in Seq(Nat)
  BY <1>1
<1> HIDE DEF p, a, b
<1>3. s \in Seq(Nat)
  <2>1. Len(p) \in Nat
    BY <1>2
  <2>2. a \in 1 .. Len(p) + 1 /\ b \in a - 1 .. Len(p)
    BY <1>1, <2>1
  <2> QED
    BY <1>2, <2>2, SubSeqProperties
<1> HIDE DEF s
<1>4. Total(s) \in Nat
  <2>1. 0 \in Nat
    OBVIOUS
  <2> QED
    BY <1>3, <2>1, TotalAppend
<1> QED
  BY <1>4 DEF Size, s, p, a, b

\* The sizes of the items of a chunk, together.
Sum(text, b) == Total([i \in DOMAIN b |-> Size(text, b[i])])

\* One more item.
LEMMA SumAppend ==
  ASSUME NEW text \in Seq(Seq(Nat)), NEW b \in Seq(Ranges(text)), NEW x \in Ranges(text)
  PROVE  Sum(text, b) \in Nat /\ Sum(text, Append(b, x)) = Sum(text, b) + Size(text, x)
<1> DEFINE R == Ranges(text)
           n == Len(b)
           c == Append(b, x)
           y == Size(text, x)
           s == [i \in 1 .. n |-> Size(text, b[i])]
           t == [i \in 1 .. n + 1 |-> Size(text, c[i])]
<1>1. n \in Nat /\ DOMAIN b = 1 .. n /\ \A i \in 1 .. n : b[i] \in R
  <2> HIDE DEF R
  <2> QED
    BY DEF R
<1>2. DOMAIN c = 1 .. n + 1 /\ c[n + 1] = x /\ \A i \in 1 .. n : c[i] = b[i]
  <2> HIDE DEF R
  <2> QED
    BY DEF R
<1>3. y \in Nat
  BY SizeIsNat
<1>4. \A i \in 1 .. n : Size(text, b[i]) \in Nat
  BY <1>1, SizeIsNat
<1> HIDE DEF y, c, n, R
<1>5. s \in Seq(Nat) /\ Len(s) = n
  BY <1>1, <1>4
<1>6. t = Append(s, y)
  <2>1. t \in Seq(Nat) /\ Len(t) = n + 1
    <3>1. \A i \in 1 .. n + 1 : Size(text, c[i]) \in Nat
      <4>1. \A i \in 1 .. n + 1 : i = n + 1 \/ i \in 1 .. n
        BY <1>1
      <4> QED
        BY <1>2, <1>3, <1>4, <4>1 DEF y
    <3>2. n + 1 \in Nat
      BY <1>1
    <3> DEFINE m == n + 1
    <3> HIDE DEF m
    <3>3. [i \in 1 .. m |-> Size(text, c[i])] \in Seq(Nat) /\ Len([i \in 1 .. m |-> Size(text, c[i])]) = m
      BY <3>1, <3>2 DEF m
    <3> QED
      BY <3>3 DEF m
  <2>2. Append(s, y) \in Seq(Nat) /\ Len(Append(s, y)) = n + 1
        /\ Append(s, y)[n + 1] = y /\ \A i \in 1 .. n : Append(s, y)[i] = s[i]
    <3> HIDE DEF s
    <3> QED
      BY <1>3, <1>5
  <2>3. \A i \in 1 .. n + 1 : t[i] = Append(s, y)[i]
    <3> SUFFICES ASSUME NEW i \in 1 .. n + 1
                 PROVE  t[i] = Append(s, y)[i]
      OBVIOUS
    <3>1. t[i] = Size(text, c[i])
      OBVIOUS
    <3>2. CASE i = n + 1
      BY <1>2, <2>2, <3>1, <3>2 DEF y
    <3>3. CASE i \in 1 .. n
      <4>1. s[i] = Size(text, b[i])
        BY <3>3
      <4> QED
        BY <1>2, <2>2, <3>1, <3>3, <4>1
    <3>4. i = n + 1 \/ i \in 1 .. n
      BY <1>1
    <3> QED
      BY <3>2, <3>3, <3>4
  <2> HIDE DEF s, t
  <2> QED
    BY <2>1, <2>2, <2>3, SeqEqual
<1>7. Sum(text, b) = Total(s) /\ Sum(text, c) = Total(t)
  BY <1>1, <1>2 DEF Sum
<1> HIDE DEF s, t
<1>8. Total(s) \in Nat /\ Total(Append(s, y)) = Total(s) + y
  BY <1>3, <1>5, TotalAppend
<1> QED
  BY <1>6, <1>7, <1>8 DEF c, y

\* No item, no size.
LEMMA SumNone == ASSUME NEW text PROVE Sum(text, << >>) = 0
<1>1. [i \in DOMAIN << >> |-> Size(text, << >>[i])] = << >>
  OBVIOUS
<1> QED
  BY <1>1, TotalNone DEF Sum

\* A chunk of one item, or one that does not exceed the target.
Fits(text, b) == Len(b) = 1 \/ Sum(text, b) <= Target

States(text) == [chunks : Seq(Seq(Ranges(text))), buf : Seq(Ranges(text)), tokens : Nat]

\* The chunks that were cut and the one under way have the items so far, in order.
Packing(text, z, packed) ==
  /\ z \in States(text)
  /\ FlattenSeq(z.chunks) \o z.buf = packed
  /\ \A c \in DOMAIN z.chunks : Fits(text, z.chunks[c])
  /\ Fits(text, z.buf) /\ Sum(text, z.buf) <= z.tokens

\* The next state, field by field.
LEMMA PackIsAState ==
  ASSUME NEW text \in Seq(Seq(Nat)), NEW z \in States(text), NEW x \in Ranges(text)
  PROVE  Pack(text, z, x) =
           IF z.tokens + Size(text, x) > Target /\ z.buf # << >>
           THEN [chunks |-> Append(z.chunks, z.buf), buf |-> << x >>, tokens |-> Overlap + Size(text, x)]
           ELSE [chunks |-> z.chunks, buf |-> Append(z.buf, x), tokens |-> z.tokens + Size(text, x)]
<1> DEFINE y == Size(text, x)
           b == Append(z.buf, x)
           t == z.tokens + y
<1>1. z = [chunks |-> z.chunks, buf |-> z.buf, tokens |-> z.tokens]
  BY DEF States
<1>2. [z EXCEPT !.buf = Append(@, x), !.tokens = @ + y] = [chunks |-> z.chunks, buf |-> b, tokens |-> t]
  <2> DEFINE w == [z EXCEPT !.buf = b, !.tokens = t]
             v == [chunks |-> z.chunks, buf |-> b, tokens |-> t]
             D == {"chunks", "buf", "tokens"}
  <2> HIDE DEF b, t
  <2>1. DOMAIN w = D /\ w.chunks = z.chunks /\ w.buf = b /\ w.tokens = t
    BY <1>1
  <2>2. v = [f \in D |-> v[f]] /\ v.chunks = z.chunks /\ v.buf = b /\ v.tokens = t
    OBVIOUS
  <2>3. w = [f \in DOMAIN w |-> w[f]]
    BY <1>1
  <2> HIDE DEF v, w
  <2>4. \A f \in D : w[f] = v[f]
    BY <2>1, <2>2
  <2> HIDE DEF D
  <2>5. w = v
    BY <2>1, <2>2, <2>3, <2>4
  <2> QED
    BY <2>5 DEF v, w, b, t
<1> QED
  BY <1>2 DEF Pack

\* One more item joins the chunk under way or begins the next.
LEMMA PackKeeps ==
  ASSUME NEW text \in Seq(Seq(Nat)), NEW z, NEW packed, Packing(text, z, packed), NEW x \in Ranges(text)
  PROVE  Packing(text, Pack(text, z, x), Append(packed, x))
<1> DEFINE R == Ranges(text)
           y == Size(text, x)
           chunks == z.chunks
           buf == z.buf
           tokens == z.tokens
           Q == Seq(R)
<1>1. z \in States(text) /\ chunks \in Seq(Q) /\ buf \in Q /\ tokens \in Nat
  BY DEF Packing, States
<1>2. y \in Nat /\ x \in R
  BY SizeIsNat
<1>3. /\ FlattenSeq(chunks) \o buf = packed /\ Fits(text, buf) /\ Sum(text, buf) <= tokens
      /\ \A c \in DOMAIN chunks : Fits(text, chunks[c])
  BY DEF Packing
<1>4. Sum(text, buf) \in Nat /\ Sum(text, Append(buf, x)) = Sum(text, buf) + y
  <2> HIDE DEF buf
  <2>1. buf \in Seq(Ranges(text))
    BY <1>1
  <2> QED
    BY <2>1, SumAppend
<1>5. Sum(text, << x >>) = y
  <2> DEFINE e == << >>
  <2>1. e \in Seq(Ranges(text)) /\ Append(e, x) = << x >>
    OBVIOUS
  <2>2. Sum(text, e) = 0
    BY SumNone
  <2> HIDE DEF e
  <2>3. Sum(text, Append(e, x)) = Sum(text, e) + y
    BY <2>1, SumAppend
  <2> QED
    BY <1>2, <2>1, <2>2, <2>3
<1>6. FlattenSeq(chunks) \in Q /\ FlattenSeq(Append(chunks, buf)) = FlattenSeq(chunks) \o buf
  <2> HIDE DEF chunks, buf
  <2>1. chunks \in Seq(Seq(R))
    BY <1>1
  <2>2. buf \in Seq(R)
    BY <1>1
  <2> HIDE DEF R
  <2> QED
    BY <2>1, <2>2, FlattenAppend
<1> HIDE DEF y, chunks, buf, tokens, R
<1>7. CASE tokens + y > Target /\ buf # << >>
  <2> DEFINE w == [chunks |-> Append(chunks, buf), buf |-> << x >>, tokens |-> Overlap + y]
  <2>1. Pack(text, z, x) = w
    BY <1>1, <1>7, PackIsAState DEF chunks, buf, tokens, y
  <2>2. Append(chunks, buf) \in Seq(Q) /\ << x >> \in Q /\ Overlap + y \in Nat
    BY <1>1, <1>2 DEF Overlap
  <2>3. w \in States(text)
    BY <2>2 DEF States, R
  <2>4. FlattenSeq(Append(chunks, buf)) \o << x >> = Append(packed, x)
    <3> DEFINE d == FlattenSeq(chunks) \o buf
    <3>1. d \in Q
      BY <1>1, <1>6
    <3> HIDE DEF d
    <3>2. d \o << x >> = Append(d, x)
      BY <1>2, <3>1
    <3> QED
      BY <1>3, <1>6, <3>2 DEF d
  <2>5. \A c \in DOMAIN Append(chunks, buf) : Fits(text, Append(chunks, buf)[c])
    <3> HIDE DEF Q
    <3> SUFFICES ASSUME NEW c \in DOMAIN Append(chunks, buf)
                 PROVE  Fits(text, Append(chunks, buf)[c])
      OBVIOUS
    <3>1. c \in 1 .. Len(chunks) + 1 /\ Len(chunks) \in Nat
      BY <1>1
    <3>2. CASE c = Len(chunks) + 1
      <4>1. Append(chunks, buf)[c] = buf
        BY <1>1, <3>2
      <4> QED
        BY <1>3, <4>1
    <3>3. CASE c \in 1 .. Len(chunks)
      <4>1. Append(chunks, buf)[c] = chunks[c] /\ c \in DOMAIN chunks
        BY <1>1, <3>3
      <4> QED
        BY <1>3, <4>1
    <3> QED
      BY <3>1, <3>2, <3>3
  <2>6. Fits(text, << x >>) /\ Sum(text, << x >>) <= Overlap + y
    BY <1>2, <1>5 DEF Fits, Overlap
  <2>7. w.chunks = Append(chunks, buf) /\ w.buf = << x >> /\ w.tokens = Overlap + y
    OBVIOUS
  <2> HIDE DEF w
  <2> QED
    BY <2>1, <2>3, <2>4, <2>5, <2>6, <2>7 DEF Packing
<1>8. CASE ~(tokens + y > Target /\ buf # << >>)
  <2> DEFINE b == Append(buf, x)
             w == [chunks |-> chunks, buf |-> b, tokens |-> tokens + y]
  <2>1. Pack(text, z, x) = w
    BY <1>1, <1>8, PackIsAState DEF chunks, buf, tokens, y
  <2>2. b \in Q /\ tokens + y \in Nat
    BY <1>1, <1>2
  <2>3. w \in States(text)
    BY <1>1, <2>2 DEF States, R
  <2>4. FlattenSeq(chunks) \o b = Append(packed, x)
    <3> DEFINE d == FlattenSeq(chunks)
    <3>1. d \in Q
      BY <1>6
    <3> HIDE DEF d
    <3>2. d \o b = Append(d \o buf, x)
      <4>1. d \o b \in Q /\ Append(d \o buf, x) \in Q
        BY <1>1, <1>2, <2>2, <3>1
      <4>2. b = buf \o << x >>
        BY <1>1, <1>2
      <4>3. << x >> \in Q
        BY <1>2
      <4> HIDE DEF b, Q
      <4>4. d \o (buf \o << x >>) = (d \o buf) \o << x >>
        BY <1>1, <3>1, <4>3, ConcatAssociative, SMTT(30) DEF Q
      <4>5. (d \o buf) \o << x >> = Append(d \o buf, x)
        <5> DEFINE f == d \o buf
        <5>1. f \in Seq(R)
          BY <1>1, <3>1 DEF Q
        <5> HIDE DEF f
        <5>2. f \o << x >> = Append(f, x)
          BY <1>2, <5>1
        <5> QED
          BY <5>2 DEF f
      <4> QED
        BY <4>2, <4>4, <4>5
    <3> QED
      BY <1>3, <3>2 DEF d
  <2>5. Fits(text, b)
    <3>1. CASE buf = << >>
      BY <3>1 DEF Fits
    <3>2. CASE buf # << >>
      <4>1. tokens + y <= Target
        BY <1>1, <1>2, <1>8, <3>2 DEF Target
      <4> QED
        BY <1>1, <1>2, <1>3, <1>4, <4>1 DEF Fits, Target
    <3> QED
      BY <3>1, <3>2
  <2>6. Sum(text, b) <= tokens + y
    BY <1>1, <1>2, <1>3, <1>4
  <2> HIDE DEF b
  <2>7. w.chunks = chunks /\ w.buf = b /\ w.tokens = tokens + y
    OBVIOUS
  <2> HIDE DEF w
  <2> QED
    BY <1>3, <2>1, <2>3, <2>4, <2>5, <2>6, <2>7 DEF Packing
<1> QED
  BY <1>7, <1>8

\* The chunks of a text and what is left over have all its items.
LEMMA PackedIs ==
  ASSUME NEW text \in Seq(Seq(Nat)), Items(text) \in Seq(Ranges(text))
  PROVE  Packing(text, Packed(text), Items(text))
<1> DEFINE items == Items(text)
           n == Len(items)
           R == Ranges(text)
           S == States(text)
           base == [chunks |-> << >>, buf |-> << >>, tokens |-> 0]
           step == [i \in 1 .. n |-> [z \in S |-> Pack(text, z, items[i])]]
           Eq(f) == f = [i \in 0 .. n |-> IF i = 0 THEN base ELSE Pack(text, f[i - 1], items[i])]
           state == CHOOSE f : Eq(f)
           Upto(k) == SubSeq(items, 1, k)
<1>8. Packed(text) = state[n]
  BY DEF Packed
<1> HIDE DEF items
<1>0. items \in Seq(R)
  BY DEF items
<1> HIDE DEF R
<1>1. n \in Nat /\ base \in S /\ \A i \in 1 .. n : items[i] \in R
  <2>1. n \in Nat /\ \A i \in 1 .. n : items[i] \in R
    BY <1>0
  <2>2. base \in S
    BY DEF States
  <2> QED
    BY <2>1, <2>2
<1>2. ASSUME NEW i \in 1 .. n, NEW z \in S
      PROVE  Pack(text, z, items[i]) \in S
  <2> DEFINE x == items[i]
             y == Size(text, x)
  <2>1. x \in Ranges(text)
    BY <1>1 DEF R
  <2> HIDE DEF x
  <2>2. y \in Nat
    BY <2>1, SizeIsNat
  <2>3. z.chunks \in Seq(Seq(R)) /\ z.buf \in Seq(R) /\ z.tokens \in Nat
    BY DEF States, R
  <2> HIDE DEF y
  <2>4. Append(z.chunks, z.buf) \in Seq(Seq(R)) /\ << x >> \in Seq(R) /\ Append(z.buf, x) \in Seq(R)
        /\ Overlap + y \in Nat /\ z.tokens + y \in Nat
    BY <2>1, <2>2, <2>3 DEF R, Overlap
  <2>5. [chunks |-> Append(z.chunks, z.buf), buf |-> << x >>, tokens |-> Overlap + y] \in S
    BY <2>4 DEF States, R
  <2>6. [chunks |-> z.chunks, buf |-> Append(z.buf, x), tokens |-> z.tokens + y] \in S
    BY <2>3, <2>4 DEF States, R
  <2>7. Pack(text, z, x) =
           IF z.tokens + y > Target /\ z.buf # << >>
           THEN [chunks |-> Append(z.chunks, z.buf), buf |-> << x >>, tokens |-> Overlap + y]
           ELSE [chunks |-> z.chunks, buf |-> Append(z.buf, x), tokens |-> z.tokens + y]
    BY <2>1, PackIsAState DEF y
  <2>8. Pack(text, z, x) \in S
    <3> HIDE DEF S
    <3> QED
      BY <2>5, <2>6, <2>7
  <2> QED
    BY <2>8 DEF x
<1>3. step \in [1 .. n -> [S -> S]]
  <2>1. \A i \in 1 .. n : [z \in S |-> Pack(text, z, items[i])] \in [S -> S]
    <3> HIDE DEF S
    <3> QED
      BY <1>2
  <2> HIDE DEF S
  <2> QED
    BY <2>1
<1>4. PICK f \in [0 .. n -> S] : Computes(f, n, base, step)
  <2> HIDE DEF n, step, S, base
  <2> QED
    BY <1>1, <1>3, Iterated
<1> HIDE DEF S, base
<1>5. f[0] = base /\ \A i \in 1 .. n : f[i] = Pack(text, f[i - 1], items[i])
  <2>0. \A i \in 1 .. n : i - 1 \in 0 .. n
    BY <1>1
  <2>1. \A i \in 1 .. n : f[i - 1] \in S /\ f[i] = step[i][f[i - 1]]
    <3> HIDE DEF n, step
    <3> QED
      BY <2>0, <1>4 DEF Computes
  <2>2. \A i \in 1 .. n : \A z \in S : step[i][z] = Pack(text, z, items[i])
    OBVIOUS
  <2> QED
    BY <1>4, <2>1, <2>2 DEF Computes
<1>6. Eq(f)
  <2>1. \A i \in 1 .. n : i # 0
    BY <1>1
  <2>2. \A i \in 0 .. n : f[i] = IF i = 0 THEN base ELSE Pack(text, f[i - 1], items[i])
    <3>1. \A i \in 0 .. n : i = 0 \/ i \in 1 .. n
      BY <1>1
    <3> QED
      BY <1>5, <2>1, <3>1
  <2>3. f = [i \in 0 .. n |-> f[i]]
    BY <1>4
  <2> QED
    BY <2>2, <2>3
<1>7. Eq(state)
  <2> HIDE DEF Eq
  <2> QED
    BY <1>6
<1>a. Packed(text) = state[n]
  BY <1>8 DEF items, base
<1> HIDE DEF state
<1>9. state[0] = base /\ \A i \in 1 .. n : state[i] = Pack(text, state[i - 1], items[i])
  <2>1. \A i \in 0 .. n : state[i] = IF i = 0 THEN base ELSE Pack(text, state[i - 1], items[i])
    BY <1>7
  <2> QED
    BY <1>1, <2>1
<1> DEFINE T == {k \in 0 .. n : Packing(text, state[k], Upto(k))}
<1>b. Upto(0) = << >> /\ Upto(n) = items
      /\ \A k \in 1 .. n : Upto(k) = Append(Upto(k - 1), items[k])
  BY <1>0, PrefixGrows
<1>10. 0 \in T
  <2>1. base.chunks = << >> /\ base.buf = << >> /\ base.tokens = 0
    BY DEF base
  <2>2. FlattenSeq(<< >>) \o << >> = << >>
    BY FlattenNone
  <2>3. Fits(text, << >>) /\ Sum(text, << >>) <= 0
    BY SumNone DEF Fits, Target
  <2>4. base \in States(text)
    BY <1>1 DEF S
  <2>5. \A c \in DOMAIN << >> : Fits(text, << >>[c])
    OBVIOUS
  <2>6. Packing(text, base, << >>)
    BY <2>1, <2>2, <2>3, <2>4, <2>5 DEF Packing
  <2>7. 0 \in 0 .. n
    BY <1>1
  <2> HIDE DEF Upto, n
  <2> QED
    BY <1>9, <1>b, <2>6, <2>7
<1>11. ASSUME NEW k \in 1 .. n, k - 1 \in T
       PROVE  k \in T
  <2> DEFINE z == state[k - 1]
             packed == Upto(k - 1)
             x == items[k]
  <2>1. Packing(text, z, packed)
    BY <1>11
  <2>2. x \in Ranges(text)
    BY <1>1 DEF R
  <2>3. Packing(text, Pack(text, z, x), Append(packed, x))
    <3> HIDE DEF z, packed, x
    <3> QED
      BY <2>1, <2>2, PackKeeps
  <2>4. state[k] = Pack(text, z, x) /\ Upto(k) = Append(packed, x) /\ k \in 0 .. n
    <3>1. k \in 0 .. n
      OBVIOUS
    <3> HIDE DEF Upto, n
    <3> QED
      BY <1>9, <1>b, <3>1
  <2> HIDE DEF z, packed, x, Upto
  <2> QED
    BY <2>3, <2>4
<1>12. n \in T
  <2>1. \A k \in 1 .. n : k - 1 \in T => k \in T
    BY <1>11
  <2> HIDE DEF T
  <2>2. 0 .. n \subseteq T
    <3> HIDE DEF n
    <3> QED
      BY <1>1, <1>10, <2>1, UpTo
  <2>3. n \in 0 .. n
    BY <1>1
  <2> QED
    BY <2>2, <2>3
<1> HIDE DEF n, Upto
<1>13. Packing(text, state[n], items)
  BY <1>12, <1>b
<1> QED
  BY <1>13, <1>a DEF items

\* What is cut from a text is its sentences, each once and in order, in chunks that fit.
LEMMA ChunksAre ==
  ASSUME NEW text \in Seq(Seq(Nat)), \A p \in DOMAIN text : text[p] # << >>
  PROVE  /\ ChunkText(text) \in Seq(Seq(Ranges(text)))
         /\ Sentences(FlattenSeq(ChunkText(text))) = WholeText(text)
         /\ \A c \in DOMAIN ChunkText(text) : Fits(text, ChunkText(text)[c])
<1> DEFINE R == Ranges(text)
           Q == Seq(R)
           z == Packed(text)
           chunks == z.chunks
           buf == z.buf
           items == Items(text)
<1>1. items \in Q /\ Sentences(items) = WholeText(text)
  BY ItemsAre
<1>2. Packing(text, z, items)
  BY <1>1, PackedIs
<1> HIDE DEF z, items, R
<1>3. chunks \in Seq(Q) /\ buf \in Q
  BY <1>2 DEF Packing, States, R
<1>4. FlattenSeq(chunks) \o buf = items /\ Fits(text, buf) /\ \A c \in DOMAIN chunks : Fits(text, chunks[c])
  BY <1>2 DEF Packing
<1> HIDE DEF chunks, buf
<1>5. FlattenSeq(chunks) \in Seq(R) /\ FlattenSeq(Append(chunks, buf)) = FlattenSeq(chunks) \o buf
  BY <1>3, FlattenAppend
<1>6. CASE buf = << >>
  <2>1. ChunkText(text) = chunks
    BY <1>6 DEF ChunkText, chunks, buf, z
  <2>2. FlattenSeq(chunks) = items
    <3> DEFINE d == FlattenSeq(chunks)
    <3>1. d \in Seq(R)
      BY <1>5
    <3> HIDE DEF d
    <3>2. d \o << >> = d
      BY <3>1
    <3> QED
      BY <1>4, <1>6, <3>2 DEF d
  <2> QED
    BY <1>1, <1>3, <1>4, <2>1, <2>2 DEF R
<1>7. CASE buf # << >>
  <2>1. ChunkText(text) = Append(chunks, buf)
    BY <1>7 DEF ChunkText, chunks, buf, z
  <2>2. FlattenSeq(Append(chunks, buf)) = items
    BY <1>4, <1>5
  <2>3. Append(chunks, buf) \in Seq(Q)
    <3> HIDE DEF Q
    <3> QED
      BY <1>3
  <2>4. \A c \in DOMAIN Append(chunks, buf) : Fits(text, Append(chunks, buf)[c])
    <3> HIDE DEF Q
    <3> SUFFICES ASSUME NEW c \in DOMAIN Append(chunks, buf)
                 PROVE  Fits(text, Append(chunks, buf)[c])
      OBVIOUS
    <3>1. c \in 1 .. Len(chunks) + 1 /\ Len(chunks) \in Nat
      BY <1>3
    <3>2. CASE c = Len(chunks) + 1
      <4>1. Append(chunks, buf)[c] = buf
        BY <1>3, <3>2
      <4> QED
        BY <1>4, <4>1
    <3>3. CASE c \in 1 .. Len(chunks)
      <4>1. Append(chunks, buf)[c] = chunks[c] /\ c \in DOMAIN chunks
        BY <1>3, <3>3
      <4> QED
        BY <1>4, <4>1
    <3> QED
      BY <3>1, <3>2, <3>3
  <2> QED
    BY <1>1, <2>1, <2>2, <2>3, <2>4 DEF R
<1> QED
  BY <1>6, <1>7

\* The chunks of a file are whole.
LEMMA ChunkTextIsWhole ==
  ASSUME NEW f \in File
  PROVE  ChunkText(Text[f]) \in Seq(Seq(Ranges(Text[f]))) /\ ChunksAreWhole(f, ChunkText(Text[f]))
<1> DEFINE text == Text[f]
           chunks == ChunkText(text)
<1>1. text \in Seq(Seq(Nat))
  BY TextAssumption
<1>2. \A p \in DOMAIN text : text[p] # << >>
  BY TextAssumption
<1> HIDE DEF text
<1>3. /\ chunks \in Seq(Seq(Ranges(text)))
      /\ Sentences(FlattenSeq(chunks)) = WholeText(text)
      /\ \A c \in DOMAIN chunks : Fits(text, chunks[c])
  BY <1>1, <1>2, ChunksAre
<1>4. ChunksAreWhole(f, chunks)
  BY <1>3 DEF ChunksAreWhole, Fits, Sum, text
<1> QED
  BY <1>3, <1>4 DEF text

-----------------------------------------------------------------------------

(***************************************************************************)
(* DocumentsAreWhole for any number of texts, of any length, and uploads.  *)
(* A row is worked on by the one upload that inserted it, which takes its  *)
(* chunks once, while it has none.                                         *)
(***************************************************************************)

UploadPC == {"free", "inserting", "embedding", "answered", "error"}

UploadType == {[pc |-> "free"]} \cup [pc : UploadPC \ {"free"}, file : File, owner : Owner]

UploadsTypeOK == DOMAIN document = File /\ upload \in [Upload -> UploadType]

\* The row d of f, and its upload.
RowIsWhole(d, f, all) ==
  /\ d.by \in Upload /\ all[d.by].pc \notin {"free", "inserting"}
  /\ all[d.by].pc = "embedding" => d.status # "ready"
  /\ IF d.status = "ready" THEN ChunksAreWhole(f, d.chunks) ELSE d.chunks = << >>
RowsAreWhole ==
  \A f \in File : document[f] # NoDocument => RowIsWhole(document[f], f, upload)

DocumentsInv == UploadsTypeOK /\ RowsAreWhole

\* One upload moves on: the rows of the others do not notice.
LEMMA UploadMoves ==
  ASSUME DocumentsInv, NEW u \in Upload, NEW x, upload' = [upload EXCEPT ![u] = x],
         x \in UploadType, DOMAIN document' = File,
         \A f \in File : document'[f] # NoDocument =>
           \/ document'[f] = document[f] /\ document[f].by # u
           \/ RowIsWhole(document'[f], f, upload')
  PROVE  DocumentsInv'
<1>1. upload'[u] = x /\ \A v \in Upload : v # u => upload'[v] = upload[v]
  BY DEF DocumentsInv, UploadsTypeOK
<1>2. UploadsTypeOK'
  BY <1>1 DEF DocumentsInv, UploadsTypeOK
<1>3. ASSUME NEW f \in File, document'[f] # NoDocument
      PROVE  RowIsWhole(document'[f], f, upload')
  <2>1. CASE document'[f] = document[f] /\ document[f].by # u
    <3>1. RowIsWhole(document[f], f, upload)
      BY <1>3, <2>1 DEF DocumentsInv, RowsAreWhole
    <3> QED
      BY <1>1, <2>1, <3>1 DEF RowIsWhole
  <2> QED
    BY <1>3, <2>1
<1> QED
  BY <1>2, <1>3 DEF DocumentsInv, RowsAreWhole

\* The hash is looked for: an upload that is free has no row yet.
LEMMA LookKeeps ==
  ASSUME DocumentsInv, NEW u \in Upload, NEW f \in File, NEW w \in Owner, Look(u, f, w)
  PROVE  DocumentsInv'
<1> DEFINE x == [pc |-> IF document[f] = NoDocument THEN "inserting" ELSE "answered",
                 file |-> f, owner |-> w]
<1>1. upload' = [upload EXCEPT ![u] = x] /\ document' = document /\ upload[u].pc = "free"
  BY DEF Look
<1>2. x \in UploadType
  BY DEF UploadType, UploadPC
<1> HIDE DEF x
<1>3. \A g \in File : document[g] # NoDocument => document[g].by # u
  BY <1>1 DEF DocumentsInv, RowsAreWhole, RowIsWhole
<1>4. DOMAIN document' = File
  BY <1>1 DEF DocumentsInv, UploadsTypeOK
<1> QED
  BY <1>1, <1>2, <1>3, <1>4, UploadMoves


\* What Move makes of an upload that is under way.
LEMMA MoveGives ==
  ASSUME DocumentsInv, NEW u \in Upload, NEW pc \in UploadPC \ {"free"}, Move(u, pc),
         upload[u].pc # "free"
  PROVE  \E x \in UploadType :
           upload' = [upload EXCEPT ![u] = x] /\ x.pc = pc /\ x.file = upload[u].file
<1> DEFINE x == [upload[u] EXCEPT !.pc = pc]
<1>1. upload' = [upload EXCEPT ![u] = x]
  BY DEF Move, DocumentsInv, UploadsTypeOK
<1>2. upload[u] \in [pc : UploadPC \ {"free"}, file : File, owner : Owner]
  BY DEF DocumentsInv, UploadsTypeOK, UploadType
<1>3. x.pc = pc /\ x.file = upload[u].file /\ x \in UploadType
  BY <1>2 DEF UploadType
<1> HIDE DEF x
<1> QED
  BY <1>1, <1>3

\* The row is inserted without chunks, unless another upload was first.
LEMMA InsertKeeps ==
  ASSUME DocumentsInv, NEW u \in Upload, InsertDocument(u)
  PROVE  DocumentsInv'
<1> DEFINE f == upload[u].file
           d == [by |-> u, owner |-> upload[u].owner, status |-> "processing", chunks |-> << >>]
<1>1. upload[u].pc = "inserting" /\ f \in File
  BY DEF InsertDocument, DocumentsInv, UploadsTypeOK, UploadType, UploadPC
<1>2. \A g \in File : document[g] # NoDocument => document[g].by # u
  BY <1>1 DEF DocumentsInv, RowsAreWhole, RowIsWhole
<1>3. CASE document[f] = NoDocument
  <2>1. document' = [document EXCEPT ![f] = d] /\ Move(u, "embedding")
    BY <1>3 DEF InsertDocument
  <2>2. PICK x \in UploadType : upload' = [upload EXCEPT ![u] = x] /\ x.pc = "embedding"
    BY <1>1, <2>1, MoveGives DEF UploadPC
  <2>3. upload'[u].pc = "embedding"
    BY <2>2 DEF DocumentsInv, UploadsTypeOK
  <2>4. RowIsWhole(d, f, upload')
    BY <2>3 DEF RowIsWhole
  <2> HIDE DEF d, f
  <2>5. /\ DOMAIN document' = File /\ document'[f] = d
        /\ \A g \in File : g # f => document'[g] = document[g]
    BY <1>1, <2>1 DEF DocumentsInv, UploadsTypeOK
  <2>6. ASSUME NEW g \in File, document'[g] # NoDocument
        PROVE  \/ document'[g] = document[g] /\ document[g].by # u
               \/ RowIsWhole(document'[g], g, upload')
    BY <1>2, <2>4, <2>5, <2>6
  <2> QED
    BY <2>2, <2>5, <2>6, UploadMoves
<1>4. CASE document[f] # NoDocument
  <2>1. document' = document /\ Move(u, "error")
    BY <1>4 DEF InsertDocument
  <2>2. PICK x \in UploadType : upload' = [upload EXCEPT ![u] = x] /\ x.pc = "error"
    BY <1>1, <2>1, MoveGives DEF UploadPC
  <2> HIDE DEF d, f
  <2>3. DOMAIN document' = File
    BY <2>1 DEF DocumentsInv, UploadsTypeOK
  <2>4. \A g \in File : document'[g] # NoDocument =>
          document'[g] = document[g] /\ document[g].by # u
    BY <1>2, <2>1
  <2> QED
    BY <2>2, <2>3, <2>4, UploadMoves
<1> QED
  BY <1>3, <1>4

\* The chunks come to the row that the upload inserted, which has none, or to no row.
LEMMA IngestKeeps ==
  ASSUME DocumentsInv, NEW u \in Upload, Ingest(u)
  PROVE  DocumentsInv'
<1> DEFINE f == upload[u].file
           chunks == ChunkText(Text[f])
<1>1. upload[u].pc = "embedding" /\ f \in File
  BY DEF Ingest, DocumentsInv, UploadsTypeOK, UploadType, UploadPC
<1>2. chunks \in Seq(Seq(Ranges(Text[f]))) /\ ChunksAreWhole(f, chunks)
  BY <1>1, ChunkTextIsWhole
<1> HIDE DEF chunks
<1>3. PICK outcome \in {"empty", "failed", "ready"} :
        IF Own(u)
        THEN /\ document' = [document EXCEPT ![f] =
                  [by |-> document[f].by, owner |-> document[f].owner, status |-> outcome,
                   chunks |-> IF outcome = "ready" THEN document[f].chunks \o chunks
                              ELSE document[f].chunks]]
             /\ Move(u, IF outcome = "failed" THEN "error" ELSE "answered")
        ELSE Move(u, "error") /\ UNCHANGED document
  BY <1>1 DEF Ingest, chunks, DocumentsInv, UploadsTypeOK
<1>4. PICK x \in UploadType :
        upload' = [upload EXCEPT ![u] = x] /\ x.pc \in {"error", "answered"} /\ x.file = f
  BY <1>1, <1>3, MoveGives DEF UploadPC
<1>5. upload'[u] = x
  BY <1>4 DEF DocumentsInv, UploadsTypeOK
<1>6. ASSUME NEW g \in File, document[g] # NoDocument, document[g].by = u
      PROVE  RowIsWhole(document[g], g, upload')
  <2>1. RowIsWhole(document[g], g, upload)
    BY <1>6 DEF DocumentsInv, RowsAreWhole
  <2> QED
    BY <1>1, <1>4, <1>5, <1>6, <2>1 DEF RowIsWhole
<1>7. CASE Own(u)
  <2> DEFINE d == [by |-> document[f].by, owner |-> document[f].owner, status |-> outcome,
                   chunks |-> IF outcome = "ready" THEN document[f].chunks \o chunks
                              ELSE document[f].chunks]
  <2>1. document[f] # NoDocument /\ document[f].by = u
    BY <1>7 DEF Own
  <2>2. document[f].chunks = << >>
    <3>1. RowIsWhole(document[f], f, upload)
      BY <1>1, <2>1 DEF DocumentsInv, RowsAreWhole
    <3> QED
      BY <1>1, <2>1, <3>1 DEF RowIsWhole
  <2>3. << >> \o chunks = chunks
    BY <1>2
  <2>4. d.by = u /\ d.status = outcome /\ d.chunks = IF outcome = "ready" THEN chunks ELSE << >>
    BY <2>1, <2>2, <2>3
  <2>5. document' = [document EXCEPT ![f] = d]
    BY <1>3, <1>7
  <2> HIDE DEF d, f
  <2>6. /\ DOMAIN document' = File /\ document'[f] = d
        /\ \A g \in File : g # f => document'[g] = document[g]
    BY <1>1, <2>5 DEF DocumentsInv, UploadsTypeOK
  <2>7. RowIsWhole(d, f, upload')
    BY <1>2, <1>4, <1>5, <2>4 DEF RowIsWhole
  <2>8. ASSUME NEW g \in File, document'[g] # NoDocument
        PROVE  \/ document'[g] = document[g] /\ document[g].by # u
               \/ RowIsWhole(document'[g], g, upload')
    BY <1>6, <2>6, <2>7, <2>8
  <2> QED
    BY <1>4, <2>6, <2>8, UploadMoves
<1>8. CASE ~Own(u)
  <2>1. document' = document /\ DOMAIN document' = File
    BY <1>3, <1>8 DEF DocumentsInv, UploadsTypeOK
  <2> HIDE DEF f
  <2> QED
    BY <1>4, <1>6, <2>1, UploadMoves
<1> QED
  BY <1>7, <1>8

\* A deletion and a restart leave no row with half its chunks.
LEMMA OthersKeepRows ==
  ASSUME DocumentsInv, BackendStops \/ \E f \in File, w \in Owner : DeleteDocument(f, w)
  PROVE  DocumentsInv'
<1>1. CASE BackendStops
  <2>1. document' = document
    BY <1>1 DEF BackendStops
  <2>2. ASSUME NEW u \in Upload
        PROVE  /\ upload'[u] \in UploadType
               /\ \/ upload'[u].pc = upload[u].pc
                  \/ upload[u].pc \in {"inserting", "embedding"} /\ upload'[u].pc = "error"
    <3>1. upload[u] \in UploadType
      BY DEF DocumentsInv, UploadsTypeOK
    <3>2. CASE upload[u].pc \in {"inserting", "embedding"}
      <4>1. upload[u] \in [pc : UploadPC \ {"free"}, file : File, owner : Owner]
        BY <3>1, <3>2 DEF UploadType
      <4>2. upload'[u] = [upload[u] EXCEPT !.pc = "error"]
        BY <1>1, <3>2 DEF BackendStops
      <4> QED
        BY <3>2, <4>1, <4>2 DEF UploadType, UploadPC
    <3>3. CASE upload[u].pc \notin {"inserting", "embedding"}
      BY <1>1, <3>1, <3>3 DEF BackendStops
    <3> QED
      BY <3>2, <3>3
  <2>3. UploadsTypeOK'
    BY <1>1, <2>1, <2>2 DEF BackendStops, DocumentsInv, UploadsTypeOK
  <2>4. ASSUME NEW f \in File, document[f] # NoDocument
        PROVE  RowIsWhole(document[f], f, upload')
    <3>1. RowIsWhole(document[f], f, upload)
      BY <2>4 DEF DocumentsInv, RowsAreWhole
    <3> QED
      BY <2>2, <3>1 DEF RowIsWhole
  <2> QED
    BY <2>1, <2>3, <2>4 DEF DocumentsInv, RowsAreWhole
<1>2. ASSUME NEW f \in File, NEW w \in Owner, DeleteDocument(f, w)
      PROVE  DocumentsInv'
  <2>1. document' = [document EXCEPT ![f] = NoDocument] /\ upload' = upload
    BY <1>2 DEF DeleteDocument
  <2>2. /\ DOMAIN document' = File
        /\ \A g \in File : document'[g] # NoDocument => document'[g] = document[g]
    BY <2>1 DEF DocumentsInv, UploadsTypeOK
  <2> QED
    BY <2>1, <2>2 DEF DocumentsInv, UploadsTypeOK, RowsAreWhole
<1> QED
  BY <1>1, <1>2

\* Whatever crosses, fails or is deleted, a document that is ready has its whole text in
\* its chunks once, as chunk_text cuts it, and one that is not ready has none.
THEOREM DocumentsStayWhole == DocumentsSpec => []DocumentsAreWhole
<1>1. DocumentsInit => DocumentsInv
  BY DEF DocumentsInit, DocumentsInv, UploadsTypeOK, UploadType, RowsAreWhole
<1>2. DocumentsInv /\ [DocumentsNext]_documentVars => DocumentsInv'
  <2> SUFFICES ASSUME DocumentsInv, [DocumentsNext]_documentVars PROVE DocumentsInv'
    OBVIOUS
  <2>1. ASSUME NEW u \in Upload, NEW f \in File, NEW w \in Owner, Look(u, f, w)
        PROVE  DocumentsInv'
    BY <2>1, LookKeeps
  <2>2. ASSUME NEW u \in Upload, InsertDocument(u) PROVE DocumentsInv'
    BY <2>2, InsertKeeps
  <2>3. ASSUME NEW u \in Upload, Ingest(u) PROVE DocumentsInv'
    BY <2>3, IngestKeeps
  <2>4. CASE BackendStops \/ \E f \in File, w \in Owner : DeleteDocument(f, w)
    BY <2>4, OthersKeepRows
  <2>5. CASE UNCHANGED documentVars
    BY <2>5 DEF documentVars, DocumentsInv, UploadsTypeOK, RowsAreWhole
  <2> QED
    BY <2>1, <2>2, <2>3, <2>4, <2>5 DEF DocumentsNext
<1>3. DocumentsInv => DocumentsAreWhole
  BY DEF DocumentsInv, RowsAreWhole, RowIsWhole, DocumentsAreWhole
<1> QED
  BY <1>1, <1>2, <1>3, PTL DEF DocumentsSpec

-----------------------------------------------------------------------------

(***************************************************************************)
(* DelegationsAreWhole for any number of workers, nodes, turns and pieces. *)
(* What the manager hears piece by piece and what the session holds answer *)
(* by answer say the same; once the result is stored, so does the database *)
(* as long as the worker is there.                                         *)
(***************************************************************************)

BossPC == {"none", "thinking", "starting", "refused", "picking", "placing", "streaming",
           "answering", "over"}

\* The pieces of a delegation, those of the answers and those the pages have heard.
Texts == Seq(Seq(Nat))
BossType ==
  [pc : BossPC, worker : Worker \cup {NoWorker}, offered : SUBSET Worker, tries : Nat,
   turns : Nat, pieces : Nat, calls : Nat, text : Seq(Nat)]
DelegationType ==
  /\ boss \in BossType
  /\ open \in BOOLEAN /\ team \in SUBSET Worker
  /\ answers \in Texts /\ stored \in Texts
  /\ feed \in [said : Seq(Nat), ends : Nat]

\* The session holds what the worker has said, whatever was cleaned of it.
SessionAgrees ==
  /\ Spoken(boss.text) = Spoken(FlattenSeq(answers))
  /\ boss.pc = "streaming" => answers # << >>
\* So do the pages, and they hear of its end with the last answer.
FeedAgrees ==
  /\ feed.said = boss.text
  /\ boss.pc \in {"starting", "refused", "picking", "placing", "streaming"} => feed.ends = 0
  /\ boss.pc = "answering" => feed.ends = 1
\* A result is there when the manager goes on, with all of it.
ResultAgrees ==
  results # NoResult =>
    /\ boss.pc \in {"thinking", "over"}
    /\ results = [worker |-> boss.worker, text |-> boss.text]
    /\ feed.ends = 1
    /\ boss.worker \in team => stored = answers

DelegationInv == DelegationType /\ SessionAgrees /\ FeedAgrees /\ ResultAgrees

-----------------------------------------------------------------------------

\* What is left of a piece.
Heard == [piece \in Nat |-> IF piece = Written THEN << >> ELSE <<piece>>]

\* Spoken keeps the pieces that are no written call.
LEMMA SpokenIsSpread ==
  /\ Maps(Heard, Nat, Nat) /\ \A x \in Nat : Spread(Heard[x], Heard) = Heard[x]
  /\ \A s \in Seq(Nat) : Spoken(s) = Spread(s, Heard)
<1>1. Maps(Heard, Nat, Nat)
  BY DEF Maps, Heard
<1>2. ASSUME NEW x \in Nat
      PROVE  Spread(Heard[x], Heard) = Heard[x]
  <2>1. CASE x = Written
    BY <2>1, SpreadNone DEF Heard
  <2>2. CASE x # Written
    <3>1. Heard[x] = <<x>>
      BY <2>2 DEF Heard
    <3>2. Spread(<<x>>, Heard) = Heard[x]
      BY <1>1, SpreadOne
    <3> QED
      BY <3>1, <3>2
  <2> QED
    BY <2>1, <2>2
<1>3. ASSUME NEW s \in Seq(Nat)
      PROVE  Spoken(s) = Spread(s, Heard)
  <2> DEFINE a == [i \in 1 .. Len(s) |-> IF s[i] = Written THEN << >> ELSE <<s[i]>>]
             b == [i \in 1 .. Len(s) |-> Heard[s[i]]]
  <2>1. \A i \in 1 .. Len(s) : s[i] \in Nat
    OBVIOUS
  <2>2. \A i \in 1 .. Len(s) : Heard[s[i]] = IF s[i] = Written THEN << >> ELSE <<s[i]>>
    BY <2>1 DEF Heard
  <2>3. a = b
    BY <2>2
  <2> QED
    BY <2>3 DEF Spoken, Spread
<1> QED
  BY <1>1, <1>2, <1>3

\* One more piece is heard, or not if it is a written call; what is clean stays as it is.
LEMMA SpokenFacts ==
  ASSUME NEW s \in Seq(Nat), NEW t \in Seq(Nat)
  PROVE  /\ Spoken(s) \in Seq(Nat)
         /\ Spoken(s \o t) = Spoken(s) \o Spoken(t)
         /\ Spoken(Spoken(s)) = Spoken(s)
<1>1. Maps(Heard, Nat, Nat) /\ \A x \in Nat : Spread(Heard[x], Heard) = Heard[x]
  BY SpokenIsSpread
<1>2. Spread(s, Heard) \in Seq(Nat)
  <2>1. 0 \in Nat
    OBVIOUS
  <2> QED
    BY <1>1, <2>1, SpreadAppend
<1>3. Spread(s \o t, Heard) = Spread(s, Heard) \o Spread(t, Heard)
  BY <1>1, SpreadConcat
<1>4. Spread(Spread(s, Heard), Heard) = Spread(s, Heard)
  BY <1>1, SpreadTwice
<1>5. s \o t \in Seq(Nat)
  OBVIOUS
<1>6. \A u \in Seq(Nat) : Spoken(u) = Spread(u, Heard)
  BY SpokenIsSpread
<1> QED
  BY <1>2, <1>3, <1>4, <1>5, <1>6

\* The flat text of some answers, and of those with another last one.
LEMMA AnswersFlatten ==
  ASSUME NEW s \in Texts
  PROVE  /\ FlattenSeq(s) \in Seq(Nat)
         /\ FlattenSeq(Append(s, << >>)) = FlattenSeq(s)
<1>1. << >> \in Seq(Nat)
  OBVIOUS
<1>2. FlattenSeq(s) \in Seq(Nat)
  BY <1>1, FlattenAppend DEF Texts
<1>3. FlattenSeq(Append(s, << >>)) = FlattenSeq(s) \o << >>
  BY <1>1, FlattenAppend DEF Texts
<1> QED
  BY <1>2, <1>3

\* Answers whose last one has one more piece.
Longer(s, piece) == [s EXCEPT ![Len(s)] = Append(@, piece)]

\* A piece said twice, to the last answer and to the text, leaves them alike.
LEMMA SaidTwice ==
  ASSUME NEW s \in Texts, s # << >>, NEW text \in Seq(Nat), NEW piece \in Nat,
         Spoken(text) = Spoken(FlattenSeq(s))
  PROVE  /\ Longer(s, piece) \in Texts
         /\ Spoken(Append(text, piece)) = Spoken(FlattenSeq(Longer(s, piece)))
<1> DEFINE z == Last(s)
           y == Append(z, piece)
           f == FlattenSeq(Front(s))
           r == [s EXCEPT ![Len(s)] = y]
           p == <<piece>>
<1>1. Front(s) \in Texts /\ z \in Seq(Nat)
  <2>1. << >> \in Seq(Nat)
    OBVIOUS
  <2> QED
    BY <2>1, FlattenLast DEF Texts
<1>2. y = z \o p /\ y \in Seq(Nat) /\ p \in Seq(Nat) /\ Append(text, piece) = text \o p
  BY <1>1
<1>3. f \in Seq(Nat)
  BY <1>1, AnswersFlatten
<1>4. Longer(s, piece) = r
  BY DEF Last, Longer
<1> HIDE DEF z, y
<1>5. FlattenSeq(s) = f \o z /\ FlattenSeq(r) = f \o y /\ r \in Texts
  <2>1. s \in Seq(Seq(Nat)) /\ y \in Seq(Nat)
    BY <1>2 DEF Texts
  <2> HIDE DEF f, r
  <2>2. /\ r \in Seq(Seq(Nat)) /\ FlattenSeq(s) = f \o z /\ FlattenSeq(r) = f \o y
    BY <2>1, FlattenLast DEF f, r, z
  <2> QED
    BY <2>2 DEF Texts
<1> HIDE DEF f, r, p
<1>6. f \o (z \o p) = (f \o z) \o p /\ f \o z \in Seq(Nat)
  <2>1. f \in Seq(Nat) /\ z \in Seq(Nat) /\ p \in Seq(Nat)
    BY <1>1, <1>2, <1>3
  <2>2. f \o (z \o p) = (f \o z) \o p
    <3> DEFINE V == Nat
    <3>1. f \in Seq(V) /\ z \in Seq(V) /\ p \in Seq(V)
      BY <2>1
    <3> HIDE DEF V
    <3> QED
      BY <3>1, ConcatAssociative, SMTT(30)
  <2>3. f \o z \in Seq(Nat)
    BY <2>1
  <2> QED
    BY <2>2, <2>3
<1>7. Spoken(text \o p) = Spoken(text) \o Spoken(p)
  BY <1>2, SpokenFacts
<1>8. Spoken((f \o z) \o p) = Spoken(f \o z) \o Spoken(p)
  BY <1>2, <1>6, SpokenFacts
<1> QED
  BY <1>2, <1>4, <1>5, <1>6, <1>7, <1>8

\* Written calls taken out of the last answer change nothing of what is spoken.
LEMMA CleanedLast ==
  ASSUME NEW s \in Texts, s # << >>
  PROVE  /\ [s EXCEPT ![Len(s)] = Spoken(@)] \in Texts
         /\ Spoken(FlattenSeq([s EXCEPT ![Len(s)] = Spoken(@)])) = Spoken(FlattenSeq(s))
<1> DEFINE z == Last(s)
           y == Spoken(z)
           f == FlattenSeq(Front(s))
           r == [s EXCEPT ![Len(s)] = y]
<1>1. Front(s) \in Texts /\ z \in Seq(Nat)
  <2>1. << >> \in Seq(Nat)
    OBVIOUS
  <2> QED
    BY <2>1, FlattenLast DEF Texts
<1>2. f \in Seq(Nat)
  BY <1>1, AnswersFlatten
<1>3. [s EXCEPT ![Len(s)] = Spoken(@)] = r
  BY DEF Last
<1> HIDE DEF z
<1>4. y \in Seq(Nat) /\ Spoken(y) = Spoken(z)
  BY <1>1, SpokenFacts
<1> HIDE DEF y
<1>5. FlattenSeq(s) = f \o z /\ FlattenSeq(r) = f \o y /\ r \in Texts
  <2>1. s \in Seq(Seq(Nat)) /\ y \in Seq(Nat)
    BY <1>4 DEF Texts
  <2> HIDE DEF f, r
  <2>2. /\ r \in Seq(Seq(Nat)) /\ FlattenSeq(s) = f \o z /\ FlattenSeq(r) = f \o y
    BY <2>1, FlattenLast DEF f, r, z
  <2> QED
    BY <2>2 DEF Texts
<1> HIDE DEF f, r
<1>6. Spoken(f \o z) = Spoken(f) \o Spoken(z)
  BY <1>1, <1>2, SpokenFacts
<1>7. Spoken(f \o y) = Spoken(f) \o Spoken(y)
  BY <1>2, <1>4, SpokenFacts
<1> QED
  BY <1>3, <1>4, <1>5, <1>6, <1>7

-----------------------------------------------------------------------------

\* At the start nothing is said.
LEMMA DelegationStarts == ASSUME WorkspaceInit PROVE DelegationInv
<1> USE WorkspaceAssumption DEF WorkspaceInit
<1>1. DelegationType
  <2>1. << >> \in Seq(Nat) /\ << >> \in Texts
    BY DEF Texts
  <2> QED
    BY <2>1 DEF BossType, DelegationType, NoBoss, NoFeed, BossPC
<1>2. SessionAgrees
  <2>1. FlattenSeq(answers) = << >> /\ boss.text = << >> /\ boss.pc = "none"
    BY FlattenNone DEF NoBoss
  <2> QED
    BY <2>1 DEF SessionAgrees
<1>3. FeedAgrees /\ ResultAgrees
  BY DEF FeedAgrees, ResultAgrees, NoBoss, NoFeed
<1> QED
  BY <1>1, <1>2, <1>3 DEF DelegationInv


\* Where the manager may go without a word, with what is stored.
LEMMA BossPasses ==
  ASSUME DelegationInv, NEW pc \in BossPC, BossGoes(pc), open' \in BOOLEAN, team' \in SUBSET Worker,
         UNCHANGED <<answers, feed, results>>, stored' \in Texts,
         pc = "streaming" => answers # << >>,
         pc \in {"starting", "refused", "picking", "placing", "streaming"} => feed.ends = 0,
         pc # "answering",
         results # NoResult => pc \in {"thinking", "over"},
         results # NoResult => (boss.worker \in team' => stored' = answers)
  PROVE  DelegationInv'
<1> USE DEF DelegationInv, BossGoes
<1>1. boss'.pc = pc /\ boss'.worker = boss.worker /\ boss'.text = boss.text
  BY DEF BossType, DelegationType
<1>2. DelegationType'
  BY DEF BossType, DelegationType
<1>3. SessionAgrees'
  BY <1>1 DEF SessionAgrees
<1>4. FeedAgrees'
  BY <1>1 DEF FeedAgrees
<1>5. ResultAgrees'
  BY <1>1 DEF ResultAgrees, NoResult
<1> QED
  BY <1>2, <1>3, <1>4, <1>5

\* Every step keeps the delegation whole.
LEMMA DelegationStep == ASSUME DelegationInv, [WorkspaceNext]_workspaceVars PROVE DelegationInv'
<1> USE WorkspaceAssumption
<1>t. DelegationType /\ boss.pc \in BossPC /\ boss.worker \in Worker \cup {NoWorker} /\ boss.text \in Seq(Nat)
  BY DEF BossType, DelegationInv, DelegationType
<1>r. Raise => DelegationInv'
  <2> SUFFICES ASSUME Raise PROVE DelegationInv'
    OBVIOUS
  <2>1. "over" \in BossPC /\ stored' \in Texts /\ open' \in BOOLEAN /\ team' \in SUBSET Worker
    BY <1>t DEF BossType, Raise, BossPC, DelegationType
  <2>2. results # NoResult => (boss.worker \in team' => stored' = answers)
    BY DEF Raise, DelegationInv, ResultAgrees
  <2> QED
    BY <2>1, <2>2, BossPasses DEF Raise
<1>1. ASSUME CreateWorkspace PROVE DelegationInv'
  <2> USE <1>1, <1>t DEF CreateWorkspace
  <2>1. results = NoResult
    BY DEF DelegationInv, ResultAgrees
  <2>2. /\ boss'.pc = "thinking" /\ boss'.text = boss.text /\ boss' \in BossType
    BY DEF BossType, DelegationType, BossPC
  <2>3. DelegationType'
    BY <2>2 DEF BossType, DelegationType
  <2> QED
    BY <2>1, <2>2, <2>3 DEF DelegationInv, SessionAgrees, FeedAgrees, ResultAgrees, NoResult
<1>2. ASSUME NEW gone \in SUBSET Worker, team' = team \ gone, Forget(gone \cap team), open' \in BOOLEAN,
             UNCHANGED <<boss, answers, feed, results>>
      PROVE  DelegationInv'
  <2>1. stored' \in Texts
    <3>1. << >> \in Texts
      BY DEF Texts
    <3> QED
      BY <1>2, <1>t, <3>1 DEF BossType, Forget, DelegationType
  <2>2. DelegationType'
    BY <1>2, <1>t, <2>1 DEF BossType, DelegationType
  <2>3. ResultAgrees'
    BY <1>2 DEF DelegationInv, ResultAgrees, NoResult, Forget
  <2> QED
    BY <1>2, <2>2, <2>3 DEF DelegationInv, SessionAgrees, FeedAgrees
<1>3. ASSUME NEW w \in Worker, DeleteWorker(w) PROVE DelegationInv'
  <2>1. {w} \in SUBSET Worker /\ {w} \cap team = {w} /\ open' \in BOOLEAN
    BY <1>3, <1>t DEF BossType, DeleteWorker, DelegationType
  <2> QED
    BY <1>2, <1>3, <2>1 DEF DeleteWorker
<1>4. ASSUME DeleteWorkspace PROVE DelegationInv'
  <2>1. team \in SUBSET Worker /\ team \cap team = team /\ team \ team = {} /\ open' \in BOOLEAN
    BY <1>4, <1>t DEF BossType, DeleteWorkspace, DelegationType
  <2> QED
    BY <1>2, <1>4, <2>1 DEF DeleteWorkspace
<1>5. ASSUME NEW w \in Worker, Delegate(w) PROVE DelegationInv'
  <2> USE <1>5 DEF Delegate
  <2>1. PICK pc \in {"starting", "refused"} : boss' = [boss EXCEPT !.pc = pc, !.worker = w,
                          !.calls = @ + 1, !.text = << >>, !.tries = 0, !.turns = 0, !.pieces = 0]
    OBVIOUS
  <2>2. pc \in BossPC
    BY DEF BossPC
  <2>3. boss' = [pc |-> pc, worker |-> w, offered |-> boss.offered, tries |-> 0, turns |-> 0,
                 pieces |-> 0, calls |-> boss.calls + 1, text |-> << >>]
    BY <1>t, <2>1 DEF BossType, DelegationType
  <2>4. DelegationType'
    <3>1. << >> \in Seq(Nat) /\ << >> \in Texts /\ boss.calls + 1 \in Nat
      BY <1>t DEF BossType, Texts, DelegationType
    <3>2. boss' \in BossType
      <4> HIDE <1>5
      <4>1. boss.offered \in SUBSET Worker
        BY <1>t DEF DelegationType, BossType
      <4> QED
        BY <2>2, <2>3, <3>1, <4>1 DEF BossType
    <3>3. feed' \in [said : Seq(Nat), ends : Nat]
      BY <3>1 DEF NoFeed
    <3> QED
      BY <1>t, <3>1, <3>2, <3>3 DEF DelegationType
  <2>5. SessionAgrees'
    <3>1. answers' = << >> /\ boss'.text = << >> /\ FlattenSeq(<< >>) = << >> /\ boss'.pc # "streaming"
      BY <2>3, FlattenNone
    <3> QED
      BY <3>1 DEF SessionAgrees
  <2>6. FeedAgrees' /\ ResultAgrees'
    BY <2>3 DEF FeedAgrees, ResultAgrees, NoFeed, NoResult
  <2> QED
    BY <2>4, <2>5, <2>6 DEF DelegationInv
<1>6. ASSUME PromptWorker PROVE DelegationInv'
  <2>1. CASE BossGoes("picking") /\ UNCHANGED <<open, team, answers, stored, feed, results>>
    <3>1. "picking" \in BossPC /\ stored' \in Texts /\ open' \in BOOLEAN /\ team' \in SUBSET Worker
      BY <1>t, <2>1 DEF BossType, BossPC, DelegationType
    <3>2. results = NoResult /\ feed.ends = 0
      BY <1>6 DEF PromptWorker, BossAt, DelegationInv, ResultAgrees, FeedAgrees
    <3> QED
      BY <2>1, <3>1, <3>2, BossPasses
  <2> QED
    BY <1>6, <1>r, <2>1 DEF PromptWorker
<1>7. ASSUME WorkerEnds, boss.pc \in {"picking", "streaming"}, answers' \in Texts, stored' \in Texts,
             Spoken(boss.text) = Spoken(FlattenSeq(answers')), UNCHANGED <<open, team, results>>
      PROVE  DelegationInv'
  <2> USE <1>7 DEF WorkerEnds
  <2>1. boss'.pc = "answering" /\ boss'.text = boss.text
        /\ boss' \in BossType
    BY <1>t DEF BossType, DelegationType, BossPC
  <2>2. feed.ends = 0 /\ results = NoResult
    BY DEF DelegationInv, FeedAgrees, ResultAgrees
  <2>3. feed'.ends = 1 /\ feed'.said = feed.said /\ feed' \in [said : Seq(Nat), ends : Nat]
    <3>1. feed \in [said : Seq(Nat), ends : Nat]
      BY <1>t DEF DelegationType
    <3>2. feed' = [said |-> feed.said, ends |-> 1]
      BY <2>2, <3>1
    <3> QED
      BY <3>1, <3>2
  <2>4. DelegationType'
    BY <1>t, <2>1, <2>3 DEF BossType, DelegationType
  <2> QED
    BY <2>1, <2>2, <2>3, <2>4 DEF DelegationInv, SessionAgrees, FeedAgrees, ResultAgrees, NoResult
<1>8. ASSUME PickForWorker PROVE DelegationInv'
  <2>1. ASSUME boss' = [boss EXCEPT !.pc = "placing", !.turns = @ + 1], UNCHANGED <<open, team, answers, stored, feed, results>>
        PROVE  DelegationInv'
    <3> USE <2>1
    <3>1. boss'.pc = "placing" /\ boss'.text = boss.text
        /\ boss' \in BossType
      <4>1. boss' = [pc |-> "placing", worker |-> boss.worker, offered |-> boss.offered,
                     tries |-> boss.tries, turns |-> boss.turns + 1, pieces |-> boss.pieces,
                     calls |-> boss.calls, text |-> boss.text]
        BY <1>t DEF BossType, DelegationType
      <4> QED
        BY <1>t, <4>1 DEF BossType, DelegationType, BossPC
    <3>2. feed.ends = 0 /\ results = NoResult
      BY <1>8 DEF PickForWorker, BossAt, DelegationInv, FeedAgrees, ResultAgrees
    <3>3. DelegationType'
      BY <1>t, <3>1 DEF BossType, DelegationType
    <3> QED
      BY <3>1, <3>2, <3>3 DEF DelegationInv, SessionAgrees, FeedAgrees, ResultAgrees, NoResult
  <2>2. ASSUME WorkerEnds, UNCHANGED <<open, team, answers, stored, results>> PROVE DelegationInv'
    <3>1. answers' \in Texts /\ stored' \in Texts /\ Spoken(boss.text) = Spoken(FlattenSeq(answers'))
      BY <1>t, <2>2 DEF BossType, DelegationType, DelegationInv, SessionAgrees
    <3>2. boss.pc = "picking"
      BY <1>8 DEF PickForWorker, BossAt
    <3> QED
      BY <1>7, <2>2, <3>1, <3>2
  <2> QED
    BY <1>8, <1>r, <2>1, <2>2 DEF PickForWorker
<1>9. ASSUME PlaceAnswer PROVE DelegationInv'
  <2>1. ASSUME answers' = Append(answers, << >>), stored' = answers', BossGoes("streaming"),
               UNCHANGED <<open, team, feed, results>>
        PROVE  DelegationInv'
    <3> USE <2>1
    <3>1. answers' \in Texts /\ answers' # << >>
      <4>1. answers \in Seq(Seq(Nat)) /\ << >> \in Seq(Nat)
        BY <1>t DEF BossType, DelegationType, Texts
      <4> QED
        BY <4>1, AppendProperties DEF Texts
    <3>2. FlattenSeq(answers') = FlattenSeq(answers)
      BY <1>t, AnswersFlatten DEF BossType, DelegationType
    <3>3. boss'.pc = "streaming" /\ boss'.text = boss.text
        /\ boss' \in BossType
      BY <1>t DEF BossType, DelegationType, BossPC, BossGoes
    <3>4. feed.ends = 0 /\ results = NoResult
      BY <1>9 DEF PlaceAnswer, BossAt, DelegationInv, FeedAgrees, ResultAgrees
    <3>5. DelegationType'
      BY <1>t, <3>1, <3>3 DEF BossType, DelegationType
    <3> QED
      BY <3>1, <3>2, <3>3, <3>4, <3>5 DEF DelegationInv, SessionAgrees, FeedAgrees, ResultAgrees, NoResult
  <2> QED
    BY <1>9, <1>r, <2>1 DEF PlaceAnswer
<1>10. ASSUME Say PROVE DelegationInv'
  <2> USE <1>10 DEF Say, BossAt
  <2>1. PICK piece \in {boss.pieces + 1, Written} :
       /\ answers' = [answers EXCEPT ![Len(answers)] = Append(@, piece)]
       /\ boss' = [boss EXCEPT !.text = Append(@, piece), !.pieces = @ + 1]
       /\ feed' = [feed EXCEPT !.said = Append(@, piece)]
    OBVIOUS
  <2>2. piece \in Nat
    BY <1>t DEF BossType, DelegationType, Written
  <2>3. boss'.pc = boss.pc /\ boss'.text = Append(boss.text, piece) /\ Append(boss.text, piece) \in Seq(Nat)
        /\ boss' \in BossType
    <3>1. boss' = [pc |-> boss.pc, worker |-> boss.worker, offered |-> boss.offered,
                   tries |-> boss.tries, turns |-> boss.turns, pieces |-> boss.pieces + 1,
                   calls |-> boss.calls, text |-> Append(boss.text, piece)]
      BY <1>t, <2>1 DEF BossType, DelegationType
    <3>2. Append(boss.text, piece) \in Seq(Nat)
      BY <1>t, <2>2
    <3>3. boss \in BossType
      BY <1>t DEF DelegationType
    <3> HIDE <1>10
    <3>4. boss' \in BossType
      <4> DEFINE text == Append(boss.text, piece)
      <4>1. boss' = [pc |-> boss.pc, worker |-> boss.worker, offered |-> boss.offered,
                     tries |-> boss.tries, turns |-> boss.turns, pieces |-> boss.pieces + 1,
                     calls |-> boss.calls, text |-> text] /\ text \in Seq(Nat)
        BY <3>1, <3>2
      <4> HIDE DEF text
      <4> QED
        BY <3>3, <4>1 DEF BossType
    <3> QED
      BY <3>1, <3>2, <3>4
  <2>4. feed'.said = Append(feed.said, piece) /\ feed'.ends = feed.ends /\ feed' \in [said : Seq(Nat), ends : Nat]
    <3>1. feed \in [said : Seq(Nat), ends : Nat]
      BY <1>t DEF BossType, DelegationType
    <3>2. Append(feed.said, piece) \in Seq(Nat)
      BY <2>2, <3>1
    <3>3. feed' = [said |-> Append(feed.said, piece), ends |-> feed.ends]
      BY <2>1, <3>1
    <3> QED
      BY <3>1, <3>2, <3>3
  <2>5. answers' \in Texts /\ Spoken(Append(boss.text, piece)) = Spoken(FlattenSeq(answers'))
    <3>1. answers \in Texts /\ answers # << >> /\ Spoken(boss.text) = Spoken(FlattenSeq(answers))
      BY <1>t DEF BossType, DelegationType, DelegationInv, SessionAgrees
    <3>2. /\ Longer(answers, piece) \in Texts
          /\ Spoken(Append(boss.text, piece)) = Spoken(FlattenSeq(Longer(answers, piece)))
      BY <1>t, <2>2, <3>1, SaidTwice
    <3> QED
      BY <2>1, <3>2 DEF Longer
  <2>6. answers' # << >>
    <3>1. Len(answers') = Len(answers) /\ answers # << >> /\ answers \in Seq(Seq(Nat))
      BY <1>t, <2>1 DEF BossType, DelegationType, DelegationInv, SessionAgrees, Texts
    <3>2. Len(answers') # 0
      BY <3>1
    <3> QED
      BY <3>2
  <2>7. DelegationType'
    BY <1>t, <2>3, <2>4, <2>5 DEF BossType, DelegationType
  <2>8. feed.ends = 0 /\ results = NoResult /\ feed.said = boss.text
    BY DEF DelegationInv, FeedAgrees, ResultAgrees
  <2> QED
    BY <2>3, <2>4, <2>5, <2>6, <2>7, <2>8 DEF DelegationInv, SessionAgrees, FeedAgrees, ResultAgrees, NoResult
<1>11. ASSUME EndAnswer PROVE DelegationInv'
  <2>1. boss.pc = "streaming" /\ answers \in Texts /\ answers # << >> /\ feed.ends = 0 /\ results = NoResult
        /\ Spoken(boss.text) = Spoken(FlattenSeq(answers))
    BY <1>11, <1>t DEF BossType, EndAnswer, BossAt, DelegationType, DelegationInv, SessionAgrees, FeedAgrees, ResultAgrees
  <2>2. ASSUME answers' \in Texts, Spoken(boss.text) = Spoken(FlattenSeq(answers')), BossGoes("picking"),
               feed' = feed, stored' = answers', UNCHANGED <<open, team, results>>
        PROVE  DelegationInv'
    <3> USE <2>2
    <3>1. boss'.pc = "picking" /\ boss'.text = boss.text
        /\ boss' \in BossType
      BY <1>t DEF BossType, DelegationType, BossPC, BossGoes
    <3>2. DelegationType'
      BY <1>t, <3>1 DEF BossType, DelegationType
    <3> QED
      BY <2>1, <3>1, <3>2 DEF DelegationInv, SessionAgrees, FeedAgrees, ResultAgrees, NoResult
  <2>3. ASSUME boss.worker \in team PROVE DelegationInv'
    <3>1. CASE answers' = answers /\ WorkerEnds
      BY <1>7, <1>11, <2>1, <2>3, <3>1 DEF EndAnswer
    <3>2. CASE answers' = answers /\ BossGoes("picking") /\ feed' = feed
      BY <1>11, <2>1, <2>2, <2>3, <3>2 DEF EndAnswer
    <3>3. CASE answers' = [answers EXCEPT ![Len(answers)] = Spoken(@)] /\ BossGoes("picking") /\ feed' = feed
      <4>1. answers' \in Texts /\ Spoken(FlattenSeq(answers')) = Spoken(FlattenSeq(answers))
        BY <2>1, <3>3, CleanedLast
      <4> QED
        BY <1>11, <2>1, <2>2, <2>3, <3>3, <4>1 DEF EndAnswer
    <3> QED
      BY <1>11, <2>3, <3>1, <3>2, <3>3 DEF EndAnswer
  <2> QED
    BY <1>11, <1>r, <2>3 DEF EndAnswer
<1>12. ASSUME NodeBreaks PROVE DelegationInv'
  <2> USE <1>12 DEF NodeBreaks, BossAt
  <2>1. boss'.pc = "picking" /\ boss'.text = boss.text
        /\ boss' \in BossType
    <3>1. boss' = [pc |-> "picking", worker |-> boss.worker, offered |-> boss.offered,
                   tries |-> boss.tries + 1, turns |-> boss.turns, pieces |-> boss.pieces,
                   calls |-> boss.calls, text |-> boss.text]
      BY <1>t DEF BossType, DelegationType
    <3> QED
      BY <1>t, <3>1 DEF BossType, DelegationType, BossPC
  <2>2. DelegationType'
    BY <1>t, <2>1 DEF BossType, DelegationType
  <2> QED
    BY <2>1, <2>2 DEF DelegationInv, SessionAgrees, FeedAgrees, ResultAgrees, NoResult
<1>13. ASSUME StoreResult PROVE DelegationInv'
  <2>1. ASSUME open, Committed(answers), results' = [worker |-> boss.worker, text |-> boss.text],
               stored' = IF boss.worker \in team THEN answers ELSE stored, BossGoes("thinking"),
               UNCHANGED <<open, team, answers, feed>>
        PROVE  DelegationInv'
    <3> USE <2>1
    <3>1. boss'.pc = "thinking" /\ boss'.text = boss.text /\ boss'.worker = boss.worker
        /\ boss' \in BossType
      BY <1>t DEF BossType, DelegationType, BossPC, BossGoes
    <3>2. feed.ends = 1
      BY <1>13 DEF StoreResult, BossAt, DelegationInv, FeedAgrees
    <3>3. DelegationType'
      BY <1>t, <3>1 DEF BossType, DelegationType
    <3>4. boss.worker \in team => stored' = answers
      OBVIOUS
    <3>5. ResultAgrees'
      BY <3>1, <3>2, <3>4 DEF ResultAgrees
    <3> QED
      BY <3>1, <3>2, <3>3, <3>5 DEF DelegationInv, SessionAgrees, FeedAgrees
  <2> QED
    BY <1>13, <1>r, <2>1 DEF StoreResult
<1>14. ASSUME StoreRefusal PROVE DelegationInv'
  <2>1. CASE BossGoes("thinking") /\ UNCHANGED <<open, team, answers, stored, feed, results>>
    <3>1. "thinking" \in BossPC /\ stored' \in Texts /\ open' \in BOOLEAN /\ team' \in SUBSET Worker
      BY <1>t, <2>1 DEF BossType, BossPC, DelegationType
    <3>2. results = NoResult
      BY <1>14 DEF StoreRefusal, BossAt, DelegationInv, ResultAgrees
    <3> QED
      BY <2>1, <3>1, <3>2, BossPasses
  <2> QED
    BY <1>14, <1>r, <2>1 DEF StoreRefusal
<1>15. ASSUME BossStops PROVE DelegationInv'
  <2>1. "over" \in BossPC /\ stored' \in Texts /\ open' \in BOOLEAN /\ team' \in SUBSET Worker
    BY <1>t, <1>15 DEF BossType, BossStops, BossPC, DelegationType
  <2>2. results # NoResult => (boss.worker \in team' => stored' = answers)
    BY <1>15 DEF BossStops, BossAt, DelegationInv, ResultAgrees
  <2> QED
    BY <1>15, <2>1, <2>2, BossPasses DEF BossStops
<1>16. ASSUME UNCHANGED workspaceVars PROVE DelegationInv'
  BY <1>16 DEF BossType, workspaceVars, DelegationInv, DelegationType, SessionAgrees, FeedAgrees, ResultAgrees
<1> QED
  BY <1>1, <1>3, <1>4, <1>5, <1>6, <1>8, <1>9, <1>10, <1>11, <1>12, <1>13, <1>14, <1>15, <1>16 DEF WorkspaceNext

\* DelegationsAreWhole: a manager is told all that its worker's conversation holds of the
\* task, and the pages that follow have heard the same and one end, whatever nodes broke,
\* whatever calls were written into the text and whichever conversations were deleted.
THEOREM DelegationsWhole == WorkspaceSpec => []DelegationsAreWhole
<1>1. WorkspaceInit => DelegationInv
  BY DelegationStarts
<1>2. DelegationInv /\ [WorkspaceNext]_workspaceVars => DelegationInv'
  BY DelegationStep
<1>3. DelegationInv => DelegationsAreWhole
  <2> SUFFICES ASSUME DelegationInv, results # NoResult
               PROVE  /\ results.worker \in team => Spoken(results.text) = Spoken(FlattenSeq(stored))
                      /\ feed = [said |-> results.text, ends |-> 1]
    BY DEF DelegationsAreWhole
  <2>1. results.worker = boss.worker /\ results.text = boss.text /\ feed.ends = 1 /\ feed.said = boss.text
        /\ (boss.worker \in team => stored = answers)
    BY DEF DelegationInv, ResultAgrees, FeedAgrees
  <2>2. feed = [said |-> boss.text, ends |-> 1]
    BY <2>1 DEF BossType, DelegationInv, DelegationType
  <2> QED
    BY <2>1, <2>2 DEF DelegationInv, SessionAgrees
<1> QED
  BY <1>1, <1>2, <1>3, PTL DEF WorkspaceSpec
=============================================================================
