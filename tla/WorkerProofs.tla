---------------------------- MODULE WorkerProofs ----------------------------
(***************************************************************************)
(* The promises of the background work: mails, drafts and scheduled jobs,  *)
(* for any number of accounts, mails, cycles, drafts, orders and workers.  *)
(***************************************************************************)
EXTENDS MailSync, MailDrafts, JobRuns, SequenceTheorems, FiniteSetTheorems,
        WellFoundedInduction, TLAPS

(***************************************************************************)
(* A mail never gets a second automatic draft, for any number of accounts, *)
(* mails and cycles that overlap, die or lose their account.               *)
(*                                                                         *)
(* OneDraft is not inductive: a commit could add a draft to one that is    *)
(* there.  What a cycle has inserted and not committed stands for a mail   *)
(* that has neither a row nor a draft, of an account that is there, and    *)
(* that no other cycle has inserted: that is PendInv.                      *)
(*                                                                         *)
(* UIDs are remembered in places whose values do not matter here: they are *)
(* typed by a set that is not named.                                       *)
(***************************************************************************)

Busy == {"mail", "insert", "move", "commit"}
States == Verdicts \cup {"none"}
CycleRec(M) == [pc : CyclePC, todo : SUBSET Account, seen : [Account -> M],
                acc : Account \cup {NoAccount}, left : SUBSET M, max : M,
                verdict : Verdicts, pend : [Uid -> States]]
AccountRec(M) == [there : BOOLEAN, enabled : BOOLEAN, last : M]

TypedBy(M) == cycle \in [Cycle -> CycleRec(M)] /\ account \in [Account -> AccountRec(M)]
RowsTyped == row \in [Account -> [Uid -> States]] /\ drafts \in [Account -> [Uid -> Nat]]

\* A cycle has inserted nothing, or it works on an account.
AtWork(r) == IF r.pc \in Busy THEN r.acc \in Account ELSE r.pend = NoMail
WorkInv == \A c \in Cycle : AtWork(cycle[c])

\* Nothing of what the mail u of account a could get is there.
Free(a, u) == account[a].there /\ row[a][u] = "none" /\ drafts[a][u] = 0
PendInv ==
  \A c \in Cycle : \A u \in Uid : cycle[c].pend[u] # "none" =>
    /\ Free(cycle[c].acc, u)
    /\ \A d \in Cycle \ {c} : cycle[d].acc = cycle[c].acc => cycle[d].pend[u] = "none"

DraftInv == RowsTyped /\ WorkInv /\ PendInv /\ OneDraft
MailInv == (\E M : 0 \in M /\ TypedBy(M)) /\ DraftInv

-----------------------------------------------------------------------------

\* A step that moves one cycle leaves the others as they are.
LEMMA OneMoves ==
  ASSUME NEW R, cycle \in [Cycle -> R], NEW c \in Cycle, NEW r \in R,
         Becomes(c, r)
  PROVE  /\ cycle' \in [Cycle -> R]
         /\ cycle'[c] = r
         /\ \A d \in Cycle \ {c} : cycle'[d] = cycle[d]
BY DEF Becomes

\* What is typed by a set is typed by a larger one.
LEMMA Wider ==
  ASSUME NEW M, NEW N, M \subseteq N, TypedBy(M)
  PROVE  TypedBy(N)
BY DEF TypedBy, CycleRec, AccountRec

\* A cycle that has nothing is a cycle.
LEMMA IdleTyped ==
  ASSUME NEW M, 0 \in M, NEW pc \in CyclePC
  PROVE  /\ IdleCycle \in CycleRec(M) /\ IdleCycle.pc = "idle" /\ IdleCycle.pend = NoMail
         /\ [IdleCycle EXCEPT !.pc = pc] \in CycleRec(M) /\ [IdleCycle EXCEPT !.pc = pc].pc = pc
         /\ [IdleCycle EXCEPT !.pc = pc].pend = NoMail
         /\ NoMail \in [Uid -> States]
BY DEF IdleCycle, CycleRec, CyclePC, NoMail, States, Verdicts

\* Steps of one cycle that insert nothing: it keeps what it has inserted for its account,
\* or drops all of it.
LEMMA QuietStep ==
  ASSUME NEW M, TypedBy(M), DraftInv, NEW c \in Cycle, NEW r \in CycleRec(M),
         Becomes(c, r), AtWork(r),
         r.pend = NoMail \/ (r.pend = cycle[c].pend /\ r.acc = cycle[c].acc),
         UNCHANGED <<account, row, drafts>>
  PROVE  TypedBy(M)' /\ DraftInv'
<1>1. /\ cycle' \in [Cycle -> CycleRec(M)] /\ cycle'[c] = r
      /\ \A d \in Cycle \ {c} : cycle'[d] = cycle[d]
  <2> DEFINE R == CycleRec(M)
  <2>1. cycle \in [Cycle -> R] /\ r \in R
    BY DEF TypedBy
  <2> HIDE DEF R
  <2>2. /\ cycle' \in [Cycle -> R] /\ cycle'[c] = r
        /\ \A d \in Cycle \ {c} : cycle'[d] = cycle[d]
    BY <2>1 DEF Becomes
  <2> QED
    BY <2>2 DEF R
<1> USE DEF DraftInv
<1>2. TypedBy(M)'
  BY <1>1 DEF TypedBy
<1>3. RowsTyped' /\ OneDraft'
  BY DEF RowsTyped, OneDraft
<1>4. WorkInv'
  BY <1>1 DEF WorkInv, AtWork
<1>5. PendInv'
  <2> SUFFICES ASSUME NEW d \in Cycle, NEW u \in Uid, cycle'[d].pend[u] # "none"
               PROVE  /\ Free(cycle[d].acc, u)'
                      /\ \A e \in Cycle \ {d} :
                           cycle'[e].acc = cycle'[d].acc => cycle'[e].pend[u] = "none"
    BY DEF PendInv, Free
  <2>1. \A e \in Cycle : \/ cycle'[e].pend[u] = "none"
                         \/ cycle'[e].pend[u] = cycle[e].pend[u] /\ cycle'[e].acc = cycle[e].acc
    BY <1>1 DEF NoMail
  <2> QED
    BY <2>1 DEF PendInv, Free
<1> QED
  BY <1>2, <1>3, <1>4, <1>5

-----------------------------------------------------------------------------

\* The steps of a cycle that end it, or that only go on.
LEMMA PlainSteps ==
  ASSUME NEW M, 0 \in M, TypedBy(M), DraftInv, NEW c \in Cycle,
         UNCHANGED <<account, row, drafts>>,
         \/ LeaveLoop(c)
         \/ Becomes(c, IdleCycle)
         \/ \E pc \in CyclePC :
              /\ CycleGoto(c, pc)
              /\ (pc \in Busy /\ cycle[c].pc \in Busy) \/ (pc \notin Busy /\ cycle[c].pc \notin Busy)
  PROVE  TypedBy(M)' /\ DraftInv'
<1>1. CASE LeaveLoop(c)
  <2> DEFINE r == [IdleCycle EXCEPT !.pc = "leaving"]
  <2>1. "leaving" \in CyclePC \ Busy
    BY DEF CyclePC, Busy
  <2>2. r \in CycleRec(M) /\ r.pc = "leaving" /\ r.pend = NoMail
    BY <2>1, IdleTyped
  <2>3. Becomes(c, r)
    BY <1>1 DEF LeaveLoop
  <2> HIDE DEF r
  <2> QED
    BY <2>1, <2>2, <2>3, QuietStep DEF AtWork
<1>2. CASE Becomes(c, IdleCycle)
  <2>1. "idle" \in CyclePC \ Busy
    BY DEF CyclePC, Busy
  <2>2. IdleCycle \in CycleRec(M) /\ IdleCycle.pc = "idle" /\ IdleCycle.pend = NoMail
    BY <2>1, IdleTyped
  <2> QED
    BY <1>2, <2>1, <2>2, QuietStep DEF AtWork
<1>3. ASSUME NEW pc \in CyclePC, CycleGoto(c, pc),
             (pc \in Busy /\ cycle[c].pc \in Busy) \/ (pc \notin Busy /\ cycle[c].pc \notin Busy)
      PROVE  TypedBy(M)' /\ DraftInv'
  <2> DEFINE r == [cycle[c] EXCEPT !.pc = pc]
  <2>1. cycle[c] \in CycleRec(M) /\ AtWork(cycle[c])
    BY DEF TypedBy, DraftInv, WorkInv
  <2>2. /\ r \in CycleRec(M) /\ r.pc = pc
        /\ r.pend = cycle[c].pend /\ r.acc = cycle[c].acc
    BY <2>1 DEF CycleRec
  <2>3. Becomes(c, r)
    BY <1>3 DEF CycleGoto
  <2> HIDE DEF r
  <2>4. AtWork(r)
    BY <1>3, <2>1, <2>2 DEF AtWork
  <2> QED
    BY <2>2, <2>3, <2>4, QuietStep
<1> QED
  BY <1>1, <1>2, <1>3

\* A cycle that changes what it remembers stays at work, or at rest.
LEMMA Remembering ==
  ASSUME NEW M, 0 \in M, TypedBy(M), DraftInv, NEW c \in Cycle,
         UNCHANGED <<account, row, drafts>>,
         ReadAccounts(c) \/ FetchFails(c) \/ Classify(c)
  PROVE  TypedBy(M)' /\ DraftInv'
<1>1. cycle[c] \in CycleRec(M) /\ AtWork(cycle[c])
  BY DEF TypedBy, DraftInv, WorkInv
<1>2. CASE ReadAccounts(c)
  <2> DEFINE todo == {a \in Account : account[a].there /\ account[a].enabled}
             seen == [a \in Account |-> account[a].last]
             r == [cycle[c] EXCEPT !.pc = "cycle", !.todo = todo, !.seen = seen]
  <2>1. todo \in SUBSET Account /\ seen \in [Account -> M]
    BY DEF TypedBy, AccountRec
  <2>2. Becomes(c, r) /\ cycle[c].pc = "reading"
    BY <1>2 DEF ReadAccounts, CycleAt
  <2> HIDE DEF todo, seen
  <2>3. r \in CycleRec(M) /\ r.pc = "cycle" /\ r.pend = cycle[c].pend /\ r.acc = cycle[c].acc
    BY <1>1, <2>1 DEF CycleRec, CyclePC
  <2> HIDE DEF r
  <2>4. AtWork(r)
    BY <1>1, <2>2, <2>3 DEF AtWork, Busy
  <2> QED
    BY <2>2, <2>3, <2>4, QuietStep
<1>3. CASE FetchFails(c)
  <2>1. PICK a \in cycle[c].todo : Becomes(c, [cycle[c] EXCEPT !.todo = @ \ {a}])
    BY <1>3 DEF FetchFails
  <2> DEFINE r == [cycle[c] EXCEPT !.todo = @ \ {a}]
  <2>2. Becomes(c, r)
    BY <2>1
  <2>3. r \in CycleRec(M) /\ r.pc = cycle[c].pc /\ r.pend = cycle[c].pend /\ r.acc = cycle[c].acc
    BY <1>1 DEF CycleRec
  <2> HIDE DEF r
  <2>4. AtWork(r)
    BY <1>1, <2>3 DEF AtWork
  <2> QED
    BY <2>2, <2>3, <2>4, QuietStep
<1>4. CASE Classify(c)
  <2> DEFINE u == Min(cycle[c].left)
  <2> HIDE DEF u
  <2>1. cycle[c].pc = "mail"
    BY <1>4 DEF Classify, CycleAt
  <2>2. CASE CycleGoto(c, "move")
    BY <2>1, <2>2, PlainSteps DEF Busy, CyclePC
  <2>3. CASE Becomes(c, [cycle[c] EXCEPT !.left = @ \ {u}])
    <3> DEFINE r == [cycle[c] EXCEPT !.left = @ \ {u}]
    <3>1. Becomes(c, r)
      BY <2>3
    <3>2. r \in CycleRec(M) /\ r.pc = cycle[c].pc /\ r.pend = cycle[c].pend /\ r.acc = cycle[c].acc
      BY <1>1 DEF CycleRec
    <3> HIDE DEF r
    <3>3. AtWork(r)
      BY <1>1, <3>2 DEF AtWork
    <3> QED
      BY <3>1, <3>2, <3>3, QuietStep
  <2>4. ASSUME NEW v \in Verdicts,
               Becomes(c, [cycle[c] EXCEPT !.pc = "insert", !.verdict = v])
        PROVE  TypedBy(M)' /\ DraftInv'
    <3> DEFINE r == [cycle[c] EXCEPT !.pc = "insert", !.verdict = v]
    <3>1. Becomes(c, r)
      BY <2>4
    <3>2. r \in CycleRec(M) /\ r.pc = "insert" /\ r.pend = cycle[c].pend /\ r.acc = cycle[c].acc
      BY <1>1 DEF CycleRec, CyclePC
    <3> HIDE DEF r
    <3>3. AtWork(r)
      BY <1>1, <2>1, <3>2 DEF AtWork, Busy
    <3> QED
      BY <3>1, <3>2, <3>3, QuietStep
  <2> QED
    BY <1>4, <2>2, <2>3, <2>4 DEF Classify, u
<1> QED
  BY <1>2, <1>3, <1>4

\* A cycle that takes up an account has inserted nothing, and gets a UID to remember.
LEMMA FetchStep ==
  ASSUME NEW M, 0 \in M, TypedBy(M), DraftInv, NEW c \in Cycle, Fetch(c)
  PROVE  \E N : 0 \in N /\ TypedBy(N)' /\ DraftInv'
<1>0. UNCHANGED <<account, row, drafts>> /\ cycle[c].pc = "cycle"
  BY DEF Fetch, CycleAt
<1>1. CASE LeaveLoop(c)
  BY <1>0, <1>1, PlainSteps
<1>2. ASSUME NEW a \in cycle[c].todo, NEW read \in SUBSET NewUids(c, a), NEW m,
             Becomes(c, [cycle[c] EXCEPT !.pc = "mail", !.todo = @ \ {a}, !.acc = a,
                         !.left = read, !.max = m])
      PROVE  \E N : 0 \in N /\ TypedBy(N)' /\ DraftInv'
  <2> DEFINE N == M \cup read \cup {m}
             r == [cycle[c] EXCEPT !.pc = "mail", !.todo = @ \ {a}, !.acc = a,
                     !.left = read, !.max = m]
  <2>1. TypedBy(N) /\ 0 \in N /\ m \in N /\ read \subseteq N
    BY Wider
  <2> HIDE DEF N
  <2>2. cycle[c] \in CycleRec(N) /\ AtWork(cycle[c])
    BY <2>1 DEF TypedBy, DraftInv, WorkInv
  <2>3. a \in Account
    BY <2>2 DEF CycleRec
  <2>4. Becomes(c, r)
    BY <1>2
  <2>9. "mail" \in CyclePC
    BY DEF CyclePC
  <2>5. r \in CycleRec(N) /\ r.pc = "mail" /\ r.acc = a /\ r.pend = cycle[c].pend
    BY <2>9, <2>1, <2>2, <2>3 DEF CycleRec, CyclePC
  <2> HIDE DEF r
  <2>6. AtWork(r) /\ r.pend = NoMail
    BY <1>0, <2>2, <2>3, <2>5 DEF AtWork, Busy
  <2>7. TypedBy(N)' /\ DraftInv'
    BY <1>0, <2>1, <2>4, <2>5, <2>6, QuietStep
  <2> QED
    BY <2>1, <2>7
<1> QED
  BY <1>1, <1>2 DEF Fetch

\* The mail that is inserted is free, and no other cycle has inserted it.
LEMMA InsertStep ==
  ASSUME NEW M, 0 \in M, TypedBy(M), DraftInv, NEW c \in Cycle, InsertMail(c)
  PROVE  TypedBy(M)' /\ DraftInv'
<1> USE DEF DraftInv
<1> DEFINE a == cycle[c].acc
           u == Min(cycle[c].left)
           r == [cycle[c] EXCEPT !.pc = "mail", !.left = @ \ {u},
                   !.pend[u] = cycle[c].verdict, !.verdict = "plain"]
<1> HIDE DEF u
<1>1. UNCHANGED <<account, row, drafts>> /\ cycle[c].pc = "insert" /\ Pending(a, u) = {}
  BY DEF InsertMail, CycleAt, u
<1>2. CASE LeaveLoop(c)
  BY <1>1, <1>2, PlainSteps
<1>3. CASE row[a][u] = "none" /\ account[a].there /\ Becomes(c, r)
  <2>1. cycle[c] \in CycleRec(M) /\ AtWork(cycle[c])
    BY DEF TypedBy, WorkInv
  <2>2. a \in Account
    BY <1>1, <2>1 DEF AtWork, Busy
  <2>3. /\ r \in CycleRec(M) /\ r.pc = "mail" /\ r.acc = a
        /\ \A w \in Uid : r.pend[w] = IF w = u THEN cycle[c].verdict ELSE cycle[c].pend[w]
    <3>1. "mail" \in CyclePC /\ "plain" \in Verdicts /\ cycle[c].verdict \in States
      BY <2>1 DEF CyclePC, Verdicts, States, CycleRec
    <3>2. [cycle[c].pend EXCEPT ![u] = cycle[c].verdict] \in [Uid -> States]
      BY <2>1, <3>1 DEF CycleRec
    <3> QED
      BY <2>1, <3>1, <3>2 DEF CycleRec
  <2>4. Becomes(c, r)
    BY <1>3
  <2> HIDE DEF r
  <2>5. /\ cycle' \in [Cycle -> CycleRec(M)] /\ cycle'[c] = r
        /\ \A d \in Cycle \ {c} : cycle'[d] = cycle[d]
    BY <2>3, <2>4, OneMoves DEF TypedBy
  <2>6. TypedBy(M)' /\ RowsTyped' /\ OneDraft'
    BY <1>1, <2>5 DEF TypedBy, RowsTyped, OneDraft
  <2>7. WorkInv'
    BY <2>2, <2>3, <2>5 DEF WorkInv, AtWork, Busy
  <2>8. u \in Uid => Free(a, u)
    BY <1>3, <2>2 DEF Free, OneDraft, RowsTyped
  <2>9. \A d \in Cycle : u \in Uid /\ cycle[d].acc = a => cycle[d].pend[u] = "none"
    BY <1>1 DEF Pending
  <2>10. PendInv'
    <3> SUFFICES ASSUME NEW d \in Cycle, NEW w \in Uid, cycle'[d].pend[w] # "none"
                 PROVE  /\ Free(cycle[d].acc, w)'
                        /\ \A e \in Cycle \ {d} :
                             cycle'[e].acc = cycle'[d].acc => cycle'[e].pend[w] = "none"
      BY DEF PendInv, Free
    <3>1. \A e \in Cycle : /\ cycle'[e].acc = cycle[e].acc
                           /\ (e # c \/ w # u) => cycle'[e].pend[w] = cycle[e].pend[w]
      BY <2>3, <2>5
    <3>2. CASE d = c /\ w = u
      BY <1>1, <2>8, <2>9, <3>1, <3>2 DEF Free
    <3>3. CASE d # c \/ w # u
      <4>1. cycle[d].pend[w] # "none"
        BY <3>1, <3>3
      <4>2. Free(cycle[d].acc, w)'
        BY <1>1, <3>1, <4>1 DEF PendInv, Free
      <4>3. ASSUME NEW e \in Cycle \ {d}, cycle'[e].acc = cycle'[d].acc
            PROVE  cycle'[e].pend[w] = "none"
        <5>1. cycle[e].acc = cycle[d].acc /\ cycle[e].pend[w] = "none"
          BY <3>1, <4>1, <4>3 DEF PendInv
        <5>2. ~(e = c /\ w = u)
          BY <2>9, <4>1, <5>1
        <5> QED
          BY <3>1, <5>1, <5>2
      <4> QED
        BY <4>2, <4>3
    <3> QED
      BY <3>2, <3>3
  <2> QED
    BY <2>6, <2>7, <2>10
<1> QED
  BY <1>2, <1>3 DEF InsertMail, u

\* A commit writes what its cycle has inserted, and the UID it remembers; or, when the
\* account is gone, it ends the cycle.
CommitWrites(c) ==
  LET a == cycle[c].acc IN
  /\ \A b \in Account : \A u \in Uid :
       /\ row'[b][u] = IF b = a /\ cycle[c].pend[u] # "none" THEN cycle[c].pend[u] ELSE row[b][u]
       /\ drafts'[b][u] = IF b = a /\ cycle[c].pend[u] = "reply" THEN drafts[b][u] + 1
                                                              ELSE drafts[b][u]
  /\ \A b \in Account : /\ account'[b].there = account[b].there
                        /\ account'[b].last = account[b].last
                             \/ (b = a /\ account'[b].last = cycle[c].max)

\* What a commit does, one row after the other.
LEMMA CommitEffect ==
  ASSUME NEW M, 0 \in M, TypedBy(M), DraftInv, NEW c \in Cycle, Commit(c),
         account[cycle[c].acc].there,
         NEW r, r = [IdleCycle EXCEPT !.pc = "cycle", !.todo = cycle[c].todo,
                                      !.seen = cycle[c].seen]
  PROVE  /\ r \in CycleRec(M) /\ r.pc = "cycle" /\ r.pend = NoMail /\ r.seen = cycle[c].seen
         /\ Becomes(c, r) /\ CommitWrites(c)
         /\ account' \in [Account -> AccountRec(M)]
         /\ row' \in [Account -> [Uid -> States]] /\ drafts' \in [Account -> [Uid -> Nat]]
<1> USE DEF DraftInv
<1> DEFINE a == cycle[c].acc
<1>1. cycle[c].pc = "commit" /\ cycle[c] \in CycleRec(M) /\ AtWork(cycle[c])
  BY DEF Commit, CycleAt, TypedBy, WorkInv
<1>2. a \in Account
  BY <1>1 DEF AtWork, Busy
<1>3. /\ row' = [row EXCEPT ![a] = [u \in Uid |->
             IF cycle[c].pend[u] = "none" THEN @[u] ELSE cycle[c].pend[u]]]
      /\ drafts' = [drafts EXCEPT ![a] = [u \in Uid |->
             IF cycle[c].pend[u] = "reply" THEN @[u] + 1 ELSE @[u]]]
      /\ account' = IF cycle[c].max = cycle[c].seen[a] THEN account
                    ELSE [account EXCEPT ![a] = [account[a] EXCEPT !.last = cycle[c].max]]
      /\ Becomes(c, r)
  BY DEF Commit
<1>4. r \in CycleRec(M) /\ r.pc = "cycle" /\ r.pend = NoMail /\ r.seen = cycle[c].seen
  <2>1. IdleCycle \in CycleRec(M) /\ IdleCycle.pend = NoMail /\ "cycle" \in CyclePC
    BY IdleTyped DEF CyclePC
  <2> QED
    BY <1>1, <2>1 DEF CycleRec
<1>5. /\ account' \in [Account -> AccountRec(M)]
      /\ \A b \in Account : /\ account'[b].there = account[b].there
                            /\ account'[b].last = account[b].last
                                 \/ (b = a /\ account'[b].last = cycle[c].max)
  <2> DEFINE s == [account[a] EXCEPT !.last = cycle[c].max]
  <2>1. s \in AccountRec(M) /\ s.there = account[a].there /\ s.last = cycle[c].max
    BY <1>1, <1>2 DEF TypedBy, AccountRec, CycleRec
  <2>2. account' = account \/ account' = [account EXCEPT ![a] = s]
    BY <1>3
  <2> HIDE DEF s
  <2> QED
    BY <1>2, <2>1, <2>2 DEF TypedBy
<1>6. /\ \A b \in Account : \A u \in Uid :
           row'[b][u] = IF b = a /\ cycle[c].pend[u] # "none" THEN cycle[c].pend[u] ELSE row[b][u]
      /\ row' \in [Account -> [Uid -> States]]
  <2> DEFINE f == [u \in Uid |-> IF cycle[c].pend[u] = "none" THEN row[a][u]
                                 ELSE cycle[c].pend[u]]
  <2>1. f \in [Uid -> States]
    BY <1>1, <1>2 DEF CycleRec, RowsTyped
  <2>2. row' = [row EXCEPT ![a] = f]
    BY <1>3
  <2>3. \A u \in Uid : f[u] = IF cycle[c].pend[u] = "none" THEN row[a][u] ELSE cycle[c].pend[u]
    OBVIOUS
  <2> HIDE DEF f
  <2> QED
    BY <1>2, <2>1, <2>2, <2>3 DEF RowsTyped
<1>7. /\ \A b \in Account : \A u \in Uid :
           drafts'[b][u] = IF b = a /\ cycle[c].pend[u] = "reply" THEN drafts[b][u] + 1
                           ELSE drafts[b][u]
      /\ drafts' \in [Account -> [Uid -> Nat]]
  <2> DEFINE f == [u \in Uid |-> IF cycle[c].pend[u] = "reply" THEN drafts[a][u] + 1
                                 ELSE drafts[a][u]]
  <2>1. f \in [Uid -> Nat]
    BY <1>2 DEF RowsTyped
  <2>2. drafts' = [drafts EXCEPT ![a] = f]
    BY <1>3
  <2>3. \A u \in Uid : f[u] = IF cycle[c].pend[u] = "reply" THEN drafts[a][u] + 1 ELSE drafts[a][u]
    OBVIOUS
  <2> HIDE DEF f
  <2> QED
    BY <1>2, <2>1, <2>2, <2>3 DEF RowsTyped
<1> QED
  BY <1>3, <1>4, <1>5, <1>6, <1>7 DEF CommitWrites

\* A commit gives each mail that was inserted its row and, for a reply, its first draft.
LEMMA CommitStep ==
  ASSUME NEW M, 0 \in M, TypedBy(M), DraftInv, NEW c \in Cycle, Commit(c)
  PROVE  TypedBy(M)' /\ DraftInv'
<1> USE DEF DraftInv
<1> DEFINE a == cycle[c].acc
           r == [IdleCycle EXCEPT !.pc = "cycle", !.todo = cycle[c].todo, !.seen = cycle[c].seen]
<1>3. CASE ~account[a].there
  <2>1. LeaveLoop(c) /\ UNCHANGED <<row, drafts, account>>
    BY <1>3 DEF Commit
  <2> QED
    BY <2>1, PlainSteps
<1>4. CASE account[a].there
  <2>1. /\ r \in CycleRec(M) /\ r.pc = "cycle" /\ r.pend = NoMail /\ Becomes(c, r)
        /\ CommitWrites(c) /\ account' \in [Account -> AccountRec(M)]
        /\ row' \in [Account -> [Uid -> States]] /\ drafts' \in [Account -> [Uid -> Nat]]
    BY <1>4, CommitEffect
  <2> HIDE DEF r
  <2>3. /\ cycle' \in [Cycle -> CycleRec(M)] /\ cycle'[c] = r
        /\ \A d \in Cycle \ {c} : cycle'[d] = cycle[d]
    BY <2>1, OneMoves DEF TypedBy
  <2>4. \A b \in Account : account'[b].there = account[b].there
    BY <2>1 DEF CommitWrites
  <2>5. \A b \in Account : \A u \in Uid :
          row'[b][u] = IF b = a /\ cycle[c].pend[u] # "none" THEN cycle[c].pend[u] ELSE row[b][u]
    BY <2>1 DEF CommitWrites
  <2>6. \A b \in Account : \A u \in Uid :
          drafts'[b][u] = IF b = a /\ cycle[c].pend[u] = "reply" THEN drafts[b][u] + 1
                          ELSE drafts[b][u]
    BY <2>1 DEF CommitWrites
  <2>7. TypedBy(M)' /\ RowsTyped'
    BY <2>1, <2>3 DEF TypedBy, RowsTyped
  <2>8. WorkInv'
    BY <2>1, <2>3 DEF WorkInv, AtWork, Busy
  <2>9. OneDraft'
    <3> SUFFICES ASSUME NEW b \in Account, NEW u \in Uid
                 PROVE  drafts'[b][u] <= IF row'[b][u] = "reply" THEN 1 ELSE 0
      BY DEF OneDraft
    <3>1. drafts[b][u] \in Nat /\ drafts[b][u] <= IF row[b][u] = "reply" THEN 1 ELSE 0
      BY DEF OneDraft, RowsTyped
    <3>2. b = a /\ cycle[c].pend[u] # "none" => drafts[b][u] = 0
      BY DEF PendInv, Free
    <3>3. CASE b = a /\ cycle[c].pend[u] # "none"
      BY <2>5, <2>6, <3>2, <3>3
    <3>4. CASE ~(b = a /\ cycle[c].pend[u] # "none")
      BY <2>5, <2>6, <3>1, <3>4
    <3> QED
      BY <3>3, <3>4
  <2>10. PendInv'
    <3> SUFFICES ASSUME NEW d \in Cycle, NEW w \in Uid, cycle'[d].pend[w] # "none"
                 PROVE  /\ Free(cycle[d].acc, w)'
                        /\ \A e \in Cycle \ {d} :
                             cycle'[e].acc = cycle'[d].acc => cycle'[e].pend[w] = "none"
      BY DEF PendInv, Free
    <3>1. d # c /\ cycle'[d] = cycle[d] /\ cycle'[c].pend[w] = "none"
      BY <2>1, <2>3 DEF NoMail
    <3>2. /\ Free(cycle[d].acc, w)
          /\ \A e \in Cycle \ {d} : cycle[e].acc = cycle[d].acc => cycle[e].pend[w] = "none"
      BY <3>1 DEF PendInv
    <3>3. AtWork(cycle[d]) /\ cycle[d].pend[w] # "none"
      BY <3>1 DEF WorkInv
    <3>4. cycle[d].acc \in Account
      BY <3>3 DEF AtWork, NoMail
    <3>5. ~(cycle[d].acc = a /\ cycle[c].pend[w] # "none")
      BY <3>1, <3>2
    <3>6. Free(cycle[d].acc, w)'
      BY <2>4, <2>5, <2>6, <3>1, <3>2, <3>4, <3>5 DEF Free
    <3> QED
      BY <2>3, <3>1, <3>2, <3>6
  <2> QED
    BY <2>7, <2>8, <2>9, <2>10
<1> QED
  BY <1>3, <1>4

\* Administrators: an account with a row that is not committed is not deleted.
LEMMA AccountStep ==
  ASSUME NEW M, TypedBy(M), DraftInv, NEW a \in Account, PatchAccount(a) \/ DeleteAccount(a)
  PROVE  TypedBy(M)' /\ DraftInv'
<1> USE DEF DraftInv
<1>1. cycle' = cycle /\ account[a] \in AccountRec(M)
  BY DEF PatchAccount, DeleteAccount, TypedBy
<1>2. WorkInv'
  BY <1>1 DEF WorkInv, AtWork
<1>3. CASE PatchAccount(a)
  <2> DEFINE s == [account[a] EXCEPT !.enabled = ~account[a].enabled]
  <2>1. s \in AccountRec(M) /\ s.there = account[a].there
    BY <1>1 DEF AccountRec
  <2>2. account' = [account EXCEPT ![a] = s] /\ UNCHANGED <<row, drafts>>
    BY <1>3 DEF PatchAccount
  <2> HIDE DEF s
  <2>3. /\ account' \in [Account -> AccountRec(M)]
        /\ \A b : account'[b].there = account[b].there
    BY <2>1, <2>2 DEF TypedBy
  <2> QED
    BY <1>1, <1>2, <2>2, <2>3 DEF TypedBy, RowsTyped, OneDraft, PendInv, Free
<1>4. CASE DeleteAccount(a)
  <2> DEFINE s == [account[a] EXCEPT !.there = FALSE]
             zero == [u \in Uid |-> 0]
  <2>1. s \in AccountRec(M)
    BY <1>1 DEF AccountRec
  <2>2. zero \in [Uid -> Nat] /\ NoMail \in [Uid -> States] /\ \A u \in Uid : zero[u] = 0
    BY DEF NoMail, States
  <2>3. /\ account' = [account EXCEPT ![a] = s] /\ row' = [row EXCEPT ![a] = NoMail]
        /\ drafts' = [drafts EXCEPT ![a] = zero] /\ Touching(a) = {}
    BY <1>4 DEF DeleteAccount
  <2> HIDE DEF s, zero
  <2>4. TypedBy(M)' /\ RowsTyped'
    BY <1>1, <2>1, <2>2, <2>3 DEF TypedBy, RowsTyped
  <2>5. \A b \in Account \ {a} : /\ account'[b] = account[b] /\ row'[b] = row[b]
                                 /\ drafts'[b] = drafts[b]
    BY <2>3 DEF TypedBy, RowsTyped
  <2>6. drafts'[a] = zero
    BY <2>3 DEF RowsTyped
  <2>7. OneDraft'
    <3> SUFFICES ASSUME NEW b \in Account, NEW u \in Uid
                 PROVE  drafts'[b][u] <= IF row'[b][u] = "reply" THEN 1 ELSE 0
      BY DEF OneDraft
    <3> QED
      BY <2>2, <2>5, <2>6 DEF OneDraft
  <2>8. PendInv'
    <3> SUFFICES ASSUME NEW d \in Cycle, NEW w \in Uid, cycle[d].pend[w] # "none"
                 PROVE  Free(cycle[d].acc, w)'
      BY <1>1 DEF PendInv, Free
    <3>1. cycle[d].acc # a
      BY <2>3 DEF Touching, Pending
    <3>2. cycle[d].acc \in Account
      BY DEF WorkInv, AtWork, NoMail
    <3>3. Free(cycle[d].acc, w)
      BY DEF PendInv
    <3> QED
      BY <1>1, <2>5, <3>1, <3>2, <3>3 DEF Free
  <2> QED
    BY <1>2, <2>4, <2>7, <2>8
<1> QED
  BY <1>3, <1>4

-----------------------------------------------------------------------------

\* Nothing is inserted before the first cycle.
LEMMA MailInit == SyncInit => MailInv
<1> SUFFICES ASSUME SyncInit PROVE MailInv
  OBVIOUS
<1> DEFINE M == {0}
<1>1. IdleCycle \in CycleRec(M) /\ IdleCycle.pc = "idle" /\ IdleCycle.pend = NoMail
      /\ NoMail \in [Uid -> States]
  BY IdleTyped DEF CyclePC
<1>2. TypedBy(M)
  BY <1>1 DEF SyncInit, TypedBy, AccountRec
<1>3. RowsTyped /\ OneDraft
  BY <1>1 DEF SyncInit, RowsTyped, OneDraft
<1>4. WorkInv
  BY <1>1 DEF SyncInit, WorkInv, AtWork, Busy
<1>5. PendInv
  BY DEF SyncInit, PendInv, IdleCycle, NoMail
<1> QED
  BY <1>2, <1>3, <1>4, <1>5 DEF MailInv, DraftInv

\* Every step of the cycles, of Redis, of the mailbox and of the administrators keeps it.
LEMMA MailStep == MailInv /\ [SyncNext]_syncVars => MailInv'
<1> SUFFICES ASSUME MailInv, [SyncNext]_syncVars PROVE MailInv'
  OBVIOUS
<1>0. PICK M : 0 \in M /\ TypedBy(M)
  BY DEF MailInv
<1>1. SUFFICES \E N : 0 \in N /\ TypedBy(N)' /\ DraftInv'
  BY DEF MailInv, TypedBy, CycleRec, AccountRec
<1>2. DraftInv
  BY DEF MailInv
<1>3. CASE UNCHANGED <<cycle, account, row, drafts>>
  BY <1>0, <1>2, <1>3 DEF TypedBy, DraftInv, RowsTyped, WorkInv, AtWork, PendInv, Free, OneDraft
<1>4. ASSUME NEW c \in Cycle, Start(c) PROVE TypedBy(M)' /\ DraftInv'
  <2>1. \E pc \in CyclePC : CycleGoto(c, pc) /\ pc \notin Busy /\ cycle[c].pc \notin Busy
    BY <1>4 DEF Start, CycleAt, CyclePC, Busy
  <2> QED
    BY <1>0, <1>2, <1>4, <2>1, PlainSteps DEF Start
<1>5. ASSUME NEW c \in Cycle, EndCycle(c) \/ Leave(c) \/ CrashCycle(c)
      PROVE  TypedBy(M)' /\ DraftInv'
  BY <1>0, <1>2, <1>5, PlainSteps DEF EndCycle, Leave, CrashCycle
<1>6. ASSUME NEW c \in Cycle, Move(c) PROVE TypedBy(M)' /\ DraftInv'
  <2>1. \E pc \in CyclePC : CycleGoto(c, pc) /\ pc \in Busy /\ cycle[c].pc \in Busy
    BY <1>6 DEF Move, CycleAt, CyclePC, Busy
  <2> QED
    BY <1>0, <1>2, <1>6, <2>1, PlainSteps DEF Move
<1>7. ASSUME NEW c \in Cycle, ReadAccounts(c) \/ FetchFails(c) \/ Classify(c)
      PROVE  TypedBy(M)' /\ DraftInv'
  BY <1>0, <1>2, <1>7, Remembering DEF ReadAccounts, FetchFails, Classify
<1>8. ASSUME NEW c \in Cycle, Fetch(c) PROVE \E N : 0 \in N /\ TypedBy(N)' /\ DraftInv'
  BY <1>0, <1>2, <1>8, FetchStep
<1>9. ASSUME NEW c \in Cycle, InsertMail(c) \/ Commit(c) PROVE TypedBy(M)' /\ DraftInv'
  BY <1>0, <1>2, <1>9, InsertStep, CommitStep
<1>10. ASSUME NEW a \in Account, Arrive(a) \/ PatchAccount(a) \/ DeleteAccount(a)
       PROVE  TypedBy(M)' /\ DraftInv'
  <2>1. CASE Arrive(a)
    BY <1>0, <1>2, <2>1
    DEF Arrive, TypedBy, DraftInv, RowsTyped, WorkInv, AtWork, PendInv, Free, OneDraft
  <2> QED
    BY <1>0, <1>2, <1>10, <2>1, AccountStep
<1>11. LockExpires \/ UNCHANGED syncVars => UNCHANGED <<cycle, account, row, drafts>>
  BY DEF LockExpires, syncVars
<1>12. CASE \E c \in Cycle : Start(c) \/ CycleStep(c) \/ CrashCycle(c)
  BY <1>0, <1>4, <1>5, <1>6, <1>7, <1>8, <1>9, <1>12 DEF CycleStep
<1> QED
  BY <1>0, <1>3, <1>10, <1>11, <1>12 DEF SyncNext

\* However many cycles of the task overlap, wait for each other, die or lose their account,
\* a mail has at most one automatic draft, and only with a row that asks for one
\* (sync_account in mail/sync.py and the unique constraint of mail_messages).
THEOREM MailGetsOneDraft == SyncSpec => []OneDraft
<1>1. MailInv => OneDraft
  BY DEF MailInv, DraftInv
<1> QED
  BY MailInit, MailStep, <1>1, PTL DEF SyncSpec

-----------------------------------------------------------------------------

(***************************************************************************)
(* No mail is lost, for any number of accounts, mails and overlapping cycles.*)
(*                                                                         *)
(* MailsAreKept is not inductive: last_uid is written from a number that a *)
(* cycle carries through its whole work.  The invariant says of every number*)
(* a cycle has seen or will write that no mail up to it is without a row, or*)
(* that the cycle still has that mail before it or inserted; the highest UID*)
(* that is fetched bounds what is fetched because the lowest are taken.    *)
(***************************************************************************)

\* A set of natural numbers that is not empty has a least one.
LEMMA LeastNatural ==
  ASSUME NEW T \in SUBSET Nat, T # {}
  PROVE  \E x \in T : \A y \in T : x <= y
<1> DEFINE R == OpToRel(<, Nat)
<1>1. IsWellFoundedOn(R, Nat)
  BY NatLessThanWellFounded
<1>2. \A x, y \in Nat : <<y, x>> \in R <=> y < x
  BY DEF OpToRel
<1> HIDE DEF R
<1>3. PICK x \in T : \A y \in T : <<y, x>> \notin R
  BY <1>1, WFMin
<1>4. \A y \in T : ~(y < x)
  BY <1>2, <1>3
<1> QED
  BY <1>4

\* One that is bounded has a greatest, and that is its Max.
LEMMA MaxIsGreatest ==
  ASSUME NEW n \in Nat, NEW T \in SUBSET (0 .. n), T # {}
  PROVE  Max(T) \in T /\ \A y \in T : y <= Max(T)
<1> DEFINE D == {n - x : x \in T}
<1>0. \A x \in T : x \in Nat /\ n - x \in Nat
  OBVIOUS
<1>1. D \in SUBSET Nat /\ D # {}
  BY <1>0
<1>2. PICK d \in D : \A e \in D : d <= e
  BY <1>1, LeastNatural
<1>3. PICK x \in T : d = n - x
  BY <1>2
<1>4. \A y \in T : x >= y
  <2> SUFFICES ASSUME NEW y \in T
               PROVE  x >= y
    OBVIOUS
  <2>1. d <= n - y
    BY <1>2
  <2> QED
    BY <1>3, <2>1
<1>5. \E z \in T : \A y \in T : z >= y
  BY <1>4
<1> QED
  BY <1>5 DEF Max

-----------------------------------------------------------------------------

Boxes == [next : 0 .. MaxUid, inbox : SUBSET Uid, spam : SUBSET Uid]

\* Up to n, no mail of account a is without a row.
Known(a, n, box, accs, rows) ==
  /\ n \in 0 .. box[a].next
  /\ accs[a].there => \A u \in box[a].inbox : u <= n => rows[a][u] # "none"

\* A cycle at work will have passed none without a row: what has none is inserted or left.
Covered(r, box, accs, rows) ==
  /\ r.max \in 0 .. box[r.acc].next
  /\ accs[r.acc].there => \A u \in box[r.acc].inbox : u <= r.max =>
       \/ rows[r.acc][u] # "none" \/ r.pend[u] # "none"
       \/ r.pc \in {"mail", "insert"} /\ u \in r.left

Kept(r, box, accs, rows) ==
  /\ \A a \in Account : Known(a, r.seen[a], box, accs, rows)
  /\ r.pc \in Busy => Covered(r, box, accs, rows)

KeptInv ==
  /\ mailbox \in [Account -> Boxes] /\ crashes \in Nat
  /\ \A a \in Account : \A u \in mailbox[a].inbox : u <= mailbox[a].next
  /\ \A a \in Account : Known(a, account[a].last, mailbox, account, row)
  /\ \A c \in Cycle : Kept(cycle[c], mailbox, account, row)
  /\ MovedIsRecorded

\* The mails a cycle fetches are the lowest of those it has not seen.
LEMMA FetchedAreLowest ==
  ASSUME KeptInv, NEW c \in Cycle, NEW a \in Account, NEW u \in mailbox[a].inbox,
         NEW w \in NewUids(c, a), u > cycle[c].seen[a], u <= w
  PROVE  u \in NewUids(c, a)
<1> DEFINE new == {v \in mailbox[a].inbox : v > cycle[c].seen[a]}
           upto(x) == {v \in new : v <= x}
<1>0. MaxUid \in Nat
  BY SyncBoundAssumption
<1>1. mailbox[a].inbox \subseteq 1 .. MaxUid
  BY DEF KeptInv, Boxes, Uid
<1>2. w \in new /\ Cardinality(upto(w)) <= Limit /\ u \in new
  BY DEF NewUids
<1>3. new \subseteq 1 .. MaxUid /\ u \in Nat /\ w \in Nat
  BY <1>0, <1>1, <1>2
<1>4. IsFiniteSet(1 .. MaxUid)
  BY <1>0, FS_Interval
<1>5. upto(w) \in SUBSET (1 .. MaxUid) /\ upto(u) \in SUBSET upto(w)
  <2>1. \A v \in new : v <= u => v <= w
    BY <1>0, <1>3
  <2> QED
    BY <1>3, <2>1
<1>6. IsFiniteSet(upto(w)) /\ IsFiniteSet(upto(u))
      /\ Cardinality(upto(u)) <= Cardinality(upto(w))
  BY <1>4, <1>5, FS_Subset
<1>7. Cardinality(upto(w)) \in Nat /\ Cardinality(upto(u)) \in Nat
  BY <1>6, FS_CardinalityType
<1>8. Cardinality(upto(u)) <= Limit
  BY <1>2, <1>6, <1>7, SyncBoundAssumption
<1> QED
  BY <1>2, <1>8 DEF NewUids

\* Nothing is known below the first UID.
LEMMA ZeroIsKnown ==
  ASSUME KeptInv, NEW a \in Account
  PROVE  Known(a, 0, mailbox, account, row)
<1>1. mailbox[a].next \in Nat /\ \A u \in mailbox[a].inbox : u \in Nat /\ u > 0
  BY SyncBoundAssumption DEF KeptInv, Boxes, Uid
<1> QED
  BY <1>1 DEF Known

\* What is known stays known while rows are only added, mails arrive above the last UID,
\* leave the inbox, and accounts are deleted.
LEMMA WorldGrows ==
  ASSUME mailbox \in [Account -> Boxes], mailbox' \in [Account -> Boxes],
         \A a \in Account :
           /\ mailbox[a].next <= mailbox'[a].next
           /\ \A u \in mailbox'[a].inbox : u \in mailbox[a].inbox \/ u > mailbox[a].next
           /\ account'[a].there => account[a].there
           /\ account'[a].there => \A u \in Uid : row[a][u] # "none" => row'[a][u] # "none"
  PROVE  /\ \A a \in Account : \A n :
              Known(a, n, mailbox, account, row) => Known(a, n, mailbox', account', row')
         /\ \A r : (r.pc \in Busy => r.acc \in Account) /\ Kept(r, mailbox, account, row)
              => Kept(r, mailbox', account', row')
<1>1. \A a \in Account : /\ mailbox[a].next \in Nat /\ mailbox'[a].next \in Nat
                         /\ mailbox[a].inbox \subseteq Uid /\ mailbox'[a].inbox \subseteq Uid
  BY SyncBoundAssumption DEF Boxes
<1>2. Uid \subseteq Nat
  BY SyncBoundAssumption DEF Uid
<1>5. ASSUME NEW a \in Account, NEW n \in 0 .. mailbox[a].next, account'[a].there,
             NEW u \in mailbox'[a].inbox, u <= n
      PROVE  n \in 0 .. mailbox'[a].next /\ u \in mailbox[a].inbox /\ u \in Uid
  <2>0. mailbox[a].next \in Nat /\ u \in Uid
    BY <1>1
  <2>1. u \in Nat /\ n \in Nat /\ n <= mailbox[a].next /\ u \in Uid
    BY <1>2, <2>0
  <2>2. ~(u > mailbox[a].next)
    BY <1>5, <2>0, <2>1
  <2> QED
    BY <1>1, <2>1, <2>2
<1>6. ASSUME NEW a \in Account, NEW n \in 0 .. mailbox[a].next
      PROVE  n \in 0 .. mailbox'[a].next
  BY <1>1
<1>3. ASSUME NEW a \in Account, NEW n, Known(a, n, mailbox, account, row)
      PROVE  Known(a, n, mailbox', account', row')
  <2>1. n \in 0 .. mailbox[a].next
    BY <1>3 DEF Known
  <2> SUFFICES ASSUME account'[a].there, NEW u \in mailbox'[a].inbox, u <= n
               PROVE  row'[a][u] # "none"
    BY <1>6, <2>1 DEF Known
  <2> QED
    BY <1>3, <1>5, <2>1 DEF Known
<1>4. ASSUME NEW r, r.acc \in Account, Covered(r, mailbox, account, row)
      PROVE  Covered(r, mailbox', account', row')
  <2>1. r.max \in 0 .. mailbox[r.acc].next
    BY <1>4 DEF Covered
  <2> SUFFICES ASSUME account'[r.acc].there, NEW u \in mailbox'[r.acc].inbox, u <= r.max
               PROVE  \/ row'[r.acc][u] # "none" \/ r.pend[u] # "none"
                      \/ r.pc \in {"mail", "insert"} /\ u \in r.left
    BY <1>4, <1>6, <2>1 DEF Covered
  <2>2. u \in mailbox[r.acc].inbox /\ u \in Uid
    BY <1>4, <1>5, <2>1
  <2> QED
    BY <1>4, <2>2 DEF Covered
<1> QED
  BY <1>3, <1>4 DEF Kept

\* A step of one cycle that changes neither rows nor mailboxes: what was moved stays
\* recorded unless the cycle was about to record it.
LEMMA QuietKeeps ==
  ASSUME KeptInv, NEW R, cycle \in [Cycle -> R], NEW c \in Cycle, NEW r \in R, Becomes(c, r),
         Kept(r, mailbox, account, row), UNCHANGED <<mailbox, account, row>>,
         crashes' \in Nat, crashes' = 0 => crashes = 0,
         \/ cycle[c].pc # "commit" \/ crashes' # 0
         \/ ~account[cycle[c].acc].there
  PROVE  KeptInv'
<1>1. cycle'[c] = r /\ \A d \in Cycle \ {c} : cycle'[d] = cycle[d]
  BY OneMoves
<1>2. \A d \in Cycle : Kept(cycle'[d], mailbox, account, row)
  BY <1>1 DEF KeptInv
<1>3. MovedIsRecorded'
  <2> SUFFICES ASSUME crashes' = 0, NEW a \in Account, NEW u \in mailbox[a].spam,
                      account[a].there, row[a][u] # "trash"
               PROVE  \E d \in Pending(a, u)' : CycleAt(d, "commit")' /\ cycle'[d].pend[u] = "trash"
    BY DEF MovedIsRecorded
  <2>1. PICK d \in Pending(a, u) : CycleAt(d, "commit") /\ cycle[d].pend[u] = "trash"
    BY DEF KeptInv, MovedIsRecorded
  <2>2. d # c
    BY <2>1 DEF Pending, CycleAt
  <2> QED
    BY <1>1, <2>1, <2>2 DEF Pending, CycleAt
<1> QED
  BY <1>2, <1>3 DEF KeptInv

\* A cycle that has read nothing yet agrees with every mailbox.
LEMMA IdleIsKept ==
  ASSUME KeptInv, NEW M, 0 \in M, NEW pc \in CyclePC \ Busy
  PROVE  /\ Kept(IdleCycle, mailbox, account, row)
         /\ Kept([IdleCycle EXCEPT !.pc = pc], mailbox, account, row)
<1> DEFINE r == [IdleCycle EXCEPT !.pc = pc]
<1>1. /\ r.pc = pc /\ \A a \in Account : r.seen[a] = 0
      /\ IdleCycle.pc \notin Busy /\ \A a \in Account : IdleCycle.seen[a] = 0
  BY DEF IdleCycle, Busy
<1> HIDE DEF r
<1>2. Kept(r, mailbox, account, row)
  BY <1>1, ZeroIsKnown DEF Kept
<1>3. Kept(IdleCycle, mailbox, account, row)
  BY <1>1, ZeroIsKnown DEF Kept
<1> QED
  BY <1>2, <1>3 DEF r

\* A cycle that ends, for any reason.
LEMMA EndKeeps ==
  ASSUME KeptInv, MailInv, NEW c \in Cycle, LeaveLoop(c) \/ Becomes(c, IdleCycle),
         UNCHANGED <<mailbox, account, row>>,
         crashes' \in Nat, crashes' = 0 => crashes = 0,
         \/ cycle[c].pc # "commit" \/ crashes' # 0
         \/ ~account[cycle[c].acc].there
  PROVE  KeptInv'
<1>1. PICK M : 0 \in M /\ TypedBy(M)
  BY DEF MailInv
<1>2. "leaving" \in CyclePC \ Busy
  BY DEF CyclePC, Busy
<1>3. PICK r \in CycleRec(M) : Becomes(c, r) /\ Kept(r, mailbox, account, row)
  BY <1>1, <1>2, IdleTyped, IdleIsKept DEF LeaveLoop
<1> QED
  BY <1>1, <1>3, QuietKeeps DEF TypedBy

\* A cycle that starts, or reads the accounts.
LEMMA StartKeeps ==
  ASSUME KeptInv, MailInv, NEW c \in Cycle, Start(c) \/ ReadAccounts(c) \/ FetchFails(c)
  PROVE  KeptInv'
<1>0. PICK M : 0 \in M /\ TypedBy(M)
  BY DEF MailInv
<1>1. cycle[c] \in CycleRec(M) /\ Kept(cycle[c], mailbox, account, row)
  BY <1>0 DEF TypedBy, KeptInv
<1>2. UNCHANGED <<mailbox, account, row, crashes>> /\ cycle[c].pc \notin Busy
  BY DEF Start, ReadAccounts, FetchFails, CycleAt, Busy
<1>3. CASE Start(c)
  <2>1. PICK pc \in {"reading", "leaving"} : CycleGoto(c, pc)
    BY <1>3 DEF Start
  <2> DEFINE r == [cycle[c] EXCEPT !.pc = pc]
  <2>2. Becomes(c, r) /\ pc \in CyclePC \ Busy
    BY <2>1 DEF CycleGoto, CyclePC, Busy
  <2>3. r \in CycleRec(M) /\ r.pc = pc /\ r.seen = cycle[c].seen
    BY <1>1, <2>2 DEF CycleRec
  <2> HIDE DEF r
  <2>4. Kept(r, mailbox, account, row)
    BY <1>1, <2>2, <2>3 DEF Kept
  <2> QED
    BY <1>0, <1>2, <2>2, <2>3, <2>4, QuietKeeps DEF TypedBy, KeptInv, Busy
<1>4. CASE ReadAccounts(c)
  <2> DEFINE todo == {a \in Account : account[a].there /\ account[a].enabled}
             seen == [a \in Account |-> account[a].last]
             r == [cycle[c] EXCEPT !.pc = "cycle", !.todo = todo, !.seen = seen]
  <2>1. todo \in SUBSET Account /\ seen \in [Account -> M]
    BY <1>0 DEF TypedBy, AccountRec
  <2>2. Becomes(c, r) /\ "cycle" \in CyclePC \ Busy
    BY <1>4 DEF ReadAccounts, CyclePC, Busy
  <2>3. \A a \in Account : seen[a] = account[a].last
    OBVIOUS
  <2> HIDE DEF todo, seen
  <2>4. r \in CycleRec(M) /\ r.pc = "cycle" /\ r.seen = seen
    BY <1>1, <2>1, <2>2 DEF CycleRec
  <2> HIDE DEF r
  <2>5. Kept(r, mailbox, account, row)
    BY <2>2, <2>3, <2>4 DEF Kept, KeptInv
  <2> QED
    BY <1>0, <1>2, <2>2, <2>4, <2>5, QuietKeeps DEF TypedBy, KeptInv, Busy
<1>5. CASE FetchFails(c)
  <2>1. PICK a \in cycle[c].todo : Becomes(c, [cycle[c] EXCEPT !.todo = @ \ {a}])
    BY <1>5 DEF FetchFails
  <2> DEFINE r == [cycle[c] EXCEPT !.todo = @ \ {a}]
  <2>2. Becomes(c, r)
    BY <2>1
  <2>3. r \in CycleRec(M) /\ r.pc = cycle[c].pc /\ r.seen = cycle[c].seen
    BY <1>1 DEF CycleRec
  <2> HIDE DEF r
  <2>4. Kept(r, mailbox, account, row)
    BY <1>1, <1>2, <2>3 DEF Kept
  <2> QED
    BY <1>0, <1>2, <2>2, <2>3, <2>4, QuietKeeps DEF TypedBy, KeptInv, Busy
<1> QED
  BY <1>3, <1>4, <1>5

\* What a cycle fetches reaches up to the UID it will remember.
LEMMA FetchKeeps ==
  ASSUME "unreadable" \notin SyncFaults, KeptInv, MailInv, NEW c \in Cycle, Fetch(c)
  PROVE  KeptInv'
<1>0. PICK M : 0 \in M /\ TypedBy(M)
  BY DEF MailInv
<1>1. /\ UNCHANGED <<mailbox, account, row, crashes>> /\ cycle[c].pc = "cycle"
      /\ cycle[c] \in CycleRec(M) /\ Kept(cycle[c], mailbox, account, row)
  BY <1>0 DEF Fetch, CycleAt, TypedBy, KeptInv
<1>2. CASE LeaveLoop(c)
  BY <1>1, <1>2, EndKeeps DEF KeptInv
<1>3. ASSUME NEW a \in cycle[c].todo, NEW read, NEW m, read = NewUids(c, a),
             m = Max(read \cup {cycle[c].seen[a]}),
             Becomes(c, [cycle[c] EXCEPT !.pc = "mail", !.todo = @ \ {a}, !.acc = a,
                         !.left = read, !.max = m])
      PROVE  KeptInv'
  <2> DEFINE r == [cycle[c] EXCEPT !.pc = "mail", !.todo = @ \ {a}, !.acc = a,
                     !.left = read, !.max = m]
             N == M \cup read \cup {m}
             T == read \cup {cycle[c].seen[a]}
  <2>1. a \in Account /\ Known(a, cycle[c].seen[a], mailbox, account, row)
    BY <1>1 DEF CycleRec, Kept
  <2>2. mailbox[a].next \in Nat /\ mailbox[a].inbox \subseteq 1 .. mailbox[a].next
    BY <2>1, SyncBoundAssumption DEF KeptInv, Boxes, Uid
  <2>3. read \subseteq mailbox[a].inbox /\ cycle[c].seen[a] \in 0 .. mailbox[a].next
    BY <1>3, <2>1 DEF NewUids, Known
  <2>4. T \in SUBSET (0 .. mailbox[a].next) /\ T # {}
    BY <2>2, <2>3
  <2>5. m \in T /\ \A y \in T : y <= m
    BY <1>3, <2>2, <2>4, MaxIsGreatest
  <2>6. m \in 0 .. mailbox[a].next
    BY <2>4, <2>5
  <2>7. TypedBy(N) /\ m \in N /\ read \subseteq N
    BY <1>0, Wider
  <2> HIDE DEF N
  <2>8. cycle[c] \in CycleRec(N) /\ cycle \in [Cycle -> CycleRec(N)] /\ "mail" \in CyclePC
    BY <2>7 DEF TypedBy, CyclePC
  <2>9. Becomes(c, r)
    BY <1>3
  <2>10. /\ r \in CycleRec(N) /\ r.pc = "mail" /\ r.acc = a /\ r.seen = cycle[c].seen
         /\ r.left = read /\ r.max = m
    BY <2>1, <2>7, <2>8 DEF CycleRec
  <2> HIDE DEF r
  <2>11. ASSUME account[a].there, NEW u \in mailbox[a].inbox, u <= m, row[a][u] = "none"
         PROVE  u \in read
    <3>1. u > cycle[c].seen[a]
      BY <2>1, <2>2, <2>3, <2>11 DEF Known
    <3>2. m \in read
      BY <2>2, <2>3, <2>5, <2>11, <3>1
    <3> QED
      BY <1>3, <2>1, <2>11, <3>1, <3>2, FetchedAreLowest
  <2>12. Covered(r, mailbox, account, row)
    BY <2>6, <2>10, <2>11 DEF Covered
  <2>13. Kept(r, mailbox, account, row)
    BY <1>1, <2>10, <2>12 DEF Kept
  <2> QED
    BY <1>1, <2>8, <2>9, <2>10, <2>13, QuietKeeps DEF KeptInv
<1>4. CASE \E a \in cycle[c].todo : \E read \in SUBSET NewUids(c, a) :
             /\ read = NewUids(c, a)
             /\ Becomes(c, [cycle[c] EXCEPT !.pc = "mail", !.todo = @ \ {a}, !.acc = a,
                            !.left = read, !.max = Max(read \cup {cycle[c].seen[a]})])
  BY <1>3, <1>4
<1> QED
  BY <1>2, <1>4 DEF Fetch

\* A mail that leaves what is left of a cycle has a row, or is inserted.
LEMMA WorkKeeps ==
  ASSUME KeptInv, MailInv, NEW c \in Cycle, Classify(c) \/ InsertMail(c)
  PROVE  KeptInv'
<1>0. PICK M : 0 \in M /\ TypedBy(M)
  BY DEF MailInv
<1> DEFINE a == cycle[c].acc
           u == Min(cycle[c].left)
<1> HIDE DEF u
<1>1. /\ UNCHANGED <<mailbox, account, row, crashes>> /\ cycle[c].pc \in {"mail", "insert"}
      /\ cycle[c] \in CycleRec(M) /\ Kept(cycle[c], mailbox, account, row)
      /\ Covered(cycle[c], mailbox, account, row) /\ a \in Account
  BY <1>0 DEF Classify, InsertMail, CycleAt, TypedBy, KeptInv, Kept, Busy, MailInv, DraftInv,
              WorkInv, AtWork
<1>2. ASSUME NEW r \in CycleRec(M), Becomes(c, r), r.seen = cycle[c].seen,
             Covered(r, mailbox, account, row)
      PROVE  KeptInv'
  <2>1. Kept(r, mailbox, account, row)
    BY <1>1, <1>2 DEF Kept
  <2> QED
    BY <1>0, <1>1, <1>2, <2>1, QuietKeeps DEF TypedBy, KeptInv
<1>3. CASE LeaveLoop(c)
  BY <1>1, <1>3, EndKeeps DEF KeptInv
<1>4. CASE cycle[c].left = {} /\ CycleGoto(c, "move")
  <2> DEFINE r == [cycle[c] EXCEPT !.pc = "move"]
  <2>1. Becomes(c, r)
    BY <1>4 DEF CycleGoto
  <2>2. /\ r \in CycleRec(M) /\ r.seen = cycle[c].seen /\ r.acc = a /\ r.max = cycle[c].max
        /\ r.pend = cycle[c].pend
    BY <1>1 DEF CycleRec, CyclePC
  <2> HIDE DEF r
  <2>3. Covered(r, mailbox, account, row)
    BY <1>1, <1>4, <2>2 DEF Covered
  <2> QED
    BY <1>2, <2>1, <2>2, <2>3
<1>5. CASE row[a][u] # "none" /\ Becomes(c, [cycle[c] EXCEPT !.left = @ \ {u}])
  <2> DEFINE r == [cycle[c] EXCEPT !.left = @ \ {u}]
  <2>1. Becomes(c, r)
    BY <1>5
  <2>2. /\ r \in CycleRec(M) /\ r.seen = cycle[c].seen /\ r.acc = a /\ r.max = cycle[c].max
        /\ r.pend = cycle[c].pend /\ r.pc = cycle[c].pc /\ r.left = cycle[c].left \ {u}
    BY <1>1 DEF CycleRec
  <2> HIDE DEF r
  <2>3. Covered(r, mailbox, account, row)
    BY <1>1, <1>5, <2>2 DEF Covered
  <2> QED
    BY <1>2, <2>1, <2>2, <2>3
<1>6. ASSUME NEW v \in Verdicts,
             Becomes(c, [cycle[c] EXCEPT !.pc = "insert", !.verdict = v])
      PROVE  KeptInv'
  <2> DEFINE r == [cycle[c] EXCEPT !.pc = "insert", !.verdict = v]
  <2>1. Becomes(c, r)
    BY <1>6
  <2>2. /\ r \in CycleRec(M) /\ r.seen = cycle[c].seen /\ r.acc = a /\ r.max = cycle[c].max
        /\ r.pend = cycle[c].pend /\ r.pc = "insert" /\ r.left = cycle[c].left
    BY <1>1 DEF CycleRec, CyclePC
  <2> HIDE DEF r
  <2>3. Covered(r, mailbox, account, row)
    BY <1>1, <2>2 DEF Covered
  <2> QED
    BY <1>2, <2>1, <2>2, <2>3
<1>7. CASE Becomes(c, [cycle[c] EXCEPT !.pc = "mail", !.left = @ \ {u},
                         !.pend[u] = cycle[c].verdict, !.verdict = "plain"])
  <2> DEFINE r == [cycle[c] EXCEPT !.pc = "mail", !.left = @ \ {u},
                     !.pend[u] = cycle[c].verdict, !.verdict = "plain"]
  <2>1. Becomes(c, r)
    BY <1>7
  <2>2. "mail" \in CyclePC /\ "plain" \in Verdicts /\ cycle[c].verdict \in Verdicts
        /\ "none" \notin Verdicts
    BY <1>1 DEF CyclePC, Verdicts, CycleRec
  <2>3. [cycle[c].pend EXCEPT ![u] = cycle[c].verdict] \in [Uid -> States]
    BY <1>1, <2>2 DEF CycleRec, States
  <2>4. /\ r \in CycleRec(M) /\ r.seen = cycle[c].seen /\ r.acc = a /\ r.max = cycle[c].max
        /\ r.pc = "mail" /\ r.left = cycle[c].left \ {u}
        /\ \A w \in Uid : r.pend[w] = IF w = u THEN cycle[c].verdict ELSE cycle[c].pend[w]
    BY <1>1, <2>2, <2>3 DEF CycleRec
  <2> HIDE DEF r
  <2>5. mailbox[a].inbox \subseteq Uid
    BY <1>1 DEF KeptInv, Boxes
  <2>6. Covered(r, mailbox, account, row)
    BY <1>1, <2>2, <2>4, <2>5 DEF Covered
  <2> QED
    BY <1>2, <2>1, <2>4, <2>6
<1> QED
  BY <1>3, <1>4, <1>5, <1>6, <1>7 DEF Classify, InsertMail, u

\* Spam that leaves the inbox was inserted by the cycle that moves it, which commits next.
LEMMA MoveKeeps ==
  ASSUME KeptInv, MailInv, NEW c \in Cycle, Move(c)
  PROVE  KeptInv'
<1>0. PICK M : 0 \in M /\ TypedBy(M)
  BY DEF MailInv
<1> DEFINE a == cycle[c].acc
           r == [cycle[c] EXCEPT !.pc = "commit"]
<1>1. /\ UNCHANGED <<account, row, crashes>> /\ cycle[c].pc = "move"
      /\ cycle[c] \in CycleRec(M) /\ a \in Account
      /\ Kept(cycle[c], mailbox, account, row) /\ Covered(cycle[c], mailbox, account, row)
  BY <1>0 DEF Move, CycleAt, TypedBy, KeptInv, Kept, Busy, MailInv, DraftInv, WorkInv, AtWork
<1>2. Becomes(c, r)
  BY DEF Move, CycleGoto
<1>3. /\ r \in CycleRec(M) /\ r.seen = cycle[c].seen /\ r.acc = a /\ r.max = cycle[c].max
      /\ r.pend = cycle[c].pend /\ r.pc = "commit" /\ r.pc \in Busy
  BY <1>1 DEF CycleRec, CyclePC, Busy
<1> HIDE DEF r
<1>4. cycle'[c] = r /\ \A d \in Cycle \ {c} : cycle'[d] = cycle[d]
  <2>1. cycle \in [Cycle -> CycleRec(M)] /\ r \in CycleRec(M)
    BY <1>0, <1>3 DEF TypedBy
  <2> QED
    BY <1>2, <2>1, OneMoves
<1>5. PICK to \in SUBSET {u \in Uid : cycle[c].pend[u] = "trash"}, from \in SUBSET Uid :
        mailbox' = [mailbox EXCEPT ![a].inbox = @ \ from, ![a].spam = @ \cup to]
  BY DEF Move
<1>6. mailbox \in [Account -> Boxes]
  BY DEF KeptInv
<1>7. /\ mailbox' \in [Account -> Boxes]
      /\ mailbox'[a].next = mailbox[a].next
      /\ mailbox'[a].inbox = mailbox[a].inbox \ from
      /\ mailbox'[a].spam = mailbox[a].spam \cup to
      /\ \A b \in Account \ {a} : mailbox'[b] = mailbox[b]
  <2> DEFINE box == [mailbox[a] EXCEPT !.inbox = @ \ from, !.spam = @ \cup to]
  <2>1. mailbox' = [mailbox EXCEPT ![a] = box]
    BY <1>1, <1>5, <1>6 DEF Boxes
  <2>2. /\ box \in Boxes /\ box.next = mailbox[a].next /\ box.inbox = mailbox[a].inbox \ from
        /\ box.spam = mailbox[a].spam \cup to
    BY <1>1, <1>6 DEF Boxes
  <2> HIDE DEF box
  <2> QED
    BY <1>1, <1>6, <2>1, <2>2
<1>8. Kept(r, mailbox, account, row)
  BY <1>1, <1>3 DEF Kept, Covered
<1>9. \A b \in Account : /\ mailbox[b].next = mailbox'[b].next
                        /\ mailbox'[b].inbox \subseteq mailbox[b].inbox
                        /\ mailbox[b].next \in Nat
  BY <1>6, <1>7, SyncBoundAssumption DEF Boxes
<1>10. \A d \in Cycle : cycle[d].pc \in Busy => cycle[d].acc \in Account
  BY DEF MailInv, DraftInv, WorkInv, AtWork
<1>11. /\ \A b \in Account : \A n :
             Known(b, n, mailbox, account, row) => Known(b, n, mailbox', account', row')
       /\ \A s : (s.pc \in Busy => s.acc \in Account) /\ Kept(s, mailbox, account, row)
             => Kept(s, mailbox', account', row')
  <2>1. \A b \in Account : mailbox[b].next <= mailbox'[b].next
    BY <1>9
  <2> QED
    BY <1>1, <1>6, <1>7, <1>9, <2>1, WorldGrows
<1>12. \A d \in Cycle : Kept(cycle'[d], mailbox', account', row')
  <2>1. Kept(r, mailbox', account', row')
    BY <1>1, <1>3, <1>8, <1>11
  <2>2. \A d \in Cycle : Kept(cycle[d], mailbox', account', row')
    BY <1>10, <1>11 DEF KeptInv
  <2> QED
    BY <1>4, <2>1, <2>2
<1>13. MovedIsRecorded'
  <2> SUFFICES ASSUME crashes = 0, NEW b \in Account, NEW u \in mailbox'[b].spam,
                      account[b].there, row[b][u] # "trash"
               PROVE  \E d \in Pending(b, u)' : CycleAt(d, "commit")' /\ cycle'[d].pend[u] = "trash"
    BY <1>1 DEF MovedIsRecorded
  <2>1. CASE u \in mailbox[b].spam
    <3>1. PICK d \in Pending(b, u) : CycleAt(d, "commit") /\ cycle[d].pend[u] = "trash"
      BY <2>1 DEF KeptInv, MovedIsRecorded
    <3>2. d # c /\ d \in Cycle
      BY <1>1, <3>1 DEF Pending, CycleAt
    <3> QED
      BY <1>4, <3>1, <3>2 DEF Pending, CycleAt
  <2>2. CASE u \notin mailbox[b].spam
    <3>1. b = a /\ u \in to
      BY <1>7, <2>2
    <3> QED
      BY <1>3, <1>4, <3>1 DEF Pending, CycleAt
  <2> QED
    BY <2>1, <2>2
<1>14. /\ mailbox' \in [Account -> Boxes] /\ crashes' \in Nat
       /\ \A b \in Account : \A u \in mailbox'[b].inbox : u <= mailbox'[b].next
  BY <1>1, <1>7, <1>9 DEF KeptInv
<1>15. \A b \in Account : Known(b, account'[b].last, mailbox', account', row')
  BY <1>1, <1>11 DEF KeptInv
<1> QED
  BY <1>12, <1>13, <1>14, <1>15 DEF KeptInv

\* A commit makes rows of what was inserted, before its UID counts as seen.
LEMMA CommitKeeps ==
  ASSUME KeptInv, MailInv, NEW c \in Cycle, Commit(c)
  PROVE  KeptInv'
<1>0. PICK M : 0 \in M /\ TypedBy(M)
  BY DEF MailInv
<1> DEFINE a == cycle[c].acc
           r == [IdleCycle EXCEPT !.pc = "cycle", !.todo = cycle[c].todo, !.seen = cycle[c].seen]
<1>1. /\ UNCHANGED <<mailbox, crashes>> /\ cycle[c].pc = "commit" /\ DraftInv
      /\ cycle[c] \in CycleRec(M) /\ a \in Account
      /\ Kept(cycle[c], mailbox, account, row) /\ Covered(cycle[c], mailbox, account, row)
  BY <1>0 DEF Commit, CycleAt, TypedBy, KeptInv, Kept, Busy, MailInv, DraftInv, WorkInv, AtWork
<1>2. CASE ~account[a].there
  <2>1. LeaveLoop(c) /\ UNCHANGED <<row, account>>
    BY <1>2 DEF Commit
  <2> QED
    BY <1>1, <1>2, <2>1, EndKeeps DEF KeptInv
<1>3. CASE account[a].there
  <2>1. /\ r \in CycleRec(M) /\ r.pc = "cycle" /\ r.seen = cycle[c].seen /\ Becomes(c, r)
        /\ CommitWrites(c)
    BY <1>0, <1>1, <1>3, CommitEffect
  <2> HIDE DEF r
  <2>2. cycle'[c] = r /\ \A d \in Cycle \ {c} : cycle'[d] = cycle[d]
    BY <1>0, <2>1, OneMoves DEF TypedBy
  <2>3. /\ \A b \in Account : \A u \in Uid : row'[b][u] =
             IF b = a /\ cycle[c].pend[u] # "none" THEN cycle[c].pend[u] ELSE row[b][u]
        /\ \A b \in Account : account'[b].there = account[b].there
        /\ \A b \in Account : account'[b].last = account[b].last
                               \/ (b = a /\ account'[b].last = cycle[c].max)
    BY <2>1 DEF CommitWrites
  <2>4. /\ mailbox \in [Account -> Boxes]
        /\ \A b \in Account : mailbox[b].next \in Nat /\ mailbox[b].inbox \subseteq Uid
                              /\ mailbox[b].spam \subseteq Uid
    BY SyncBoundAssumption DEF KeptInv, Boxes
  <2>5. \A b \in Account : \A n :
          Known(b, n, mailbox, account, row) => Known(b, n, mailbox', account', row')
    BY <1>1, <2>3, <2>4 DEF Known
  <2>6. \A s : (s.pc \in Busy => s.acc \in Account) /\ Kept(s, mailbox, account, row)
          => Kept(s, mailbox', account', row')
    BY <1>1, <2>3, <2>4, <2>5 DEF Kept, Covered
  <2>7. Known(a, cycle[c].max, mailbox', account', row')
    BY <1>1, <2>3, <2>4 DEF Covered, Known
  <2>8. \A b \in Account : Known(b, account'[b].last, mailbox', account', row')
    BY <2>3, <2>5, <2>7 DEF KeptInv
  <2>9. \A d \in Cycle : Kept(cycle'[d], mailbox', account', row')
    <3>1. r.pc \notin Busy
      BY <2>1 DEF Busy
    <3>2. Kept(r, mailbox', account', row')
      BY <1>1, <2>1, <2>5, <3>1 DEF Kept
    <3>3. \A d \in Cycle : cycle[d].pc \in Busy => cycle[d].acc \in Account
      BY <1>1 DEF DraftInv, WorkInv, AtWork
    <3>4. \A d \in Cycle : Kept(cycle[d], mailbox', account', row')
      BY <2>6, <3>3 DEF KeptInv
    <3> QED
      BY <2>2, <3>2, <3>4
  <2>10. MovedIsRecorded'
    <3> SUFFICES ASSUME crashes = 0, NEW b \in Account, NEW u \in mailbox[b].spam,
                        account[b].there, row'[b][u] # "trash"
                 PROVE  \E d \in Pending(b, u)' : CycleAt(d, "commit")' /\ cycle'[d].pend[u] = "trash"
      BY <1>1, <2>3 DEF MovedIsRecorded
    <3>1. u \in Uid
      BY <2>4
    <3>2. CASE row[b][u] = "trash"
      <4>1. b = a /\ cycle[c].pend[u] # "none"
        BY <2>3, <3>1, <3>2
      <4> QED
        BY <1>1, <3>1, <3>2, <4>1 DEF DraftInv, PendInv, Free
    <3>3. CASE row[b][u] # "trash"
      <4>1. PICK d \in Pending(b, u) : CycleAt(d, "commit") /\ cycle[d].pend[u] = "trash"
        BY <3>3 DEF KeptInv, MovedIsRecorded
      <4>2. d # c
        BY <2>3, <3>1, <4>1 DEF Pending
      <4> QED
        BY <2>2, <4>1, <4>2 DEF Pending, CycleAt
    <3> QED
      BY <3>2, <3>3
  <2>11. /\ mailbox' \in [Account -> Boxes] /\ crashes' \in Nat
         /\ \A b \in Account : \A u \in mailbox'[b].inbox : u <= mailbox'[b].next
    BY <1>1 DEF KeptInv
  <2> QED
    BY <2>8, <2>9, <2>10, <2>11 DEF KeptInv
<1> QED
  BY <1>2, <1>3

\* The world: mails that arrive are above what anyone has seen, and what nobody needs any
\* more goes with its account.
LEMMA WorldKeeps ==
  ASSUME KeptInv, MailInv, NEW a \in Account,
         Arrive(a) \/ PatchAccount(a) \/ DeleteAccount(a)
  PROVE  KeptInv'
<1>0. PICK M : 0 \in M /\ TypedBy(M)
  BY DEF MailInv
<1>1. UNCHANGED <<cycle, crashes>>
  BY DEF Arrive, PatchAccount, DeleteAccount
<1>2. /\ mailbox \in [Account -> Boxes] /\ account \in [Account -> AccountRec(M)]
      /\ row \in [Account -> [Uid -> States]]
      /\ \A b \in Account : /\ mailbox[b].next \in Nat /\ mailbox[b].inbox \subseteq Uid
                            /\ \A u \in mailbox[b].inbox : u <= mailbox[b].next
      /\ Uid \subseteq Nat
  BY <1>0, SyncBoundAssumption DEF KeptInv, Boxes, TypedBy, MailInv, DraftInv, RowsTyped, Uid
<1>3. SUFFICES
        /\ mailbox' \in [Account -> Boxes]
        /\ \A b \in Account :
             /\ mailbox[b].next <= mailbox'[b].next /\ mailbox'[b].spam = mailbox[b].spam
             /\ \A u \in mailbox'[b].inbox :
                  u <= mailbox'[b].next /\ (u \in mailbox[b].inbox \/ u > mailbox[b].next)
             /\ account'[b].last = account[b].last
             /\ account'[b].there => account[b].there /\ row'[b] = row[b]
  <2>1. /\ \A b \in Account : \A n :
             Known(b, n, mailbox, account, row) => Known(b, n, mailbox', account', row')
        /\ \A s : (s.pc \in Busy => s.acc \in Account) /\ Kept(s, mailbox, account, row)
             => Kept(s, mailbox', account', row')
    BY <1>2, <1>3, WorldGrows
  <2>2. \A d \in Cycle : Kept(cycle'[d], mailbox', account', row')
    BY <1>1, <2>1 DEF KeptInv, MailInv, DraftInv, WorkInv, AtWork
  <2>3. \A b \in Account : Known(b, account'[b].last, mailbox', account', row')
    BY <1>3, <2>1 DEF KeptInv
  <2>4. MovedIsRecorded'
    BY <1>1, <1>3 DEF KeptInv, MovedIsRecorded, Pending, CycleAt
  <2>5. \A b \in Account : \A u \in mailbox'[b].inbox : u <= mailbox'[b].next
    BY <1>3
  <2> QED
    BY <1>1, <1>3, <2>2, <2>3, <2>4, <2>5 DEF KeptInv
<1>4. CASE Arrive(a)
  <2> DEFINE new == mailbox[a].next + 1
             box == [mailbox[a] EXCEPT !.next = @ + 1, !.inbox = @ \cup {new}]
  <2>1. mailbox' = [mailbox EXCEPT ![a] = box] /\ UNCHANGED <<account, row>>
        /\ mailbox[a].next < MaxUid
    BY <1>2, <1>4 DEF Arrive, Boxes
  <2>2. new \in Uid /\ new \in 0 .. MaxUid /\ new \in Nat
    BY <1>2, <2>1, SyncBoundAssumption DEF Uid
  <2>3. /\ box \in Boxes /\ box.next = new /\ box.inbox = mailbox[a].inbox \cup {new}
        /\ box.spam = mailbox[a].spam
    BY <1>2, <2>2 DEF Boxes
  <2> HIDE DEF box
  <2>4. /\ mailbox' \in [Account -> Boxes] /\ mailbox'[a] = box
        /\ \A b \in Account \ {a} : mailbox'[b] = mailbox[b]
    BY <1>2, <2>1, <2>3
  <2>5. new > mailbox[a].next /\ mailbox[a].next <= new /\ new <= new
    BY <1>2
  <2>6. \A u \in mailbox[a].inbox : u <= new
    <3> SUFFICES ASSUME NEW u \in mailbox[a].inbox PROVE u <= new
      OBVIOUS
    <3>1. u \in Nat /\ u <= mailbox[a].next /\ mailbox[a].next \in Nat
      BY <1>2
    <3> QED
      BY <3>1
  <2> HIDE DEF new
  <2>7. \A b \in Account : mailbox[b].next <= mailbox[b].next
    BY <1>2
  <2> QED
    BY <1>2, <2>1, <2>3, <2>4, <2>5, <2>6, <2>7
<1>5. \A b \in Account : mailbox[b].next <= mailbox[b].next
  BY <1>2
<1>6. CASE PatchAccount(a)
  <2> DEFINE s == [account[a] EXCEPT !.enabled = ~account[a].enabled]
  <2>1. s.last = account[a].last /\ s.there = account[a].there
    BY <1>2 DEF AccountRec
  <2>2. account' = [account EXCEPT ![a] = s] /\ UNCHANGED <<mailbox, row>>
    BY <1>6 DEF PatchAccount
  <2> HIDE DEF s
  <2> QED
    BY <1>2, <1>5, <2>1, <2>2
<1>7. CASE DeleteAccount(a)
  <2> DEFINE s == [account[a] EXCEPT !.there = FALSE]
  <2>1. s.last = account[a].last /\ s.there = FALSE
    BY <1>2 DEF AccountRec
  <2>2. account' = [account EXCEPT ![a] = s] /\ row' = [row EXCEPT ![a] = NoMail]
        /\ UNCHANGED mailbox
    BY <1>7 DEF DeleteAccount
  <2> HIDE DEF s
  <2> QED
    BY <1>2, <1>5, <2>1, <2>2
<1> QED
  BY <1>4, <1>6, <1>7

\* Nobody has seen a mail at the start.
LEMMA KeptInit == SyncInit => KeptInv
<1> SUFFICES ASSUME SyncInit PROVE KeptInv
  OBVIOUS
<1> DEFINE box == [next |-> 0, inbox |-> {}, spam |-> {}]
<1>1. box \in Boxes /\ box.next = 0 /\ box.inbox = {} /\ box.spam = {}
  BY SyncBoundAssumption DEF Boxes
<1>2. mailbox = [b \in Account |-> box]
  BY DEF SyncInit
<1> HIDE DEF box
<1>3. /\ mailbox \in [Account -> Boxes]
      /\ \A a \in Account : mailbox[a].next = 0 /\ mailbox[a].inbox = {} /\ mailbox[a].spam = {}
  BY <1>1, <1>2
<1>4. \A a \in Account : Known(a, 0, mailbox, account, row)
  BY <1>3 DEF Known
<1>5. \A c \in Cycle : Kept(cycle[c], mailbox, account, row)
  BY <1>4 DEF SyncInit, IdleCycle, Kept, Busy
<1>6. crashes \in Nat /\ \A a \in Account : account[a].last = 0
  BY DEF SyncInit
<1>7. MovedIsRecorded
  BY <1>3 DEF MovedIsRecorded
<1> QED
  BY <1>3, <1>4, <1>5, <1>6, <1>7 DEF KeptInv

\* Every step keeps it, if what the server returns is all that was asked for.
LEMMA KeptStep ==
  ASSUME "unreadable" \notin SyncFaults
  PROVE  KeptInv /\ MailInv /\ [SyncNext]_syncVars => KeptInv'
<1> SUFFICES ASSUME KeptInv, MailInv, [SyncNext]_syncVars PROVE KeptInv'
  OBVIOUS
<1>1. crashes \in Nat
  BY DEF KeptInv
<1>2. CASE LockExpires \/ UNCHANGED syncVars
  <2>1. UNCHANGED <<mailbox, account, row, cycle, crashes>>
    BY <1>2 DEF LockExpires, syncVars
  <2> QED
    BY <2>1 DEF KeptInv, MovedIsRecorded, Pending, CycleAt
<1>3. ASSUME NEW c \in Cycle, EndCycle(c) \/ Leave(c) PROVE KeptInv'
  <2>1. /\ LeaveLoop(c) \/ Becomes(c, IdleCycle)
        /\ UNCHANGED <<mailbox, account, row, crashes>> /\ cycle[c].pc # "commit"
    BY <1>3 DEF EndCycle, Leave, CycleAt
  <2> QED
    BY <1>1, <2>1, EndKeeps
<1>4. ASSUME NEW c \in Cycle, CrashCycle(c) PROVE KeptInv'
  <2>1. /\ Becomes(c, IdleCycle) /\ UNCHANGED <<mailbox, account, row>>
        /\ crashes' = crashes + 1
    BY <1>4 DEF CrashCycle
  <2>2. crashes' \in Nat /\ crashes' # 0
    BY <1>1, <2>1
  <2> QED
    BY <2>1, <2>2, EndKeeps
<1>5. CASE \E c \in Cycle : Start(c) \/ CycleStep(c) \/ CrashCycle(c)
  BY <1>3, <1>4, <1>5, StartKeeps, FetchKeeps, WorkKeeps, MoveKeeps, CommitKeeps DEF CycleStep
<1> QED
  BY <1>2, <1>5, WorldKeeps DEF SyncNext

\* Whatever cycles overlap, die, are late or lose their account, no mail below last_uid is
\* without its row, and, unless a process dies, none is in the spam folder that is not
\* recorded as such (sync_account in mail/sync.py, fetch_new and move_messages in
\* mail/imap_client.py).  A server that leaves out a UID it was asked for is excluded: the
\* code passes over such a mail.
THEOREM NoMailIsLost ==
  ASSUME "unreadable" \notin SyncFaults
  PROVE  SyncSpec => []MailsAreKept
<1>1. KeptInv => MailsAreKept
  <2> SUFFICES ASSUME KeptInv PROVE PassedIsRecorded
    BY DEF KeptInv, MailsAreKept
  <2> QED
    BY DEF PassedIsRecorded, KeptInv, Known
<1>2. KeptInv /\ MailInv /\ [SyncNext]_syncVars => KeptInv'
  BY KeptStep
<1> QED
  BY MailInit, MailStep, KeptInit, <1>1, <1>2, PTL DEF SyncSpec

-----------------------------------------------------------------------------

(***************************************************************************)
(* The two promises of MailDrafts for any number of drafts, requests and   *)
(* mails.  Neither is inductive: a request carries its verdict and its     *)
(* copy of the text from the SMTP exchange to its commit.                  *)
(***************************************************************************)

\* A request that is not idle has a draft.
HasDraft == \A r \in Request : ~RequestAt(r, "idle") => request[r].draft \in Draft

\* A request that is about to write "sent" has sent its draft.
SentInv ==
  /\ SentWasMailed
  /\ \A r \in Request : RequestAt(r, "sent") => mails[request[r].draft] # <<>>

On(r) == request[r].draft
NoneWasSent(d) == \A r \in Request : ~(RequestAt(r, "sent") /\ On(r) = d)

\* Without draftFaults one request works at a time, on a draft that is there and as it
\* has read it: the text it sends is the text of the row, and nothing was sent before.
Serial ==
  /\ \A r, q \in Request : r = q \/ RequestAt(r, "idle") \/ RequestAt(q, "idle")
  /\ \A r \in Request :
       /\ ~RequestAt(r, "idle") => draft[On(r)].there /\ request[r].loaded = draft[On(r)].status
       /\ RequestAt(r, "patch") => draft[On(r)].status = "pending"
       /\ request[r].pc \in {"smtp", "sent", "failed"} => draft[On(r)].status # "sent"
       /\ RequestAt(r, "smtp") => request[r].body = draft[On(r)].body
       /\ request[r].pc \in {"smtp", "failed"} => mails[On(r)] = <<>>
       /\ RequestAt(r, "sent") => mails[On(r)] = <<draft[On(r)].body>>

\* What was sent for a draft is nothing, or its text once.
Once ==
  \A d \in Draft :
    /\ mails[d] = <<>> \/ \E b \in Body : mails[d] = <<b>>
    /\ (draft[d].there /\ draft[d].status = "sent") => mails[d] = <<draft[d].body>>
    /\ (draft[d].there /\ draft[d].status # "sent" /\ NoneWasSent(d)) => mails[d] = <<>>

SerialInv == draftFaults = {} => Serial /\ Once

\* A request that begins leaves drafts and mails alone and takes a typed copy.
LEMMA BeginKeepsSerial ==
  ASSUME DraftTypeOK, HasDraft, NEW r \in Request, NEW d \in Draft, NEW pc \in RequestPC, NEW b \in Body,
         Begin(r, pc, d, b)
  PROVE  DraftTypeOK' /\ HasDraft'
<1>1. draft[d].status \in Statuses
  BY DEF DraftTypeOK
<1>2. [pc |-> pc, draft |-> d, body |-> b, loaded |-> draft[d].status]
        \in [pc : RequestPC, draft : Draft \cup {NoDraft}, body : Body, loaded : Statuses]
  BY <1>1
<1>3. DraftTypeOK'
  BY <1>2 DEF DraftTypeOK, Begin
<1>4. HasDraft'
  BY DEF HasDraft, Begin, RequestAt, DraftTypeOK
<1>5. QED
  BY <1>3, <1>4

\* A request that ends is idle, and keeps its type.
LEMMA EndKeepsSerial ==
  ASSUME DraftTypeOK, HasDraft, NEW r \in Request, End(r)
  PROVE  /\ request' \in [Request -> [pc : RequestPC, draft : Draft \cup {NoDraft}, body : Body,
                                      loaded : Statuses]]
         /\ HasDraft'
BY DEF DraftTypeOK, HasDraft, End, IdleRequest, RequestAt, RequestPC, Statuses

\* A row keeps its type when one attribute is written.
LEMMA DraftTyped ==
  ASSUME DraftTypeOK, NEW d \in Draft
  PROVE  /\ \A st \in Statuses : [draft EXCEPT ![d].status = st]
              \in [Draft -> [there : BOOLEAN, status : Statuses, body : Body]]
         /\ \A b \in Body : [draft EXCEPT ![d].body = b]
              \in [Draft -> [there : BOOLEAN, status : Statuses, body : Body]]
BY DEF DraftTypeOK

\* The state of drafts, mails and requests keeps its form.
THEOREM DraftTypes == DraftSpec => [](DraftTypeOK /\ HasDraft)
<1> USE DEF RequestAt
<1>1. DraftInit => DraftTypeOK /\ HasDraft
  BY DEF DraftInit, DraftTypeOK, HasDraft, Statuses, RequestPC, IdleRequest
<1>2. DraftTypeOK /\ HasDraft /\ [DraftNext]_draftVars => DraftTypeOK' /\ HasDraft'
  <2> SUFFICES ASSUME DraftTypeOK, HasDraft, [DraftNext]_draftVars PROVE DraftTypeOK' /\ HasDraft'
    OBVIOUS
  <2>1. CASE UNCHANGED draftVars
    BY <2>1 DEF draftVars, DraftTypeOK, HasDraft
  <2>2. ASSUME NEW r \in Request, NEW d \in Draft, SendDraft(r, d) \/ RejectDraft(r, d)
        PROVE DraftTypeOK' /\ HasDraft'
    <3>1. draft[d].body \in Body
      BY DEF DraftTypeOK
    <3>2. QED
      BY <2>2, <3>1, BeginKeepsSerial DEF SendDraft, RejectDraft, RequestPC
  <2>3. ASSUME NEW r \in Request, NEW d \in Draft, NEW b \in Body, PatchDraft(r, d, b)
        PROVE DraftTypeOK' /\ HasDraft'
    BY <2>3, BeginKeepsSerial DEF PatchDraft, RequestPC
  <2>4. ASSUME NEW r \in Request, Smtp(r) PROVE DraftTypeOK' /\ HasDraft'
    <3>1. request[r].draft \in Draft /\ request[r].body \in Body
      BY <2>4 DEF Smtp, DraftTypeOK, HasDraft
    <3>2. mails' \in [Draft -> Seq(Body)]
      <4>1. mails[request[r].draft] \in Seq(Body)
        BY <3>1 DEF DraftTypeOK
      <4>2. Append(mails[request[r].draft], request[r].body) \in Seq(Body)
        BY <3>1, <4>1
      <4>3. QED
        BY <2>4, <4>2 DEF Smtp, DraftTypeOK
    <3>3. /\ draft' = draft /\ draftFaults' = draftFaults
          /\ \E pc \in {"sent", "failed"} : request' = [request EXCEPT ![r].pc = pc]
      BY <2>4 DEF Smtp
    <3>4. request' \in [Request -> [pc : RequestPC, draft : Draft \cup {NoDraft}, body : Body,
                                    loaded : Statuses]]
      <4>1. PICK pc \in {"sent", "failed"} : request' = [request EXCEPT ![r].pc = pc]
        BY <3>3
      <4> DEFINE x == [request[r] EXCEPT !.pc = pc]
      <4>2. pc \in RequestPC
        BY DEF RequestPC
      <4>3. x \in [pc : RequestPC, draft : Draft \cup {NoDraft}, body : Body, loaded : Statuses]
        BY <4>2 DEF DraftTypeOK
      <4>4. request' = [request EXCEPT ![r] = x]
        BY <4>1
      <4> HIDE DEF x
      <4> QED
        BY <4>3, <4>4 DEF DraftTypeOK
    <3>5. DraftTypeOK'
      BY <3>2, <3>3, <3>4 DEF DraftTypeOK
    <3>6. HasDraft'
      BY <3>1, <3>3 DEF DraftTypeOK, HasDraft
    <3>7. QED
      BY <3>5, <3>6
  <2>5. ASSUME NEW r \in Request, Store(r) PROVE DraftTypeOK' /\ HasDraft'
    <3>1. draft' \in [Draft -> [there : BOOLEAN, status : Statuses, body : Body]]
      <4>1. PICK d \in Draft, st \in Statuses : d = request[r].draft /\ st = request[r].pc
        BY <2>5 DEF Store, HasDraft, Statuses
      <4>2. draft' = draft \/ draft' = [draft EXCEPT ![d].status = st]
        BY <2>5, <4>1 DEF Store
      <4>3. draft \in [Draft -> [there : BOOLEAN, status : Statuses, body : Body]]
        BY DEF DraftTypeOK
      <4>4. [draft EXCEPT ![d].status = st] \in [Draft -> [there : BOOLEAN, status : Statuses, body : Body]]
        BY DraftTyped
      <4>5. QED
        BY <4>2, <4>3, <4>4
    <3>2. QED
      BY <2>5, <3>1, EndKeepsSerial DEF Store, DraftTypeOK
  <2>6. ASSUME NEW r \in Request, PatchStore(r) PROVE DraftTypeOK' /\ HasDraft'
    <3>1. draft' \in [Draft -> [there : BOOLEAN, status : Statuses, body : Body]]
      <4>1. PICK d \in Draft, b \in Body : d = request[r].draft /\ b = request[r].body
        BY <2>6 DEF PatchStore, HasDraft, DraftTypeOK
      <4>2. draft' = draft \/ draft' = [draft EXCEPT ![d].body = b]
        BY <2>6, <4>1 DEF PatchStore
      <4>3. draft \in [Draft -> [there : BOOLEAN, status : Statuses, body : Body]]
        BY DEF DraftTypeOK
      <4>4. [draft EXCEPT ![d].body = b] \in [Draft -> [there : BOOLEAN, status : Statuses, body : Body]]
        BY DraftTyped
      <4>5. QED
        BY <4>2, <4>3, <4>4
    <3>2. QED
      BY <2>6, <3>1, EndKeepsSerial DEF PatchStore, DraftTypeOK
  <2>7. ASSUME NEW r \in Request, RejectStore(r) PROVE DraftTypeOK' /\ HasDraft'
    <3>1. draft' \in [Draft -> [there : BOOLEAN, status : Statuses, body : Body]]
      BY <2>7 DEF RejectStore, DraftTypeOK
    <3>2. QED
      BY <2>7, <3>1, EndKeepsSerial DEF RejectStore, DraftTypeOK
  <2>8. ASSUME NEW r \in Request, Restart(r) PROVE DraftTypeOK' /\ HasDraft'
    BY <2>8, EndKeepsSerial DEF Restart, DraftTypeOK
  <2>9. QED
    BY <2>1, <2>2, <2>3, <2>4, <2>5, <2>6, <2>7, <2>8 DEF DraftNext
<1>3. QED
  BY <1>1, <1>2, PTL DEF DraftSpec

\* A draft that is marked as sent was sent (send_draft in api/mail.py), for any
\* number of drafts, requests and mails, and whatever overlaps, is lost or restarts.
THEOREM SentDraftsWereMailed == DraftSpec => []SentWasMailed
<1> USE DEF RequestAt
<1>1. DraftInit => SentInv
  BY DEF DraftInit, SentInv, SentWasMailed, IdleRequest
<1>2. SentInv /\ DraftTypeOK /\ HasDraft /\ [DraftNext]_draftVars => SentInv'
  <2> SUFFICES ASSUME SentInv, DraftTypeOK, HasDraft, [DraftNext]_draftVars PROVE SentInv'
    OBVIOUS
  <2>1. CASE UNCHANGED draftVars
    BY <2>1 DEF draftVars, SentInv, SentWasMailed
  <2>2. ASSUME NEW r \in Request, NEW d \in Draft, NEW b \in Body, NEW pc \in RequestPC \ {"sent"},
               Begin(r, pc, d, b)
        PROVE SentInv'
    BY <2>2 DEF Begin, SentInv, SentWasMailed, DraftTypeOK
  <2>3. ASSUME NEW r \in Request, Smtp(r) PROVE SentInv'
    <3>1. PICK d \in Draft, b \in Body : d = request[r].draft /\ b = request[r].body
      BY <2>3 DEF Smtp, HasDraft, DraftTypeOK
    <3>2. PICK pc \in {"sent", "failed"} : request' = [request EXCEPT ![r].pc = pc]
      BY <2>3 DEF Smtp
    <3>3. (mails' = mails /\ pc = "failed") \/ mails' = [mails EXCEPT ![d] = Append(@, b)]
      BY <2>3, <3>1, <3>2 DEF Smtp, DraftTypeOK
    <3>4. Append(mails[d], b) # <<>>
      <4>1. mails[d] \in Seq(Body)
        BY DEF DraftTypeOK
      <4>2. Len(Append(mails[d], b)) = Len(mails[d]) + 1 /\ Len(mails[d]) \in Nat
        BY <4>1
      <4>3. QED
        BY <4>2
    <3>5. \A e \in Draft : mails[e] # <<>> => mails'[e] # <<>>
      BY <3>3, <3>4 DEF DraftTypeOK
    <3>6. pc = "sent" => mails'[d] # <<>>
      BY <3>3, <3>4 DEF DraftTypeOK
    <3>7. /\ \A q \in Request : request'[q].draft = request[q].draft
          /\ \A q \in Request : q # r => request'[q] = request[q]
          /\ request'[r].pc = pc
      BY <3>2 DEF DraftTypeOK
    <3>8. draft' = draft
      BY <2>3 DEF Smtp
    <3>9. SentWasMailed'
      BY <3>5, <3>8 DEF SentInv, SentWasMailed
    <3>10. \A q \in Request : (RequestAt(q, "sent"))' => mails'[request'[q].draft] # <<>>
      BY <3>1, <3>5, <3>6, <3>7 DEF SentInv, HasDraft
    <3>11. QED
      BY <3>9, <3>10 DEF SentInv
  <2>4. ASSUME NEW r \in Request, Store(r) PROVE SentInv'
    <3>1. PICK d \in Draft, st \in {"sent", "failed"} : d = request[r].draft /\ st = request[r].pc
      BY <2>4 DEF Store, HasDraft
    <3>2. draft' = draft \/ draft' = [draft EXCEPT ![d].status = st]
      BY <2>4, <3>1 DEF Store
    <3>3. st = "sent" => mails[d] # <<>>
      BY <3>1 DEF SentInv
    <3>4. mails' = mails
      BY <2>4 DEF Store
    <3>5. SentWasMailed'
      BY <3>2, <3>3, <3>4 DEF SentInv, SentWasMailed, DraftTypeOK
    <3>6. \A q \in Request : (RequestAt(q, "sent"))' => mails'[request'[q].draft] # <<>>
      BY <2>4, <3>4 DEF Store, End, IdleRequest, SentInv, DraftTypeOK
    <3>7. QED
      BY <3>5, <3>6 DEF SentInv
  <2>5. ASSUME NEW r \in Request, PatchStore(r) \/ RejectStore(r) \/ Restart(r) PROVE SentInv'
    <3>1. End(r) /\ mails' = mails
      BY <2>5 DEF PatchStore, RejectStore, Restart
    <3>2. \A q \in Request : (RequestAt(q, "sent"))' => request'[q] = request[q] /\ RequestAt(q, "sent")
      BY <3>1 DEF End, IdleRequest, DraftTypeOK
    <3>3. \A d \in Draft : draft'[d].there => draft[d].there /\ draft'[d].status = draft[d].status
      <4>1. CASE PatchStore(r)
        BY <4>1 DEF PatchStore, DraftTypeOK
      <4>2. CASE RejectStore(r)
        BY <4>2 DEF RejectStore, DraftTypeOK
      <4>3. CASE Restart(r)
        BY <4>3 DEF Restart
      <4>4. QED
        BY <2>5, <4>1, <4>2, <4>3
    <3>4. QED
      BY <3>1, <3>2, <3>3 DEF SentInv, SentWasMailed
  <2>6. QED
    BY <2>1, <2>2, <2>3, <2>4, <2>5 DEF DraftNext, SendDraft, RejectDraft, PatchDraft, RequestPC, DraftTypeOK
<1>3. SentInv => SentWasMailed
  BY DEF SentInv
<1>4. QED
  BY <1>1, <1>2, <1>3, DraftTypes, PTL DEF DraftSpec

\* Requests that come one by one and get their answers: a draft is mailed at most
\* once and as it is stored, for any number of drafts (send_draft and patch_draft).
THEOREM DraftsAreMailedAsStored == DraftSpec => []MailedAsStored
<1>1. DraftInit => SerialInv
  BY DEF DraftInit, SerialInv, Serial, Once, RequestAt, On, NoneWasSent, IdleRequest
<1>2. SerialInv /\ DraftTypeOK /\ HasDraft /\ [DraftNext]_draftVars => SerialInv'
  <2> SUFFICES ASSUME SerialInv, DraftTypeOK, HasDraft, [DraftNext]_draftVars, draftFaults' = {} PROVE Serial' /\ Once'
    BY DEF SerialInv
  <2> USE DEF RequestAt, On
  <2>1. draftFaults = {}
    BY DEF DraftNext, draftVars, SendDraft, RejectDraft, PatchDraft, Begin, Smtp, Store, PatchStore, RejectStore, Restart
  <2>2. Serial /\ Once
    BY <2>1 DEF SerialInv
  <2>3. CASE UNCHANGED draftVars
    BY <2>2, <2>3 DEF draftVars, Serial, Once, NoneWasSent
  <2>4. ASSUME NEW r \in Request, NEW d \in Draft, NEW b \in Body, NEW pc \in {"smtp", "patch", "reject"},
               Begin(r, pc, d, b),
               pc = "smtp" => draft[d].status # "sent" /\ b = draft[d].body,
               pc = "patch" => draft[d].status = "pending"
        PROVE Serial' /\ Once'
    <3>1. /\ \A q \in Request : request[q].pc = "idle"
          /\ draft' = draft /\ mails' = mails /\ draft[d].there
          /\ request' = [request EXCEPT ![r] = [pc |-> pc, draft |-> d, body |-> b,
                                                loaded |-> draft[d].status]]
      BY <2>1, <2>4 DEF Begin
    <3>2. /\ request'[r] = [pc |-> pc, draft |-> d, body |-> b, loaded |-> draft[d].status]
          /\ \A q \in Request : q # r => request'[q].pc = "idle"
      BY <3>1 DEF DraftTypeOK
    <3>3. pc = "smtp" => mails[d] = <<>>
      BY <2>2, <2>4, <3>1 DEF Once, NoneWasSent
    <3>4. Once'
      BY <2>2, <3>1 DEF Once, NoneWasSent
    <3>5. Serial'
      BY <2>4, <3>1, <3>2, <3>3 DEF Serial
    <3>6. QED
      BY <3>4, <3>5
  <2>5. ASSUME NEW r \in Request, Smtp(r) PROVE Serial' /\ Once'
    <3>1. PICK d \in Draft, b \in Body : d = request[r].draft /\ b = request[r].body
      BY <2>5 DEF Smtp, HasDraft, DraftTypeOK
    <3>2. /\ draft[d].there /\ request[r].loaded = draft[d].status /\ draft[d].status # "sent"
          /\ b = draft[d].body /\ mails[d] = <<>>
          /\ \A q \in Request : q # r => request[q].pc = "idle"
      BY <2>2, <2>5, <3>1 DEF Smtp, Serial
    <3>3. PICK pc \in {"sent", "failed"} :
            /\ request' = [request EXCEPT ![r].pc = pc]
            /\ mails' = IF pc = "sent" THEN [mails EXCEPT ![d] = <<b>>] ELSE mails
      <4>1. Append(mails[d], b) = <<b>>
        BY <3>2
      <4>2. QED
        BY <2>1, <2>5, <3>1, <4>1 DEF Smtp, DraftTypeOK
    <3>4. /\ request'[r].pc = pc /\ request'[r].draft = d /\ request'[r].body = b
          /\ request'[r].loaded = draft[d].status
          /\ \A q \in Request : q # r => request'[q].pc = "idle"
      BY <3>1, <3>2, <3>3 DEF DraftTypeOK
    <3>5. draft' = draft
      BY <2>5 DEF Smtp
    <3>6. mails'[d] = (IF pc = "sent" THEN <<b>> ELSE <<>>) /\ \A e \in Draft : e # d => mails'[e] = mails[e]
      BY <3>2, <3>3 DEF DraftTypeOK
    <3>7. Serial'
      BY <3>2, <3>4, <3>5, <3>6 DEF Serial
    <3>8. \A e \in Draft : NoneWasSent(e)' => e # d \/ pc = "failed"
      BY <3>4 DEF NoneWasSent
    <3>9. \A e \in Draft : NoneWasSent(e)
      BY <2>5, <3>2 DEF NoneWasSent, Smtp
    <3>10. Once'
      BY <2>2, <3>2, <3>5, <3>6, <3>8, <3>9 DEF Once
    <3>11. QED
      BY <3>7, <3>10
  <2>6. ASSUME NEW r \in Request, Store(r) \/ PatchStore(r) \/ RejectStore(r) PROVE Serial' /\ Once'
    <3>1. PICK d \in Draft, b \in Body, pc \in RequestPC :
            d = request[r].draft /\ b = request[r].body /\ pc = request[r].pc
      BY <2>6 DEF Store, PatchStore, RejectStore, HasDraft, DraftTypeOK
    <3>2. /\ draft[d].there /\ request[r].loaded = draft[d].status
          /\ \A q \in Request : q # r => request[q].pc = "idle"
          /\ pc = "patch" => draft[d].status = "pending"
          /\ pc \in {"sent", "failed"} => draft[d].status # "sent"
          /\ pc = "failed" => mails[d] = <<>>
          /\ pc = "sent" => mails[d] = <<draft[d].body>>
      BY <2>2, <2>6, <3>1 DEF Store, PatchStore, RejectStore, Serial
    <3>3. mails' = mails /\ \A q \in Request : request'[q].pc = "idle"
      BY <2>6, <3>2 DEF Store, PatchStore, RejectStore, End, IdleRequest, DraftTypeOK
    <3>4. Serial'
      BY <3>3 DEF Serial
    <3>5. \A e \in Draft : e # d => NoneWasSent(e)
      BY <3>1, <3>2 DEF NoneWasSent
    <3>6. pc # "sent" => NoneWasSent(d)
      BY <3>1, <3>2 DEF NoneWasSent
    <3>7. CASE Store(r)
      <4>1. pc \in {"sent", "failed"}
        BY <3>1, <3>7 DEF Store
      <4>2. draft' = IF pc # draft[d].status THEN [draft EXCEPT ![d].status = pc] ELSE draft
        BY <3>1, <3>2, <3>7 DEF Store
      <4>3. /\ draft'[d].status = pc /\ draft'[d].body = draft[d].body
            /\ \A e \in Draft : e # d => draft'[e] = draft[e]
        BY <4>1, <4>2 DEF DraftTypeOK
      <4>4. QED
        BY <2>2, <3>2, <3>3, <3>4, <3>5, <4>1, <4>3 DEF Once
    <3>8. CASE PatchStore(r)
      <4>1. pc = "patch"
        BY <3>1, <3>8 DEF PatchStore
      <4>2. draft' = [draft EXCEPT ![d].body = b]
        BY <3>1, <3>2, <3>8 DEF PatchStore
      <4>3. /\ draft'[d].status = "pending"
            /\ \A e \in Draft : e # d => draft'[e] = draft[e]
        BY <3>2, <4>1, <4>2 DEF DraftTypeOK
      <4>4. mails[d] = <<>>
        BY <2>2, <3>2, <3>6, <4>1 DEF Once
      <4>5. QED
        BY <2>2, <3>3, <3>4, <3>5, <4>3, <4>4 DEF Once
    <3>9. CASE RejectStore(r)
      <4>1. draft' = [draft EXCEPT ![d].there = FALSE]
        BY <3>1, <3>9 DEF RejectStore
      <4>2. ~draft'[d].there /\ \A e \in Draft : e # d => draft'[e] = draft[e]
        BY <4>1 DEF DraftTypeOK
      <4>3. QED
        BY <2>2, <3>3, <3>4, <3>5, <4>2 DEF Once
    <3>10. QED
      BY <2>6, <3>7, <3>8, <3>9
  <2>7. ASSUME NEW r \in Request, Restart(r) PROVE FALSE
    BY <2>1, <2>7 DEF Restart
  <2>8. \A d \in Draft : draft[d].body \in Body
    BY DEF DraftTypeOK
  <2>9. QED
    BY <2>3, <2>4, <2>5, <2>6, <2>7, <2>8 DEF DraftNext, SendDraft, RejectDraft, PatchDraft
<1>3. SerialInv /\ DraftTypeOK => MailedAsStored
  <2> SUFFICES ASSUME SerialInv, DraftTypeOK, draftFaults = {}, NEW d \in Draft
      PROVE  /\ Len(mails[d]) <= 1
             /\ (draft[d].there /\ draft[d].status = "sent") => LastOf(mails[d]) = draft[d].body
    BY DEF MailedAsStored
  <2>1. Len(mails[d]) <= 1
    <3>1. CASE mails[d] = <<>>
      BY <3>1
    <3>2. ASSUME NEW b \in Body, mails[d] = <<b>> PROVE Len(mails[d]) <= 1
      BY <3>2
    <3>3. QED
      BY <3>1, <3>2 DEF SerialInv, Once
  <2>2. ASSUME draft[d].there, draft[d].status = "sent" PROVE LastOf(mails[d]) = draft[d].body
    <3>1. mails[d] = <<draft[d].body>>
      BY <2>2 DEF SerialInv, Once
    <3>2. QED
      BY <3>1 DEF LastOf
  <2>3. QED
    BY <2>1, <2>2
<1>4. QED
  BY <1>1, <1>2, <1>3, DraftTypes, PTL DEF DraftSpec

\* A draft that says it was sent was mailed, and without faults once and as it is stored.
THEOREM DraftsStayTrue == DraftSpec => []DraftsAreTrue
<1>1. SentWasMailed /\ MailedAsStored => DraftsAreTrue
  BY DEF DraftsAreTrue
<1> QED
  BY <1>1, SentDraftsWereMailed, DraftsAreMailedAsStored, PTL

-----------------------------------------------------------------------------

(***************************************************************************)
(* RunningIsWorked and RetriesRepeatNothing for any number of jobs, orders *)
(* and workers.  What both need is that a worker at work knows its order   *)
(* and the place of its run, and that its message is held for it.          *)
(***************************************************************************)

Msg == [st : {"none", "queued", "held", "done"}, job : Job \cup {Nobody}, tries : 0..MaxRetries]

\* A worker at work has an order, and a run of it once it has inserted one.
WorkShape ==
  \A w \in Worker :
    /\ At(w, "idle") => work[w] = IdleWork
    /\ ~At(w, "idle") => OrderOf(w) \in Order
    /\ work[w].pc \in {"taken", "read"} => work[w].row = 0
    /\ work[w].pc \in {"inserted", "replying", "ok", "fail"} =>
         work[w].row \in 1..Len(runs[OrderOf(w)])

\* A worker leaves its task, whose message is in one of the states sts.
Leaves(w, sts) ==
  /\ work' = [work EXCEPT ![w] = IdleWork]
  /\ \E m \in Msg : m.st \in sts /\ msg' = [msg EXCEPT ![OrderOf(w)] = m]

-----------------------------------------------------------------------------

\* A task that ends for good leaves a message that is done.
LEMMA AcknowledgeLeaves ==
  ASSUME TypeOK, NEW w \in Worker, OrderOf(w) \in Order, Acknowledge(w)
  PROVE  Leaves(w, {"done"})
<1>1. PICK o \in Order : o = OrderOf(w)
  OBVIOUS
<1>2. [msg[o] EXCEPT !.st = "done"] \in Msg
  BY DEF TypeOK, Msg
<1>3. msg' = [msg EXCEPT ![o] = [msg[o] EXCEPT !.st = "done"]]
  BY <1>1 DEF Acknowledge
<1>4. [msg[o] EXCEPT !.st = "done"].st = "done"
  BY DEF TypeOK
<1>5. QED
  BY <1>1, <1>2, <1>3, <1>4 DEF Leaves, Acknowledge

\* A task that fails leaves a message that is queued again or done.
LEMMA FailTaskLeaves ==
  ASSUME TypeOK, NEW w \in Worker, OrderOf(w) \in Order, FailTask(w)
  PROVE  Leaves(w, {"queued", "done"})
<1>1. PICK o \in Order : o = OrderOf(w)
  OBVIOUS
<1>2. CASE msg[o].tries < MaxRetries
  <2>1. PICK m \in Msg : m = [st |-> "queued", job |-> msg[o].job, tries |-> msg[o].tries + 1]
    <3>1. msg[o].job \in Job \cup {Nobody} /\ msg[o].tries + 1 \in 0..MaxRetries
      <4>1. msg[o] \in Msg
        BY DEF TypeOK, Msg
      <4>2. msg[o].job \in Job \cup {Nobody} /\ msg[o].tries \in 0..MaxRetries
        BY <4>1 DEF Msg
      <4>3. QED
        BY <1>2, <4>2 DEF MaxRetries
    <3>2. QED
      BY <3>1 DEF Msg
  <2>2. msg' = [msg EXCEPT ![o] = m]
    BY <1>1, <1>2, <2>1 DEF FailTask
  <2>3. m.st = "queued"
    BY <2>1
  <2>4. QED
    BY <1>1, <2>1, <2>2, <2>3 DEF Leaves, FailTask
<1>3. CASE ~(msg[o].tries < MaxRetries)
  <2>1. Acknowledge(w)
    BY <1>1, <1>3 DEF FailTask, Acknowledge
  <2>2. QED
    BY <2>1, AcknowledgeLeaves DEF Leaves
<1>4. QED
  BY <1>2, <1>3

-----------------------------------------------------------------------------

Works == [pc : PC, order : Order \cup {Nobody}, row : Nat]
Rows == [Order -> Seq(RunStatus)]

\* A worker that leaves its task keeps the types and the shape of the others.
LEMMA LeavesKeeps ==
  ASSUME TypeOK, WorkShape, NEW w \in Worker, OrderOf(w) \in Order,
         Leaves(w, {"queued", "done"}),
         runs' \in Rows, \A o \in Order : Len(runs'[o]) = Len(runs[o])
  PROVE  msg' \in [Order -> Msg] /\ work' \in [Worker -> Works] /\ WorkShape'
<1>1. msg' \in [Order -> Msg]
  BY DEF Leaves, TypeOK, Msg
<1>2. IdleWork \in Works
  BY DEF IdleWork, Works, PC
<1>3. work' \in [Worker -> Works]
  BY <1>2 DEF Leaves, TypeOK, Works
<1>4. work'[w] = IdleWork /\ \A v \in Worker : v # w => work'[v] = work[v]
  BY DEF Leaves, TypeOK
<1>5. WorkShape'
  BY <1>4 DEF WorkShape, At, OrderOf, IdleWork
<1>6. QED
  BY <1>1, <1>3, <1>5

\* A status is written at the place of a run.
LEMMA RunWritten ==
  ASSUME TypeOK, NEW o \in Order, NEW i \in 1..Len(runs[o]), NEW st \in RunStatus
  PROVE  /\ [runs EXCEPT ![o][i] = st] \in Rows
         /\ \A p \in Order : Len([runs EXCEPT ![o][i] = st][p]) = Len(runs[p])
<1>1. runs[o] \in Seq(RunStatus) /\ runs \in Rows
  BY DEF TypeOK, Rows
<1>2. /\ [runs[o] EXCEPT ![i] = st] \in Seq(RunStatus)
      /\ Len([runs[o] EXCEPT ![i] = st]) = Len(runs[o])
  BY <1>1, ExceptSeq
<1>3. [runs EXCEPT ![o][i] = st] = [runs EXCEPT ![o] = [runs[o] EXCEPT ![i] = st]]
  OBVIOUS
<1>4. QED
  BY <1>1, <1>2, <1>3 DEF Rows

\* The runs of a job that is deleted keep their places.
LEMMA RunsDeleted ==
  ASSUME TypeOK, NEW j \in Job, DeleteJob(j)
  PROVE  /\ runs' \in Rows
         /\ \A o \in Order : Len(runs'[o]) = Len(runs[o])
         /\ \A o \in Order : runs'[o] = runs[o] \/ \A i \in DOMAIN runs'[o] : runs'[o][i] = "deleted"
<1>1. ASSUME NEW o \in Order
      PROVE  /\ [i \in DOMAIN runs[o] |-> "deleted"] \in Seq(RunStatus)
             /\ Len([i \in DOMAIN runs[o] |-> "deleted"]) = Len(runs[o])
  <2>1. DOMAIN runs[o] = 1..Len(runs[o]) /\ Len(runs[o]) \in Nat
    BY DEF TypeOK
  <2>2. QED
    BY <2>1 DEF RunStatus
<1>2. \A o \in Order : runs'[o] = IF msg[o].job = j THEN [i \in DOMAIN runs[o] |-> "deleted"] ELSE runs[o]
  BY DEF DeleteJob
<1>3. QED
  BY <1>1, <1>2 DEF DeleteJob, Rows, TypeOK

-----------------------------------------------------------------------------

\* The rows, messages and workers keep their types, and a worker at work knows its
\* order and its run.
THEOREM JobTypes == Spec => [](TypeOK /\ WorkShape)
<1>1. Init => TypeOK /\ WorkShape
  BY LossAssumption, BeatAssumption
  DEF Init, TypeOK, WorkShape, At, OrderOf, NoMsg, IdleWork, PC, MaxRetries
<1>2. TypeOK /\ WorkShape /\ [Next]_vars => TypeOK' /\ WorkShape'
  <2> SUFFICES ASSUME TypeOK, WorkShape, [Next]_vars PROVE TypeOK' /\ WorkShape'
    OBVIOUS
  <2>1. CASE UNCHANGED vars
    BY <2>1 DEF vars, TypeOK, WorkShape, At, OrderOf
  <2>2. ASSUME NEW j \in Job, CreateJob(j) \/ PatchJob(j) PROVE TypeOK' /\ WorkShape'
    <3>1. /\ job' \in [Job -> {"new", "on", "off", "deleted"}]
          /\ UNCHANGED <<conf, msg, runs, work, losses, faults>>
      BY <2>2 DEF CreateJob, PatchJob, TypeOK
    <3>2. QED
      BY <3>1 DEF TypeOK, WorkShape, At, OrderOf
  <2>3. ASSUME NEW j \in Job, DeleteJob(j) PROVE TypeOK' /\ WorkShape'
    <3>1. /\ job' \in [Job -> {"new", "on", "off", "deleted"}]
          /\ UNCHANGED <<conf, msg, work, losses, faults>>
      BY <2>3 DEF DeleteJob, TypeOK
    <3>2. TypeOK'
      BY <2>3, <3>1, RunsDeleted DEF TypeOK, Rows
    <3>3. WorkShape'
      BY <2>3, <3>1, RunsDeleted DEF WorkShape, At, OrderOf
    <3>4. QED
      BY <3>2, <3>3
  <2>4. ASSUME NEW j \in Job, NEW o \in Order, Send(j, o) PROVE TypeOK' /\ WorkShape'
    <3>1. [st |-> "queued", job |-> j, tries |-> 0] \in Msg
      BY DEF Msg, MaxRetries
    <3>2. msg' \in [Order -> Msg]
      BY <2>4, <3>1 DEF Send, TypeOK, Msg
    <3>3. QED
      BY <2>4, <3>2 DEF Send, TypeOK, Msg, WorkShape, At, OrderOf
  <2>5. ASSUME NEW w \in Worker, SyncScheduler(w) PROVE TypeOK' /\ WorkShape'
    <3>1. conf' \in [Process -> SUBSET Job]
      BY <2>5 DEF SyncScheduler, TypeOK, Enabled, Process
    <3>2. QED
      BY <2>5, <3>1 DEF SyncScheduler, TypeOK, WorkShape, At, OrderOf
  <2>6. ASSUME NEW w \in Worker, NEW o \in Order, Take(w, o) PROVE TypeOK' /\ WorkShape'
    <3>1. msg' \in [Order -> Msg]
      BY <2>6 DEF Take, TypeOK, Msg
    <3>2. [pc |-> "taken", order |-> o, row |-> 0] \in Works
      BY DEF Works, PC
    <3>3. work' \in [Worker -> Works]
      BY <2>6, <3>2 DEF Take, TypeOK, Works
    <3>4. WorkShape'
      BY <2>6 DEF Take, TypeOK, WorkShape, At, OrderOf
    <3>5. QED
      BY <2>6, <3>1, <3>3, <3>4 DEF Take, TypeOK, Msg, Works
  <2>7. ASSUME NEW w \in Worker, Task(w) PROVE TypeOK' /\ WorkShape'
    <3>1. OrderOf(w) \in Order /\ work[w] \in Works
      BY <2>7 DEF Task, ReadJob, InsertRun, InsertConversation, Reply, RecordRun, At, WorkShape, TypeOK, Works
    <3>2. UNCHANGED <<job, conf, losses, faults>>
      BY <2>7 DEF Task, ReadJob, InsertRun, InsertConversation, Reply, RecordRun
    <3>3. CASE ReadJob(w)
      <4>1. CASE Leaves(w, {"done"})
        BY <3>1, <3>2, <3>3, <4>1, LeavesKeeps DEF Leaves, ReadJob, TypeOK, Msg, Works, Rows
      <4>2. CASE Goto(w, "read") /\ msg' = msg
        <5>1. /\ work' \in [Worker -> Works]
              /\ work'[w] = [work[w] EXCEPT !.pc = "read"]
              /\ \A v \in Worker : v # w => work'[v] = work[v]
          BY <3>1, <4>2 DEF Goto, TypeOK, Works, PC
        <5>2. WorkShape'
          BY <3>1, <3>3, <5>1 DEF ReadJob, WorkShape, At, OrderOf, Works
        <5>3. QED
          BY <3>2, <3>3, <4>2, <5>1, <5>2 DEF ReadJob, TypeOK, Works
      <4>3. QED
        BY <3>1, <3>3, <4>1, <4>2, AcknowledgeLeaves DEF ReadJob
    <3>4. CASE InsertRun(w)
      <4>1. CASE FailTask(w) /\ runs' = runs
        BY <3>1, <3>2, <4>1, FailTaskLeaves, LeavesKeeps DEF TypeOK, Msg, Works, Rows
      <4>2. CASE ~(FailTask(w) /\ runs' = runs)
        <5>1. PICK o \in Order : o = OrderOf(w)
          BY <3>1
        <5>2. /\ runs' = [runs EXCEPT ![o] = Append(runs[o], "running")] /\ msg' = msg
              /\ work' = [work EXCEPT ![w] = [pc |-> "inserted", order |-> o, row |-> Len(runs[o]) + 1]]
          BY <3>4, <4>2, <5>1 DEF InsertRun
        <5>3. runs[o] \in Seq(RunStatus) /\ "running" \in RunStatus
          BY DEF TypeOK, RunStatus
        <5>4. /\ Append(runs[o], "running") \in Seq(RunStatus) /\ Len(runs[o]) \in Nat
              /\ Len(Append(runs[o], "running")) = Len(runs[o]) + 1
          BY <5>3
        <5>5. /\ runs' \in Rows /\ Len(runs'[o]) = Len(runs[o]) + 1
              /\ \A p \in Order : p # o => runs'[p] = runs[p]
          BY <5>2, <5>4 DEF TypeOK, Rows
        <5>6. PICK x \in Works : x = [pc |-> "inserted", order |-> o, row |-> Len(runs[o]) + 1]
          <6>1. [pc |-> "inserted", order |-> o, row |-> Len(runs[o]) + 1] \in Works
            BY <5>4 DEF Works, PC
          <6>2. QED
            BY <6>1
        <5>7. work' = [work EXCEPT ![w] = x]
          BY <5>2, <5>6
        <5>8. /\ work' \in [Worker -> Works] /\ work'[w] = x
              /\ \A v \in Worker : v # w => work'[v] = work[v]
          BY <5>7 DEF TypeOK, Works
        <5>9. \A p \in Order : Len(runs'[p]) \in Nat /\ Len(runs[p]) \in Nat /\ Len(runs'[p]) >= Len(runs[p])
          BY <5>4, <5>5 DEF TypeOK
        <5>10. ASSUME NEW v \in Worker
               PROVE  /\ At(v, "idle")' => work'[v] = IdleWork
                      /\ ~At(v, "idle")' => OrderOf(v)' \in Order
                      /\ work'[v].pc \in {"taken", "read"} => work'[v].row = 0
                      /\ work'[v].pc \in {"inserted", "replying", "ok", "fail"} =>
                           work'[v].row \in 1..Len(runs'[OrderOf(v)'])
          <6>1. CASE v = w
            BY <5>4, <5>5, <5>6, <5>8, <6>1 DEF At, OrderOf
          <6>2. CASE v # w
            BY <5>8, <5>9, <6>2 DEF WorkShape, At, OrderOf
          <6>3. QED
            BY <6>1, <6>2
        <5>11. QED
          BY <3>2, <5>2, <5>5, <5>8, <5>10 DEF WorkShape, TypeOK, Works, Rows, At, OrderOf
      <4>3. QED
        BY <4>1, <4>2
    <3>5. CASE InsertConversation(w)
      <4>1. CASE FailTask(w)
        BY <3>1, <3>2, <3>5, <4>1, FailTaskLeaves, LeavesKeeps DEF InsertConversation, TypeOK, Msg, Works, Rows
      <4>2. CASE Goto(w, "replying") /\ msg' = msg
        <5>1. /\ work' \in [Worker -> Works]
              /\ work'[w] = [work[w] EXCEPT !.pc = "replying"]
              /\ \A v \in Worker : v # w => work'[v] = work[v]
          BY <3>1, <4>2 DEF Goto, TypeOK, Works, PC
        <5>2. WorkShape'
          BY <3>1, <3>5, <5>1 DEF InsertConversation, WorkShape, At, OrderOf, Works
        <5>3. QED
          BY <3>2, <3>5, <4>2, <5>1, <5>2 DEF InsertConversation, TypeOK, Works
      <4>3. QED
        BY <3>5, <4>1, <4>2 DEF InsertConversation
    <3>6. CASE Reply(w)
      <4>1. PICK res \in {"ok", "fail"} : work' = [work EXCEPT ![w].pc = res]
        BY <3>6 DEF Reply, Goto
      <4>2. /\ work' \in [Worker -> Works]
            /\ work'[w] = [work[w] EXCEPT !.pc = res]
            /\ \A v \in Worker : v # w => work'[v] = work[v]
        BY <3>1, <4>1 DEF TypeOK, Works, PC
      <4>3. WorkShape'
        BY <3>1, <3>6, <4>2 DEF Reply, WorkShape, At, OrderOf, Works
      <4>4. QED
        BY <3>2, <3>6, <4>2, <4>3 DEF Reply, TypeOK, Works
    <3>7. CASE RecordRun(w)
      <4>1. /\ runs' \in Rows /\ \A p \in Order : Len(runs'[p]) = Len(runs[p])
        <5>1. PICK o \in Order, i \in 1..Len(runs[OrderOf(w)]), st \in RunStatus :
                o = OrderOf(w) /\ i = work[w].row /\ st = work[w].pc
          BY <3>1, <3>7 DEF RecordRun, WorkShape, RunStatus
        <5>2. runs' = runs \/ runs' = [runs EXCEPT ![o][i] = st]
          BY <3>7, <5>1 DEF RecordRun
        <5>3. [runs EXCEPT ![o][i] = st] \in Rows
              /\ \A p \in Order : Len([runs EXCEPT ![o][i] = st][p]) = Len(runs[p])
          BY <5>1, RunWritten
        <5>4. CASE runs' = runs
          BY <5>4 DEF TypeOK, Rows
        <5>5. QED
          BY <5>2, <5>3, <5>4
      <4>2. Leaves(w, {"queued", "done"})
        BY <3>1, <3>7, AcknowledgeLeaves, FailTaskLeaves DEF RecordRun, Leaves
      <4>3. QED
        BY <3>1, <3>2, <4>1, <4>2, LeavesKeeps DEF TypeOK, Msg, Works, Rows
    <3>8. QED
      BY <2>7, <3>3, <3>4, <3>5, <3>6, <3>7 DEF Task
  <2>8. ASSUME NEW w \in Worker, Crash(w) PROVE TypeOK' /\ WorkShape'
    <3>1. PICK o \in Order, st \in {"held", "done"} : o = OrderOf(w) /\ msg' = [msg EXCEPT ![o].st = st]
      BY <2>8 DEF Crash, WorkShape, At
    <3>2. msg' \in [Order -> Msg]
      <4>1. msg \in [Order -> Msg]
        BY DEF TypeOK, Msg
      <4>2. [msg[o] EXCEPT !.st = st] \in Msg
        BY <4>1 DEF Msg
      <4>3. QED
        BY <3>1, <4>1, <4>2
    <3>3. IdleWork \in Works
      BY DEF IdleWork, Works, PC
    <3>4. /\ work' \in [Worker -> Works]
          /\ work'[w] = IdleWork /\ \A v \in Worker : v # w => work'[v] = work[v]
      BY <2>8, <3>3 DEF Crash, TypeOK, Works
    <3>5. WorkShape'
      BY <2>8, <3>4 DEF Crash, WorkShape, At, OrderOf, IdleWork
    <3>6. conf' \in [Process -> SUBSET Job] /\ losses' \in 0..MaxLosses
      BY <2>8, LossAssumption DEF Crash, Loses, TypeOK, Process
    <3>7. QED
      BY <2>8, <3>2, <3>4, <3>5, <3>6 DEF Crash, TypeOK, Msg, Works
  <2>9. ASSUME NEW o \in Order, Redeliver(o) PROVE TypeOK' /\ WorkShape'
    <3>1. msg' \in [Order -> Msg]
      BY <2>9 DEF Redeliver, TypeOK, Msg
    <3>2. losses' \in 0..MaxLosses
      <4>1. losses' = losses \/ Loses
        BY <2>9 DEF Redeliver
      <4>2. QED
        BY <4>1, LossAssumption DEF Loses, TypeOK
    <3>3. QED
      BY <2>9, <3>1, <3>2 DEF Redeliver, TypeOK, Msg, WorkShape, At, OrderOf
  <2>10. QED
    BY <2>1, <2>2, <2>3, <2>4, <2>5, <2>6, <2>7, <2>8, <2>9 DEF Next
<1>3. QED
  BY <1>1, <1>2, PTL DEF Spec

-----------------------------------------------------------------------------

Worked(o, i) == \E w \in Worker : OrderOf(w) = o /\ work[w].row = i
AllWorked == \A o \in Order : \A i \in DOMAIN runs[o] : runs[o][i] = "running" => Worked(o, i)

\* Two ways to keep every running run worked on: nobody leaves a run, or the one
\* who leaves has none that is running.
LEMMA StayWorked ==
  ASSUME AllWorked,
         \A o \in Order : runs'[o] = runs[o] \/ \A i \in DOMAIN runs'[o] : runs'[o][i] # "running",
         \A v \in Worker : OrderOf(v) \in Order => OrderOf(v)' = OrderOf(v) /\ work'[v].row = work[v].row
  PROVE  AllWorked'
BY DEF AllWorked, Worked

\* A worker that leaves its task may do so if the run it executed no longer says running.
LEMMA LeaveWorked ==
  ASSUME TypeOK, AllWorked, NEW w \in Worker, work' = [work EXCEPT ![w] = IdleWork],
         \A o \in Order : \A i \in DOMAIN runs'[o] :
           runs'[o][i] = "running" =>
             i \in DOMAIN runs[o] /\ runs[o][i] = "running" /\ ~(OrderOf(w) = o /\ work[w].row = i)
  PROVE  AllWorked'
<1>1. \A v \in Worker : v # w => work'[v] = work[v]
  BY DEF TypeOK
<1>2. QED
  BY <1>1 DEF AllWorked, Worked, OrderOf

\* A run that says running is being executed, as long as no worker dies and the
\* database answers (run_scheduled_job): for any number of workers, whatever is
\* deleted, redelivered and retried.
THEOREM RunsAreWorked == Spec => []RunningIsWorked
<1> DEFINE Inv == faults \cap {"crash", "db"} = {} => AllWorked
<1>1. Init => Inv
  BY DEF Init, AllWorked
<1>2. Inv /\ TypeOK /\ WorkShape /\ [Next]_vars => Inv'
  <2> SUFFICES ASSUME Inv, TypeOK, WorkShape, [Next]_vars, faults' \cap {"crash", "db"} = {}
      PROVE AllWorked'
    OBVIOUS
  <2>1. faults' = faults
    BY DEF Next, vars, CreateJob, PatchJob, DeleteJob, Send, SyncScheduler, Take, Task, ReadJob,
       InsertRun, InsertConversation, Reply, RecordRun, Crash, Redeliver
  <2>2. "crash" \notin faults /\ "db" \notin faults /\ AllWorked
    BY <2>1
  <2> HIDE DEF Inv
  <2>3. CASE UNCHANGED vars \/ \E j \in Job : CreateJob(j) \/ PatchJob(j)
    BY <2>2, <2>3, StayWorked DEF vars, CreateJob, PatchJob, OrderOf
  <2>4. ASSUME NEW j \in Job, DeleteJob(j) PROVE AllWorked'
    <3>1. work' = work
      BY <2>4 DEF DeleteJob
    <3>2. \A o \in Order : runs'[o] = runs[o] \/ \A i \in DOMAIN runs'[o] : runs'[o][i] # "running"
      BY <2>4, RunsDeleted
    <3>3. QED
      BY <2>2, <3>1, <3>2, StayWorked DEF OrderOf
  <2>5. CASE (\E j \in Job, o \in Order : Send(j, o)) \/ (\E w \in Worker : SyncScheduler(w))
               \/ (\E o \in Order : Redeliver(o))
    BY <2>2, <2>5, StayWorked DEF Send, SyncScheduler, Redeliver, OrderOf
  <2>6. ASSUME NEW w \in Worker, NEW o \in Order, Take(w, o) PROVE AllWorked'
    <3>1. OrderOf(w) = Nobody
      BY <2>6 DEF Take, WorkShape, OrderOf, IdleWork
    <3>2. runs' = runs /\ \A v \in Worker : v # w => work'[v] = work[v]
      BY <2>6 DEF Take, TypeOK
    <3>3. QED
      BY <2>2, <3>1, <3>2, BeatAssumption, StayWorked DEF OrderOf
  <2>7. ASSUME NEW w \in Worker, Task(w) PROVE AllWorked'
    <3>1. OrderOf(w) \in Order /\ work[w] \in Works
      BY <2>7 DEF Task, ReadJob, InsertRun, InsertConversation, Reply, RecordRun, At, WorkShape, TypeOK, Works
    <3>2. PICK o \in Order : o = OrderOf(w)
      BY <3>1
    <3>3. ASSUME NEW pc, Goto(w, pc), runs' = runs PROVE AllWorked'
      <4>1. work'[w].order = work[w].order /\ work'[w].row = work[w].row
            /\ \A v \in Worker : v # w => work'[v] = work[v]
        BY <3>1, <3>3 DEF Goto, TypeOK, Works
      <4>2. QED
        BY <2>2, <3>3, <4>1, StayWorked DEF OrderOf
    <3>4. \A p \in Order : DOMAIN runs[p] = 1..Len(runs[p]) /\ Len(runs[p]) \in Nat
      BY DEF TypeOK
    <3> DEFINE Leaver == \A p \in Order : \A i \in DOMAIN runs'[p] :
                           runs'[p][i] = "running" =>
                             i \in DOMAIN runs[p] /\ runs[p][i] = "running"
                               /\ ~(OrderOf(w) = p /\ work[w].row = i)
    <3>5. CASE ReadJob(w)
      <4>1. work[w].row = 0 /\ runs' = runs
        BY <3>5 DEF ReadJob, WorkShape, At
      <4>2. CASE Acknowledge(w)
        <5>1. Leaver
          BY <3>4, <4>1
        <5>2. QED
          BY <2>2, <4>2, <5>1, LeaveWorked DEF Acknowledge
      <4>3. QED
        BY <3>3, <3>5, <4>1, <4>2 DEF ReadJob
    <3>6. CASE InsertRun(w)
      <4>1. work[w].row = 0
        BY <3>6 DEF InsertRun, WorkShape, At
      <4>2. CASE FailTask(w) /\ runs' = runs
        <5>1. Leaver
          BY <3>4, <4>1, <4>2
        <5>2. QED
          BY <2>2, <4>2, <5>1, LeaveWorked DEF FailTask
      <4>3. CASE ~(FailTask(w) /\ runs' = runs)
        <5>1. /\ runs' = [runs EXCEPT ![o] = Append(runs[o], "running")]
              /\ work' = [work EXCEPT ![w] = [pc |-> "inserted", order |-> o, row |-> Len(runs[o]) + 1]]
          BY <3>2, <3>6, <4>3 DEF InsertRun
        <5>2. /\ DOMAIN runs'[o] = 1..(Len(runs[o]) + 1)
              /\ \A i \in DOMAIN runs'[o] : i = Len(runs[o]) + 1 \/ (i \in DOMAIN runs[o] /\ runs'[o][i] = runs[o][i])
              /\ \A p \in Order : p # o => runs'[p] = runs[p]
          <6>1. runs[o] \in Seq(RunStatus) /\ "running" \in RunStatus
            BY DEF TypeOK, RunStatus
          <6>2. /\ Append(runs[o], "running") \in Seq(RunStatus)
                /\ Len(Append(runs[o], "running")) = Len(runs[o]) + 1
                /\ \A i \in 1..Len(runs[o]) : Append(runs[o], "running")[i] = runs[o][i]
            BY <6>1
          <6>3. runs'[o] = Append(runs[o], "running") /\ \A p \in Order : p # o => runs'[p] = runs[p]
            BY <5>1 DEF TypeOK
          <6>4. QED
            BY <3>4, <6>2, <6>3
        <5>3. /\ work'[w].order = o /\ work'[w].row = Len(runs[o]) + 1
              /\ \A v \in Worker : v # w => work'[v] = work[v]
          BY <5>1 DEF TypeOK
        <5>4. ASSUME NEW p \in Order, NEW i \in DOMAIN runs'[p], runs'[p][i] = "running"
              PROVE  Worked(p, i)'
          <6>1. CASE p = o /\ i = Len(runs[o]) + 1
            BY <5>3, <6>1 DEF Worked, OrderOf
          <6>2. CASE ~(p = o /\ i = Len(runs[o]) + 1)
            <7>1. i \in DOMAIN runs[p] /\ runs[p][i] = "running"
              BY <5>2, <5>4, <6>2
            <7>2. PICK v \in Worker : OrderOf(v) = p /\ work[v].row = i
              BY <2>2, <7>1 DEF AllWorked, Worked
            <7>3. v # w
              BY <3>4, <4>1, <7>1, <7>2
            <7>4. QED
              BY <5>3, <7>2, <7>3 DEF Worked, OrderOf
          <6>3. QED
            BY <6>1, <6>2
        <5>5. QED
          BY <5>4 DEF AllWorked
      <4>4. QED
        BY <4>2, <4>3
    <3>7. CASE InsertConversation(w)
      <4>1. CASE FailTask(w) /\ Row(w) = "deleted"
        BY <2>2, <3>7, <4>1, LeaveWorked DEF FailTask, InsertConversation, Row
      <4>2. QED
        BY <2>2, <3>3, <3>7, <4>1 DEF InsertConversation
    <3>8. CASE Reply(w)
      BY <3>3, <3>8 DEF Reply
    <3>9. CASE RecordRun(w)
      <4>1. work' = [work EXCEPT ![w] = IdleWork]
        BY <3>9 DEF RecordRun, FailTask, Acknowledge
      <4>2. CASE runs' = runs /\ Row(w) = "deleted"
        BY <2>2, <4>1, <4>2, LeaveWorked DEF Row
      <4>3. CASE runs' = [runs EXCEPT ![o][work[w].row] = work[w].pc]
        <5>1. PICK i \in 1..Len(runs[o]), st \in {"ok", "fail"} : i = work[w].row /\ st = work[w].pc
          BY <3>2, <3>9 DEF RecordRun, WorkShape
        <5>2. runs' = [runs EXCEPT ![o] = [runs[o] EXCEPT ![i] = st]]
          BY <4>3, <5>1
        <5>3. /\ runs'[o] = [runs[o] EXCEPT ![i] = st]
              /\ \A p \in Order : p # o => runs'[p] = runs[p]
          BY <5>2 DEF TypeOK
        <5>4. runs[o] \in Seq(RunStatus)
          BY DEF TypeOK
        <5>5. DOMAIN runs'[o] = DOMAIN runs[o] /\ \A k \in DOMAIN runs[o] : runs'[o][k] = IF k = i THEN st ELSE runs[o][k]
          BY <5>3, <5>4
        <5>6. Leaver
          BY <3>2, <5>1, <5>3, <5>5
        <5>7. QED
          BY <2>2, <4>1, <5>6, LeaveWorked
      <4>4. QED
        BY <2>2, <3>2, <3>9, <4>2, <4>3 DEF RecordRun
    <3>10. QED
      BY <2>7, <3>5, <3>6, <3>7, <3>8, <3>9 DEF Task
  <2>8. ASSUME NEW w \in Worker, Crash(w) PROVE FALSE
    BY <2>2, <2>8 DEF Crash
  <2>9. QED
    BY <2>3, <2>4, <2>5, <2>6, <2>7, <2>8 DEF Next
<1>3. Inv => RunningIsWorked
  BY DEF RunningIsWorked, AllWorked, Worked
<1>4. QED
  BY <1>1, <1>2, <1>3, JobTypes, PTL DEF Spec

-----------------------------------------------------------------------------

\* Without losses an order is executed by one worker at a time, which holds its
\* message, and its message is done when one of its runs has ended.
HasEnded(o) == \E i \in DOMAIN runs[o] : runs[o][i] \in {"ok", "fail"}
NoLoss == "crash" \notin faults /\ "slow" \notin faults
Held ==
  /\ \A w \in Worker : ~At(w, "idle") => msg[OrderOf(w)].st = "held"
  /\ \A v, w \in Worker : (~At(v, "idle") /\ OrderOf(v) = OrderOf(w)) => v = w
  /\ \A o \in Order : HasEnded(o) => msg[o].st = "done"

\* A worker that leaves its task keeps the messages of the others, if it leaves none
\* open for an order whose run has ended.
LEMMA LeaveHeld ==
  ASSUME TypeOK, WorkShape, Held, NEW w \in Worker, NEW o \in Order, o = OrderOf(w),
         NEW sts, Leaves(w, sts),
         \A p \in Order : HasEnded(p)' => HasEnded(p) \/ (p = o /\ sts = {"done"}),
         ~At(w, "idle")
  PROVE  Held'
<1>1. /\ work'[w] = IdleWork /\ \A v \in Worker : v # w => work'[v] = work[v]
  BY DEF Leaves, TypeOK
<1>2. PICK m \in Msg : m.st \in sts /\ msg' = [msg EXCEPT ![o] = m]
  BY DEF Leaves
<1>3. msg'[o].st \in sts /\ \A p \in Order : p # o => msg'[p] = msg[p]
  BY <1>2 DEF TypeOK
<1>4. \A v \in Worker : ~At(v, "idle")' =>
        v # w /\ ~At(v, "idle") /\ OrderOf(v)' = OrderOf(v) /\ OrderOf(v) \in Order /\ OrderOf(v) # o
  BY <1>1 DEF Held, At, OrderOf, IdleWork, WorkShape
<1>5. \A v \in Worker : ~At(v, "idle")' => msg'[OrderOf(v)'].st = "held"
  BY <1>3, <1>4 DEF Held
<1>6. \A v, x \in Worker : (~At(v, "idle")' /\ OrderOf(v)' = OrderOf(x)') => v = x
  <2>1. OrderOf(w)' = Nobody
    BY <1>1 DEF OrderOf, IdleWork
  <2>2. \A x \in Worker : x # w => OrderOf(x)' = OrderOf(x)
    BY <1>1 DEF OrderOf
  <2>3. QED
    BY <1>4, <2>1, <2>2, BeatAssumption DEF Held
<1>7. ~HasEnded(o)
  BY DEF Held
<1>8. \A p \in Order : HasEnded(p)' => msg'[p].st = "done"
  BY <1>3, <1>7 DEF Held
<1>9. QED
  BY <1>5, <1>6, <1>8 DEF Held

\* A worker that goes on keeps its order and its message.
LEMMA GoHeld ==
  ASSUME TypeOK, WorkShape, Held, NEW w \in Worker, ~At(w, "idle"), msg' = msg,
         OrderOf(w)' = OrderOf(w), \A v \in Worker : v # w => work'[v] = work[v],
         \A p \in Order : HasEnded(p)' => HasEnded(p)
  PROVE  Held'
BY DEF Held, At, OrderOf

\* As long as no message is delivered twice, no step of a retry makes a new run for
\* an order whose run has ended (autoretry_for of run_scheduled_job), for any number
\* of jobs, orders and workers, with a database that fails at any commit.
THEOREM EndedRunsStay == Spec => RetriesRepeatNothing
<1> DEFINE Inv == NoLoss => Held
<1>1. Init => Inv
  BY DEF Init, Held, HasEnded, At, IdleWork
<1>2. Inv /\ TypeOK /\ WorkShape /\ [Next]_vars => Inv'
  <2> SUFFICES ASSUME Inv, TypeOK, WorkShape, [Next]_vars, NoLoss' PROVE Held'
    OBVIOUS
  <2>1. faults' = faults
    BY DEF Next, vars, CreateJob, PatchJob, DeleteJob, Send, SyncScheduler, Take, Task, ReadJob,
       InsertRun, InsertConversation, Reply, RecordRun, Crash, Redeliver
  <2>2. NoLoss /\ Held
    BY <2>1 DEF NoLoss
  <2> HIDE DEF Inv
  <2>3. CASE UNCHANGED <<runs, msg, work>>
    BY <2>2, <2>3 DEF Held, HasEnded, At, OrderOf
  <2>4. ASSUME NEW j \in Job, DeleteJob(j) PROVE Held'
    <3>1. work' = work /\ msg' = msg
      BY <2>4 DEF DeleteJob
    <3>2. \A o \in Order : HasEnded(o)' => HasEnded(o)
      BY <2>4, RunsDeleted DEF HasEnded
    <3>3. QED
      BY <2>2, <3>1, <3>2 DEF Held, At, OrderOf
  <2>5. ASSUME NEW j \in Job, NEW o \in Order, Send(j, o) PROVE Held'
    <3>1. /\ work' = work /\ runs' = runs /\ msg[o].st = "none"
          /\ \A p \in Order : p # o => msg'[p] = msg[p]
      BY <2>5 DEF Send, TypeOK
    <3>2. ~HasEnded(o) /\ \A w \in Worker : ~At(w, "idle") => OrderOf(w) # o /\ OrderOf(w) \in Order
      BY <2>2, <3>1 DEF Held, WorkShape
    <3>3. QED
      BY <2>2, <3>1, <3>2 DEF Held, HasEnded, At, OrderOf
  <2>6. ASSUME NEW w \in Worker, NEW o \in Order, Take(w, o) PROVE Held'
    <3>1. /\ At(w, "idle") /\ runs' = runs /\ msg[o].st = "queued" /\ msg'[o].st = "held"
          /\ \A p \in Order : p # o => msg'[p] = msg[p]
          /\ work'[w].order = o /\ \A v \in Worker : v # w => work'[v] = work[v]
      BY <2>6 DEF Take, TypeOK
    <3>2. ~HasEnded(o) /\ \A v \in Worker : ~At(v, "idle") => OrderOf(v) # o /\ OrderOf(v) \in Order
      BY <2>2, <3>1 DEF Held, WorkShape
    <3>3. \A v \in Worker : At(v, "idle") => OrderOf(v) = Nobody
      BY DEF WorkShape, OrderOf, IdleWork
    <3>4. \A v \in Worker : ~At(v, "idle")' => msg'[OrderOf(v)'].st = "held"
      BY <2>2, <3>1, <3>2 DEF Held, At, OrderOf
    <3>5. \A v, x \in Worker : (~At(v, "idle")' /\ OrderOf(v)' = OrderOf(x)') => v = x
      BY <2>2, <3>1, <3>2, <3>3, BeatAssumption DEF Held, At, OrderOf
    <3>6. \A p \in Order : HasEnded(p)' => msg'[p].st = "done"
      BY <2>2, <3>1, <3>2 DEF Held, HasEnded
    <3>7. QED
      BY <3>4, <3>5, <3>6 DEF Held
  <2>7. ASSUME NEW w \in Worker, Task(w) PROVE Held'
    <3>1. OrderOf(w) \in Order /\ work[w] \in Works /\ ~At(w, "idle")
      BY <2>7 DEF Task, ReadJob, InsertRun, InsertConversation, Reply, RecordRun, At, WorkShape, TypeOK, Works
    <3>2. PICK o \in Order : o = OrderOf(w)
      BY <3>1
    <3>3. ASSUME NEW pc, Goto(w, pc), runs' = runs, msg' = msg PROVE Held'
      <4>1. OrderOf(w)' = OrderOf(w) /\ \A v \in Worker : v # w => work'[v] = work[v]
        BY <3>1, <3>3 DEF Goto, TypeOK, Works, OrderOf
      <4>2. \A p \in Order : HasEnded(p)' => HasEnded(p)
        BY <3>3 DEF HasEnded
      <4>3. QED
        BY <2>2, <3>1, <3>3, <4>1, <4>2, GoHeld
    <3>4. ASSUME NEW sts, Leaves(w, sts), runs' = runs PROVE Held'
      <4>1. \A p \in Order : HasEnded(p)' => HasEnded(p)
        BY <3>4 DEF HasEnded
      <4>2. QED
        BY <2>2, <3>1, <3>2, <3>4, <4>1, LeaveHeld
    <3>5. CASE ReadJob(w)
      BY <3>1, <3>3, <3>4, <3>5, AcknowledgeLeaves DEF ReadJob
    <3>6. CASE InsertRun(w)
      <4>1. CASE FailTask(w) /\ runs' = runs
        BY <3>1, <3>4, <4>1, FailTaskLeaves
      <4>2. CASE ~(FailTask(w) /\ runs' = runs)
        <5>1. /\ runs' = [runs EXCEPT ![o] = Append(runs[o], "running")] /\ msg' = msg
              /\ work' = [work EXCEPT ![w] = [pc |-> "inserted", order |-> o, row |-> Len(runs[o]) + 1]]
          BY <3>2, <3>6, <4>2 DEF InsertRun
        <5>2. OrderOf(w)' = OrderOf(w) /\ \A v \in Worker : v # w => work'[v] = work[v]
          BY <3>2, <5>1 DEF TypeOK, OrderOf
        <5>3. HasEnded(o)' => HasEnded(o)
          <6>1. runs[o] \in Seq(RunStatus) /\ "running" \in RunStatus
            BY DEF TypeOK, RunStatus
          <6>2. runs'[o] = Append(runs[o], "running")
            BY <5>1 DEF TypeOK
          <6>3. \A i \in DOMAIN runs'[o] : runs'[o][i] = "running" \/ (i \in DOMAIN runs[o] /\ runs'[o][i] = runs[o][i])
            BY <6>1, <6>2
          <6>4. QED
            BY <6>3 DEF HasEnded
        <5>4. \A p \in Order : HasEnded(p)' => HasEnded(p)
          BY <5>1, <5>3 DEF HasEnded, TypeOK
        <5>5. QED
          BY <2>2, <3>1, <5>1, <5>2, <5>4, GoHeld
      <4>3. QED
        BY <4>1, <4>2
    <3>7. CASE InsertConversation(w)
      BY <3>1, <3>3, <3>4, <3>7, FailTaskLeaves DEF InsertConversation
    <3>8. CASE Reply(w)
      BY <3>3, <3>8 DEF Reply
    <3>9. CASE RecordRun(w)
      <4>1. CASE FailTask(w) /\ runs' = runs
        BY <3>1, <3>4, <4>1, FailTaskLeaves
      <4>2. CASE Acknowledge(w) /\ \A p \in Order : p # o => runs'[p] = runs[p]
        <5>1. Leaves(w, {"done"})
          BY <3>1, <4>2, AcknowledgeLeaves
        <5>2. \A p \in Order : HasEnded(p)' => HasEnded(p) \/ p = o
          BY <4>2 DEF HasEnded
        <5>3. QED
          BY <2>2, <3>1, <3>2, <5>1, <5>2, LeaveHeld
      <4>3. QED
        BY <3>2, <3>9, <4>1, <4>2 DEF RecordRun, TypeOK
    <3>10. QED
      BY <2>7, <3>5, <3>6, <3>7, <3>8, <3>9 DEF Task
  <2>8. ASSUME NEW o \in Order, Redeliver(o) PROVE Held'
    <3>1. /\ work' = work /\ runs' = runs /\ msg[o].st = "held"
          /\ \A w \in Worker : OrderOf(w) # o
          /\ \A p \in Order : p # o => msg'[p] = msg[p]
      BY <2>2, <2>8 DEF Redeliver, NoLoss, TypeOK
    <3>2. ~HasEnded(o)
      BY <2>2, <3>1 DEF Held
    <3>3. \A w \in Worker : ~At(w, "idle") => OrderOf(w) \in Order
      BY DEF WorkShape
    <3>4. QED
      BY <2>2, <3>1, <3>2, <3>3 DEF Held, HasEnded, At, OrderOf
  <2>9. ASSUME NEW w \in Worker, Crash(w) PROVE FALSE
    BY <2>2, <2>9 DEF Crash, NoLoss
  <2>10. QED
    BY <2>3, <2>4, <2>5, <2>6, <2>7, <2>8, <2>9
    DEF Next, vars, CreateJob, PatchJob, SyncScheduler
<1> DEFINE Step == \A o \in Order :
       (faults \cap {"crash", "slow"} = {} /\ \E i \in DOMAIN runs[o] : runs[o][i] \in {"ok", "fail"})
         => Len(runs'[o]) = Len(runs[o])
<1>3. Inv /\ TypeOK /\ WorkShape /\ [Next]_vars => [Step]_vars
  <2> SUFFICES ASSUME Inv, TypeOK, WorkShape, Next, NEW o \in Order,
                      faults \cap {"crash", "slow"} = {}, HasEnded(o)
               PROVE  Len(runs'[o]) = Len(runs[o])
    BY DEF HasEnded
  <2>1. Held
    BY DEF NoLoss
  <2>2. msg[o].st = "done"
    BY <2>1 DEF Held
  <2>3. ASSUME NEW w \in Worker, InsertRun(w) PROVE Len(runs'[o]) = Len(runs[o])
    <3>1. OrderOf(w) # o
      BY <2>1, <2>2, <2>3 DEF Held, InsertRun, At
    <3>2. QED
      BY <2>3, <3>1 DEF InsertRun, TypeOK
  <2>4. ASSUME NEW w \in Worker, RecordRun(w) PROVE Len(runs'[o]) = Len(runs[o])
    <3>1. OrderOf(w) # o
      BY <2>1, <2>2, <2>4 DEF Held, RecordRun, At
    <3>2. QED
      BY <2>4, <3>1 DEF RecordRun, TypeOK
  <2>5. ASSUME NEW j \in Job, DeleteJob(j) PROVE Len(runs'[o]) = Len(runs[o])
    BY <2>5, RunsDeleted
  <2>6. CASE runs' = runs
    BY <2>6
  <2>7. QED
    BY <2>3, <2>4, <2>5, <2>6
    DEF Next, CreateJob, PatchJob, Send, SyncScheduler, Take, Task, ReadJob, InsertConversation, Reply,
        Crash, Redeliver
<1>4. QED
  BY <1>1, <1>2, <1>3, JobTypes, PTL DEF Spec, RetriesRepeatNothing

=============================================================================
