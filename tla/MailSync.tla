------------------------------ MODULE MailSync ------------------------------
(***************************************************************************)
(* The synchronisation of the mail accounts: the Celery task and its lock  *)
(* in Redis (workers/tasks.py), sync_account (mail/sync.py) and what it    *)
(* does to the IMAP mailbox (mail/imap_client.py).                         *)
(*                                                                         *)
(* A cycle is one run of the task in a worker process, with a database     *)
(* session of its own: the accounts it works on are the copies it read at  *)
(* its start, and what it inserts is seen by the others at its commit.     *)
(* An insert of a mail waits for another transaction that has inserted     *)
(* the same mail (the unique constraint of mail_messages).                 *)
(***************************************************************************)
EXTENDS Naturals, FiniteSets, FiniteSetsExt

CONSTANTS
  Account,
  Cycle,      \* slots for runs of the task; beat starts one in an idle slot
  MaxUid,     \* bound: mails that arrive in a mailbox
  Limit,      \* limit of fetch_new
  MaxCrash,   \* bound: worker processes that die
  NoAccount,
  SyncFaults  \* what may happen besides

AllSyncFaults == {"slow", "imap", "unreadable", "move", "admin"}
ASSUME SyncBoundAssumption == MaxUid \in Nat /\ Limit \in Nat \ {0} /\ MaxCrash \in Nat
ASSUME NoAccountAssumption == NoAccount \notin Account
ASSUME SyncFaultAssumption == SyncFaults \subseteq AllSyncFaults

VARIABLES
  mailbox,  \* the IMAP server: the last UID given, INBOX and the spam folder
  account,  \* the rows of mail_accounts
  row,      \* the rows of mail_messages: none, plain, reply or trash
  drafts,   \* how many drafts each mail has
  cycle,    \* the cycles
  lock,     \* is lock:mail_sync set?
  crashes

syncVars == <<mailbox, account, row, drafts, cycle, lock, crashes>>

Uid == 1..MaxUid
Verdicts == {"plain", "reply", "trash"}
CyclePC == {"idle", "reading", "cycle", "mail", "insert", "move", "commit", "leaving"}
NoMail == [u \in Uid |-> "none"]
IdleCycle == [pc |-> "idle", todo |-> {}, seen |-> [a \in Account |-> 0], acc |-> NoAccount,
              left |-> {}, max |-> 0, verdict |-> "plain", pend |-> NoMail]

SyncTypeOK ==
  /\ mailbox \in [Account -> [next : 0..MaxUid, inbox : SUBSET Uid, spam : SUBSET Uid]]
  /\ account \in [Account -> [there : BOOLEAN, enabled : BOOLEAN, last : 0..MaxUid]]
  /\ row \in [Account -> [Uid -> Verdicts \cup {"none"}]]
  /\ drafts \in [Account -> [Uid -> Nat]]
  /\ cycle \in [Cycle -> [pc : CyclePC, todo : SUBSET Account, seen : [Account -> 0..MaxUid],
                          acc : Account \cup {NoAccount}, left : SUBSET Uid, max : 0..MaxUid,
                          verdict : Verdicts, pend : [Uid -> Verdicts \cup {"none"}]]]
  /\ lock \in BOOLEAN
  /\ crashes \in 0..MaxCrash

SyncInit ==
  /\ mailbox = [a \in Account |-> [next |-> 0, inbox |-> {}, spam |-> {}]]
  /\ account = [a \in Account |-> [there |-> TRUE, enabled |-> TRUE, last |-> 0]]
  /\ row = [a \in Account |-> NoMail]
  /\ drafts = [a \in Account |-> [u \in Uid |-> 0]]
  /\ cycle = [c \in Cycle |-> IdleCycle]
  /\ lock = FALSE
  /\ crashes = 0

-----------------------------------------------------------------------------

CycleAt(c, pc) == cycle[c].pc = pc
Becomes(c, r) == cycle' = [cycle EXCEPT ![c] = r]
CycleGoto(c, pc) == Becomes(c, [cycle[c] EXCEPT !.pc = pc])

\* The session is broken by a failed flush, and the loop over the accounts with it.
LeaveLoop(c) == Becomes(c, [IdleCycle EXCEPT !.pc = "leaving"])

\* The transactions that hold an uncommitted row of this mail, or of this account.
Pending(a, u) == {c \in Cycle : cycle[c].acc = a /\ cycle[c].pend[u] # "none"}
Touching(a) == {c \in Cycle : \E u \in Uid : c \in Pending(a, u)}

\* SET NX; a cycle that does not get the lock still runs its "finally".
Start(c) ==
  /\ CycleAt(c, "idle")
  /\ CycleGoto(c, IF lock THEN "leaving" ELSE "reading")
  /\ lock' = TRUE
  /\ UNCHANGED <<mailbox, account, row, drafts, crashes>>

\* The rows of this select are the copies of the whole cycle.
ReadAccounts(c) ==
  /\ CycleAt(c, "reading")
  /\ Becomes(c, [cycle[c] EXCEPT !.pc = "cycle",
                 !.todo = {a \in Account : account[a].there /\ account[a].enabled},
                 !.seen = [a \in Account |-> account[a].last]])
  /\ UNCHANGED <<mailbox, account, row, drafts, lock, crashes>>

\* The first UIDs above the one that was seen, in ascending order.
NewUids(c, a) ==
  LET new == {u \in mailbox[a].inbox : u > cycle[c].seen[a]}
  IN  {u \in new : Cardinality({v \in new : v <= u}) <= Limit}

\* Mutant: the highest UID of the mailbox is remembered, whatever was fetched.
MutFetch(c) ==
  /\ CycleAt(c, "cycle")
  /\ \E a \in cycle[c].todo :
       Becomes(c, [cycle[c] EXCEPT !.pc = "mail", !.todo = @ \ {a}, !.acc = a,
                   !.left = NewUids(c, a),
                   !.max = Max(mailbox[a].inbox \cup {cycle[c].seen[a]})])
  /\ UNCHANGED <<mailbox, account, row, drafts, lock, crashes>>

\* The IMAP server does not answer: the error is stored, and the next account is tried.
FetchFails(c) ==
  /\ "imap" \in SyncFaults /\ CycleAt(c, "cycle")
  /\ \E a \in cycle[c].todo :
       account[a].there /\ Becomes(c, [cycle[c] EXCEPT !.todo = @ \ {a}])
  /\ UNCHANGED <<mailbox, account, row, drafts, lock, crashes>>

\* The password and fetch_new.  Without its account the error cannot be stored; a
\* UID the server does not return is passed over.
Fetch(c) ==
  /\ CycleAt(c, "cycle")
  /\ \E a \in cycle[c].todo :
       \/ ~account[a].there /\ LeaveLoop(c)
       \/ \E read \in SUBSET NewUids(c, a) :
            /\ account[a].there
            /\ read = NewUids(c, a) \/ "unreadable" \in SyncFaults
            /\ Becomes(c, [cycle[c] EXCEPT !.pc = "mail", !.todo = @ \ {a}, !.acc = a,
                           !.left = read, !.max = Max(read \cup {cycle[c].seen[a]})])
  /\ UNCHANGED <<mailbox, account, row, drafts, lock, crashes>>

\* The next mail: already there, or classified by the model, or the last was done.
Classify(c) ==
  LET a == cycle[c].acc
      u == Min(cycle[c].left)
  IN  /\ CycleAt(c, "mail")
      /\ \/ cycle[c].left = {} /\ CycleGoto(c, "move")
         \/ /\ cycle[c].left # {} /\ row[a][u] # "none"
            /\ Becomes(c, [cycle[c] EXCEPT !.left = @ \ {u}])
         \/ /\ cycle[c].left # {} /\ row[a][u] = "none"
            /\ \E v \in Verdicts :
                 Becomes(c, [cycle[c] EXCEPT !.pc = "insert", !.verdict = v])
      /\ UNCHANGED <<mailbox, account, row, drafts, lock, crashes>>

\* Mutant: no unique constraint, the select is trusted.
MutInsertMail(c) ==
  LET a == cycle[c].acc
      u == Min(cycle[c].left)
  IN  /\ CycleAt(c, "insert")
      /\ Becomes(c, [cycle[c] EXCEPT !.pc = "mail", !.left = @ \ {u},
                     !.pend[u] = cycle[c].verdict, !.verdict = "plain"])
      /\ UNCHANGED <<mailbox, account, row, drafts, lock, crashes>>

\* The flush, then the draft of a reply.
InsertMail(c) ==
  LET a == cycle[c].acc
      u == Min(cycle[c].left)
  IN  /\ CycleAt(c, "insert")
      /\ Pending(a, u) = {}
      /\ \/ (row[a][u] # "none" \/ ~account[a].there) /\ LeaveLoop(c)
         \/ /\ row[a][u] = "none" /\ account[a].there
            /\ Becomes(c, [cycle[c] EXCEPT !.pc = "mail", !.left = @ \ {u},
                           !.pend[u] = cycle[c].verdict, !.verdict = "plain"])
      /\ UNCHANGED <<mailbox, account, row, drafts, lock, crashes>>

\* move_messages: UID MOVE, or a copy whose original may stay; errors are logged.
Move(c) ==
  LET a == cycle[c].acc
      moves == {u \in Uid : cycle[c].pend[u] = "trash"}
  IN  /\ CycleAt(c, "move")
      /\ \E to \in SUBSET moves : \E from \in SUBSET to :
           /\ from = moves \/ "move" \in SyncFaults
           /\ mailbox' = [mailbox EXCEPT ![a].inbox = @ \ from, ![a].spam = @ \cup to]
      /\ CycleGoto(c, "commit")
      /\ UNCHANGED <<account, row, drafts, lock, crashes>>

\* One commit for the account: the mails, the drafts and, if it changed, last_uid.
Commit(c) ==
  LET a == cycle[c].acc IN
  /\ CycleAt(c, "commit")
  /\ \/ ~account[a].there /\ LeaveLoop(c) /\ UNCHANGED <<row, drafts, account>>
     \/ /\ account[a].there
        /\ row' = [row EXCEPT ![a] = [u \in Uid |->
             IF cycle[c].pend[u] = "none" THEN @[u] ELSE cycle[c].pend[u]]]
        /\ drafts' = [drafts EXCEPT ![a] = [u \in Uid |->
             IF cycle[c].pend[u] = "reply" THEN @[u] + 1 ELSE @[u]]]
        /\ account' = IF cycle[c].max = cycle[c].seen[a] THEN account
                      ELSE [account EXCEPT ![a] = [account[a] EXCEPT !.last = cycle[c].max]]
        /\ Becomes(c, [IdleCycle EXCEPT !.pc = "cycle", !.todo = cycle[c].todo,
                                                           !.seen = cycle[c].seen])
  /\ UNCHANGED <<mailbox, lock, crashes>>

EndCycle(c) ==
  /\ CycleAt(c, "cycle") /\ cycle[c].todo = {}
  /\ LeaveLoop(c)
  /\ UNCHANGED <<mailbox, account, row, drafts, lock, crashes>>

\* The "finally" deletes the lock, whoever set it.
Leave(c) ==
  /\ CycleAt(c, "leaving")
  /\ Becomes(c, IdleCycle)
  /\ lock' = FALSE
  /\ UNCHANGED <<mailbox, account, row, drafts, crashes>>

\* The process of a cycle dies, and the database rolls its transaction back.
CrashCycle(c) ==
  /\ ~CycleAt(c, "idle") /\ crashes < MaxCrash
  /\ Becomes(c, IdleCycle)
  /\ crashes' = crashes + 1
  /\ UNCHANGED <<mailbox, account, row, drafts, lock>>

\* Ten minutes: after a crash, or under a cycle that takes longer.
LockExpires ==
  /\ lock
  /\ "slow" \in SyncFaults \/ \A c \in Cycle : CycleAt(c, "idle")
  /\ lock' = FALSE
  /\ UNCHANGED <<mailbox, account, row, drafts, cycle, crashes>>

(* The world: mails arrive, accounts are disabled, enabled and deleted *)

Arrive(a) ==
  /\ mailbox[a].next < MaxUid
  /\ mailbox' = [mailbox EXCEPT ![a].next = @ + 1, ![a].inbox = @ \cup {mailbox[a].next + 1}]
  /\ UNCHANGED <<account, row, drafts, cycle, lock, crashes>>

PatchAccount(a) ==
  /\ "admin" \in SyncFaults /\ account[a].there
  /\ account' = [account EXCEPT ![a] = [account[a] EXCEPT !.enabled = ~account[a].enabled]]
  /\ UNCHANGED <<mailbox, row, drafts, cycle, lock, crashes>>

\* It waits for the transactions that have inserted rows that refer to it.
DeleteAccount(a) ==
  /\ "admin" \in SyncFaults /\ account[a].there /\ Touching(a) = {}
  /\ account' = [account EXCEPT ![a] = [account[a] EXCEPT !.there = FALSE]]
  /\ row' = [row EXCEPT ![a] = NoMail]
  /\ drafts' = [drafts EXCEPT ![a] = [u \in Uid |-> 0]]
  /\ UNCHANGED <<mailbox, cycle, lock, crashes>>

-----------------------------------------------------------------------------

CycleStep(c) ==
  \/ ReadAccounts(c) \/ FetchFails(c) \/ Fetch(c) \/ Classify(c) \/ InsertMail(c) \/ Move(c) \/ Commit(c)
  \/ EndCycle(c) \/ Leave(c)

SyncNext ==
  \/ \E c \in Cycle : Start(c) \/ CycleStep(c) \/ CrashCycle(c)
  \/ LockExpires
  \/ \E a \in Account : Arrive(a) \/ PatchAccount(a) \/ DeleteAccount(a)

SyncSpec == SyncInit /\ [][SyncNext]_syncVars

\* Beat starts a cycle every few minutes, its steps end (IMAP and the models have
\* timeouts), Redis forgets the lock and an IMAP server that is asked again and again
\* answers; mails, crashes and administrators are not fair.
SyncFairSpec ==
  /\ SyncSpec
  /\ \A c \in Cycle : WF_syncVars(Start(c) \/ CycleStep(c)) /\ SF_syncVars(Fetch(c))
  /\ WF_syncVars(LockExpires)

-----------------------------------------------------------------------------

\* A mail below last_uid that is still in the inbox has its row: no cycle that
\* overlaps, dies or loses its account makes a later one start behind a mail that
\* nobody recorded.
PassedIsRecorded ==
  \A a \in Account : \A u \in mailbox[a].inbox :
    (account[a].there /\ u <= account[a].last) => row[a][u] # "none"

\* However many cycles meet the same mail, its sender gets at most one automatic
\* draft, and only one a row stands for.
OneDraft ==
  \A a \in Account : \A u \in Uid : drafts[a][u] <= IF row[a][u] = "reply" THEN 1 ELSE 0

\* As long as no process dies, what was moved to the spam folder is recorded as
\* such, or is about to be by the cycle that moved it.
MovedIsRecorded ==
  crashes = 0 =>
    \A a \in Account : \A u \in mailbox[a].spam :
      account[a].there =>
        (row[a][u] = "trash" \/ \E c \in Pending(a, u) : CycleAt(c, "commit") /\ cycle[c].pend[u] = "trash")

(***************************************************************************)
(* No mail gets lost on its way to a row: neither behind last_uid, nor in  *)
(* the spam folder (sync_account in mail/sync.py).                         *)
(***************************************************************************)
MailsAreKept == PassedIsRecorded /\ MovedIsRecorded

\* Time and again an account that is enabled has no mail in its inbox without a row:
\* the mails that came are recorded sooner or later, whatever cycles overlap, wait
\* for each other, fail or die.
MailIsRecorded ==
  \A a \in Account : []<>(
    account[a].there /\ account[a].enabled =>
      \A u \in mailbox[a].inbox : row[a][u] # "none")

=============================================================================
