----------------------------- MODULE MailDrafts -----------------------------
(***************************************************************************)
(* The drafts of mails and what users do with them (api/mail.py): send,    *)
(* edit, reject.  A request reads the row of its draft once; it writes     *)
(* back, at its commit, the attributes it has changed, after the exchange  *)
(* with the SMTP server for a send.                                        *)
(***************************************************************************)
EXTENDS Naturals, Sequences

CONSTANTS
  Draft,
  Request,   \* slots for requests of the user: clicks, tabs, retries
  Body,      \* texts of a draft
  MaxMails,  \* bound: mails sent for a draft
  NoDraft,
  DraftFaultSets  \* what may happen besides, for several kinds of behaviours

AllDraftFaults == {"overlap", "lost answer", "restart"}
ASSUME DraftBoundAssumption == MaxMails \in Nat
ASSUME DraftFaultAssumption == DraftFaultSets \subseteq SUBSET AllDraftFaults

VARIABLES
  draft,   \* the rows
  mails,   \* the bodies that the SMTP server accepted for each draft, in order
  request, \* the requests
  draftFaults \* what may happen in this behaviour, which never changes

draftVars == <<draft, mails, request, draftFaults>>

Statuses == {"pending", "sent", "failed"}
RequestPC == {"idle", "smtp", "sent", "failed", "patch", "reject"}
IdleRequest(b) == [pc |-> "idle", draft |-> NoDraft, body |-> b, loaded |-> "pending"]
LastOf(s) == s[Len(s)]

DraftTypeOK ==
  /\ draft \in [Draft -> [there : BOOLEAN, status : Statuses, body : Body]]
  /\ mails \in [Draft -> Seq(Body)]
  /\ request \in [Request -> [pc : RequestPC, draft : Draft \cup {NoDraft}, body : Body,
                              loaded : Statuses]]
  /\ draftFaults \in DraftFaultSets

DraftInit ==
  /\ draftFaults \in DraftFaultSets
  /\ \E b \in Body :
       /\ draft = [d \in Draft |-> [there |-> TRUE, status |-> "pending", body |-> b]]
       /\ mails = [d \in Draft |-> <<>>]
       /\ request = [r \in Request |-> IdleRequest(b)]

-----------------------------------------------------------------------------

RequestAt(r, pc) == request[r].pc = pc
Begin(r, pc, d, b) ==
  /\ RequestAt(r, "idle") /\ draft[d].there
  /\ "overlap" \in draftFaults \/ \A q \in Request : RequestAt(q, "idle")
  /\ request' = [request EXCEPT ![r] = [pc |-> pc, draft |-> d, body |-> b,
                                        loaded |-> draft[d].status]]
  /\ UNCHANGED <<draft, mails, draftFaults>>
End(r) == request' = [request EXCEPT ![r] = IdleRequest(request[r].body)]

\* Mutant: no look at the status.
MutSendDraft(r, d) == Begin(r, "smtp", d, draft[d].body)

\* The body that is sent is the one read here.
SendDraft(r, d) ==
  /\ draft[d].status # "sent"
  /\ Begin(r, "smtp", d, draft[d].body)

\* send_email: accepted, refused, or accepted and the answer lost.
Smtp(r) ==
  LET d == request[r].draft IN
  /\ RequestAt(r, "smtp")
  /\ \/ /\ Len(mails[d]) < MaxMails
        /\ mails' = [mails EXCEPT ![d] = Append(@, request[r].body)]
        /\ \/ request' = [request EXCEPT ![r].pc = "sent"]
           \/ "lost answer" \in draftFaults /\ request' = [request EXCEPT ![r].pc = "failed"]
     \/ request' = [request EXCEPT ![r].pc = "failed"] /\ mails' = mails
  /\ UNCHANGED <<draft, draftFaults>>

\* Mutant: the draft is marked as sent, refused or not.
MutStore(r) ==
  /\ request[r].pc \in {"sent", "failed"}
  /\ draft' = [draft EXCEPT ![request[r].draft].status = "sent"]
  /\ End(r)
  /\ UNCHANGED <<mails, draftFaults>>

\* The commit of a send writes the status if it differs from the one it read; it
\* fails when the row has gone.
Store(r) ==
  LET d == request[r].draft IN
  /\ request[r].pc \in {"sent", "failed"}
  /\ draft' = IF draft[d].there /\ request[r].pc # request[r].loaded
              THEN [draft EXCEPT ![d].status = request[r].pc] ELSE draft
  /\ End(r)
  /\ UNCHANGED <<mails, draftFaults>>

PatchDraft(r, d, b) ==
  /\ draft[d].status = "pending"
  /\ Begin(r, "patch", d, b)

PatchStore(r) ==
  LET d == request[r].draft IN
  /\ RequestAt(r, "patch")
  /\ draft' = IF draft[d].there THEN [draft EXCEPT ![d].body = request[r].body] ELSE draft
  /\ End(r)
  /\ UNCHANGED <<mails, draftFaults>>

\* Whatever its status.
RejectDraft(r, d) == Begin(r, "reject", d, draft[d].body)

RejectStore(r) ==
  /\ RequestAt(r, "reject")
  /\ draft' = [draft EXCEPT ![request[r].draft].there = FALSE]
  /\ End(r)
  /\ UNCHANGED <<mails, draftFaults>>

\* The backend restarts under a request.
Restart(r) ==
  /\ "restart" \in draftFaults /\ ~RequestAt(r, "idle")
  /\ End(r)
  /\ UNCHANGED <<draft, mails, draftFaults>>

-----------------------------------------------------------------------------

DraftNext ==
  \E r \in Request :
    \/ Smtp(r) \/ Store(r) \/ PatchStore(r) \/ RejectStore(r) \/ Restart(r)
    \/ \E d \in Draft : SendDraft(r, d) \/ RejectDraft(r, d) \/ \E b \in Body : PatchDraft(r, d, b)

DraftSpec == DraftInit /\ [][DraftNext]_draftVars

-----------------------------------------------------------------------------

\* A draft that is marked as sent was sent, whatever overlaps, is lost or restarts.
SentWasMailed ==
  \A d \in Draft : (draft[d].there /\ draft[d].status = "sent") => mails[d] # <<>>

\* Requests that come one by one and get their answers: a draft is mailed once, and
\* what was mailed is what the draft still says.
MailedAsStored ==
  draftFaults = {} =>
    \A d \in Draft :
      /\ Len(mails[d]) <= 1
      /\ (draft[d].there /\ draft[d].status = "sent") => LastOf(mails[d]) = draft[d].body

\* What the status of a draft says of its mail, with faults and without.
DraftsAreTrue == SentWasMailed /\ MailedAsStored

=============================================================================
