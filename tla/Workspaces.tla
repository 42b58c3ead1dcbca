----------------------------- MODULE Workspaces -----------------------------
(***************************************************************************)
(* A workspace of conversations (api/workspaces.py): its manager delegates *)
(* a task to a worker, whose whole reply runs in the session of the        *)
(* manager's and comes back as the result of a tool (_execute_delegate in  *)
(* orchestrator/chat_loop.py), while pages follow it and may delete the    *)
(* conversations.  Of a reply, what ChatReply says in full, only what the  *)
(* worker writes and what is committed of it are kept.                     *)
(*                                                                         *)
(* A text is the sequence of its pieces, numbered as they come; Written    *)
(* stands for a tool call that the model wrote into its text.              *)
(***************************************************************************)
EXTENDS Naturals, Sequences, SequencesExt

CONSTANTS
  Worker,
  NoWorker,
  MaxTries,        \* nodes a reply may try
  MaxTurns,        \* MAX_TOOL_ITERATIONS
  MaxPieces,       \* bound: pieces of a delegation
  MaxDelegations   \* bound

ASSUME WorkspaceAssumption ==
  NoWorker \notin Worker /\ {MaxTries, MaxTurns, MaxPieces, MaxDelegations} \subseteq Nat

VARIABLES
  open,     \* does the manager's conversation exist?
  team,     \* the conversations of workers that exist
  boss,     \* the reply of the manager and the delegation under way
  answers,     \* the answers of the worker to the task, as the session holds them
  stored,   \* the same in the database
  feed,     \* the events of the delegation on the channel of the workspace
  results   \* the result of the last delegation, once it is stored

workspaceVars == <<open, team, boss, answers, stored, feed, results>>

Written == 0
NoFeed == [said |-> << >>, ends |-> 0]
NoResult == [worker |-> NoWorker, text |-> << >>]
NoBoss == [pc |-> "none", worker |-> NoWorker, offered |-> {}, tries |-> 0, turns |-> 0,
           pieces |-> 0, calls |-> 0, text |-> << >>]

WorkspaceInit ==
  /\ open = FALSE /\ team = {} /\ boss = NoBoss
  /\ answers = << >> /\ stored = << >> /\ feed = NoFeed /\ results = NoResult

-----------------------------------------------------------------------------

(* The routes *)

\* create_workspace commits the manager and its workers together; then the user asks something.
CreateWorkspace ==
  /\ boss.pc = "none"
  /\ open' = TRUE /\ team' \in SUBSET Worker
  /\ boss' = [boss EXCEPT !.pc = "thinking", !.offered = team']
  /\ UNCHANGED <<answers, stored, feed, results>>

Forget(gone) == stored' = IF boss.worker \in gone THEN << >> ELSE stored

DeleteWorker(w) ==
  /\ w \in team /\ team' = team \ {w} /\ Forget({w})
  /\ UNCHANGED <<open, boss, answers, feed, results>>
DeleteWorkspace ==
  /\ open /\ open' = FALSE /\ team' = {} /\ Forget(team)
  /\ UNCHANGED <<boss, answers, feed, results>>

(* The delegation *)

BossAt(pc) == boss.pc = pc
BossGoes(pc) == boss' = [boss EXCEPT !.pc = pc]

\* What the session commits; a row that it has to write may be gone, with its conversation.
Committed(rows) == rows = stored \/ boss.worker \in team

\* An exception goes through both replies, and the one of the manager ends.
Raise == BossGoes("over") /\ UNCHANGED <<open, team, answers, stored, feed, results>>

\* A worker that the prompt of the manager listed, and that may be gone.
Delegate(w) ==
  /\ BossAt("thinking") /\ boss.calls < MaxDelegations /\ w \in boss.offered
  /\ boss' = [boss EXCEPT !.pc = IF w \in team THEN "starting" ELSE "refused", !.worker = w,
                          !.calls = @ + 1, !.text = << >>, !.tries = 0, !.turns = 0, !.pieces = 0]
  /\ answers' = << >> /\ stored' = << >> /\ results' = NoResult /\ feed' = NoFeed
  /\ UNCHANGED <<open, team>>

\* The task becomes a message of the worker's conversation.
PromptWorker ==
  /\ BossAt("starting")
  /\ IF boss.worker \in team
     THEN BossGoes("picking") /\ UNCHANGED <<open, team, answers, stored, feed, results>>
     ELSE Raise

\* The worker's reply yields its end, which is published.
WorkerEnds == boss' = [boss EXCEPT !.pc = "answering"] /\ feed' = [feed EXCEPT !.ends = @ + 1]

\* The select flushes what a node that failed has left in the session.
PickForWorker ==
  /\ BossAt("picking")
  /\ \/ ~Committed(answers) /\ Raise
     \/ /\ Committed(answers) /\ boss.turns < MaxTurns /\ boss.tries < MaxTries
        /\ boss' = [boss EXCEPT !.pc = "placing", !.turns = @ + 1]
        /\ UNCHANGED <<open, team, answers, stored, feed, results>>
     \/ /\ Committed(answers) \/ boss.turns = MaxTurns
        /\ WorkerEnds
        /\ UNCHANGED <<open, team, answers, stored, results>>

PlaceAnswer ==
  /\ BossAt("placing")
  /\ IF boss.worker \in team
     THEN /\ answers' = Append(answers, << >>) /\ stored' = answers'
          /\ BossGoes("streaming")
          /\ UNCHANGED <<open, team, feed, results>>
     ELSE Raise

\* A token goes to the row in the session, to the result and to the pages.
Say ==
  /\ BossAt("streaming") /\ boss.pieces < MaxPieces
  /\ \E piece \in {boss.pieces + 1, Written} :
       /\ answers' = [answers EXCEPT ![Len(answers)] = Append(@, piece)]
       /\ boss' = [boss EXCEPT !.text = Append(@, piece), !.pieces = @ + 1]
       /\ feed' = [feed EXCEPT !.said = Append(@, piece)]
  /\ UNCHANGED <<open, team, stored, results>>

Spoken(text) ==
  FlattenSeq([i \in 1 .. Len(text) |-> IF text[i] = Written THEN << >> ELSE <<text[i]>>])

\* The answer is committed.  If it has calls, they are executed and the worker goes on; those
\* found in its text, when it was offered tools and made no other, are taken out of it.
EndAnswer ==
  /\ BossAt("streaming")
  /\ IF boss.worker \in team
     THEN /\ \/ answers' = answers /\ WorkerEnds
             \/ answers' = answers /\ BossGoes("picking") /\ feed' = feed
             \/ /\ Contains(Last(answers), Written)
                /\ answers' = [answers EXCEPT ![Len(answers)] = Spoken(@)]
                /\ BossGoes("picking") /\ feed' = feed
          /\ stored' = answers'
          /\ UNCHANGED <<open, team, results>>
     ELSE Raise

\* Mutant: what a node has said before it fails is rolled back.
MutNodeBreaks ==
  /\ BossAt("streaming")
  /\ boss' = [boss EXCEPT !.pc = "picking", !.tries = @ + 1]
  /\ answers' = stored
  /\ UNCHANGED <<open, team, stored, feed, results>>

\* The node fails, before its first token or after it.
NodeBreaks ==
  /\ BossAt("streaming")
  /\ boss' = [boss EXCEPT !.pc = "picking", !.tries = @ + 1]
  /\ UNCHANGED <<open, team, answers, stored, feed, results>>

\* The message of the tool, committed with whatever the worker's reply left.
StoreResult ==
  /\ BossAt("answering")
  /\ IF open /\ Committed(answers)
     THEN /\ results' = [worker |-> boss.worker, text |-> boss.text]
          /\ stored' = IF boss.worker \in team THEN answers ELSE stored
          /\ BossGoes("thinking")
          /\ UNCHANGED <<open, team, answers, feed>>
     ELSE Raise
StoreRefusal ==
  /\ BossAt("refused")
  /\ IF open THEN BossGoes("thinking") /\ UNCHANGED <<open, team, answers, stored, feed, results>> ELSE Raise

\* The manager answers, or the user leaves: what the worker has said so far is kept.
BossStops ==
  /\ boss.pc \notin {"none", "over"}
  /\ BossGoes("over")
  /\ stored' = IF BossAt("streaming") /\ boss.worker \in team THEN answers ELSE stored
  /\ UNCHANGED <<open, team, answers, feed, results>>

WorkspaceNext ==
  \/ CreateWorkspace \/ DeleteWorkspace
  \/ \E w \in Worker : DeleteWorker(w) \/ Delegate(w)
  \/ PromptWorker \/ PickForWorker \/ PlaceAnswer \/ Say \/ EndAnswer \/ NodeBreaks
  \/ StoreResult \/ StoreRefusal \/ BossStops

WorkspaceSpec == WorkspaceInit /\ [][WorkspaceNext]_workspaceVars

-----------------------------------------------------------------------------

\* The manager is told what its worker's conversation holds: the answers to the task, one after
\* the other, with those that broken nodes left unfinished, and nothing else but the
\* calls the worker wrote into its text.  The pages have heard the same, and one end of it.
DelegationsAreWhole ==
  results # NoResult =>
    /\ results.worker \in team => Spoken(results.text) = Spoken(FlattenSeq(stored))
    /\ feed = [said |-> results.text, ends |-> 1]

=============================================================================
