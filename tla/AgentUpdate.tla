----------------------------- MODULE AgentUpdate -----------------------------
(***************************************************************************)
(* How a node agent comes to a new version: the commit that install.sh     *)
(* stamps into the backend, the heartbeat that compares it with the one    *)
(* the agent runs, the pull and the exit of the agent, and the request     *)
(* /self-update of the administrator, on one checkout.                     *)
(*                                                                         *)
(* Commits are the numbers of one branch.  Time is counted in heartbeats.  *)
(***************************************************************************)
EXTENDS Naturals

CONSTANTS
  Cooldown,    \* _RETRY_COOLDOWN_S
  MaxCommits,  \* bound: commits of the branch
  MaxFetches   \* bound: requests /self-update

ASSUME UpdateAssumption == {Cooldown, MaxCommits, MaxFetches} \subseteq Nat \ {0}

VARIABLES
  origin,   \* the last commit of the branch
  target,   \* agent_target_commit of the backend
  head,     \* the checkout of the node
  agent,    \* the process: what it runs, its pull, when it last tried one
  fetches,  \* _self_update_task: none, at work, or about to exit; and how many there were
  late      \* does a pull go on that the agent no longer waits for?

updateVars == <<origin, target, head, agent, fetches, late>>

Commit == 1 .. MaxCommits

UpdateTypeOK ==
  /\ {origin, target, head} \subseteq Commit
  /\ agent \in [up : BOOLEAN, commit : Commit, pc : {"idle", "pulling", "leaving"},
                waited : 0 .. Cooldown]
  /\ fetches \in [pc : {"none", "reset", "leaving"}, n : 0 .. MaxFetches]
  /\ late \in BOOLEAN

\* A process that has just started remembers no attempt.
Fresh(commit) == [up |-> TRUE, commit |-> commit, pc |-> "idle", waited |-> Cooldown]

UpdateInit ==
  /\ origin = 1 /\ target = 1 /\ head = 1
  /\ agent = Fresh(1) /\ fetches = [pc |-> "none", n |-> 0] /\ late = FALSE

Push ==
  /\ origin < MaxCommits /\ origin' = origin + 1
  /\ UNCHANGED <<target, head, agent, fetches, late>>

\* install.sh pulls the checkout of the server and stamps its commit.
Deploy ==
  /\ target # origin /\ target' = origin
  /\ UNCHANGED <<origin, head, agent, fetches, late>>

\* Mutant: the commit of the checkout is compared, not the one that runs.
MutHeartbeatAnswered ==
  /\ agent.up /\ agent.pc = "idle"
  /\ LET tries == head # target /\ agent.waited = Cooldown IN
     /\ tries \/ agent.waited < Cooldown
     /\ agent' = [agent EXCEPT !.pc = IF tries THEN "pulling" ELSE @,
                               !.waited = IF tries THEN 0 ELSE @ + 1]
  /\ UNCHANGED <<origin, target, head, fetches, late>>

\* The answer of the backend says that there is another version, and maybe_self_update tries
\* for it, unless it did so a moment ago.
HeartbeatAnswered ==
  /\ agent.up /\ agent.pc = "idle"
  /\ LET tries == agent.commit # target /\ agent.waited = Cooldown IN
     /\ tries \/ agent.waited < Cooldown
     /\ agent' = [agent EXCEPT !.pc = IF tries THEN "pulling" ELSE @,
                               !.waited = IF tries THEN 0 ELSE @ + 1]
  /\ UNCHANGED <<origin, target, head, fetches, late>>

\* git fails, or takes so long that the agent waits no longer and leaves it to itself.
PullFails ==
  /\ agent.up /\ agent.pc = "pulling"
  /\ agent' = [agent EXCEPT !.pc = "idle"]
  /\ late' \in {late, TRUE}
  /\ UNCHANGED <<origin, target, head, fetches>>

\* git pull --ff-only succeeds, also when there is nothing to pull.
PullSucceeds ==
  /\ agent.up /\ agent.pc = "pulling"
  /\ head' = origin
  /\ agent' = [agent EXCEPT !.pc = "leaving"]
  /\ UNCHANGED <<origin, target, fetches, late>>

\* The pull that nobody waits for ends, one way or the other.
LatePull ==
  /\ late /\ late' = FALSE
  /\ head' \in {head, origin}
  /\ UNCHANGED <<origin, target, agent, fetches>>

\* POST /self-update; fetch, reset and clean, any of which may fail.
SelfUpdatePosted ==
  /\ agent.up /\ fetches.pc = "none" /\ fetches.n < MaxFetches
  /\ fetches' = [pc |-> "reset", n |-> fetches.n + 1]
  /\ UNCHANGED <<origin, target, head, agent, late>>
ResetEnds ==
  /\ agent.up /\ fetches.pc = "reset"
  /\ \E outcome \in {"none", "leaving"} :
       /\ fetches' = [fetches EXCEPT !.pc = outcome]
       /\ head' \in {origin} \cup (IF outcome = "none" THEN {head} ELSE {})
  /\ UNCHANGED <<origin, target, agent, late>>

\* os._exit, after the servers were stopped; then systemd starts the agent again, which reads the
\* commit of its checkout.
AgentExits ==
  /\ agent.up /\ (agent.pc = "leaving" \/ fetches.pc = "leaving")
  /\ agent' = [agent EXCEPT !.up = FALSE, !.pc = "idle"]
  /\ fetches' = [fetches EXCEPT !.pc = "none"]
  /\ late' = FALSE
  /\ UNCHANGED <<origin, target, head>>
AgentStarts ==
  /\ ~agent.up
  /\ agent' = Fresh(head)
  /\ UNCHANGED <<origin, target, head, fetches, late>>

UpdateNext ==
  \/ Push \/ Deploy \/ SelfUpdatePosted \/ HeartbeatAnswered
  \/ PullFails \/ PullSucceeds \/ LatePull \/ ResetEnds \/ AgentExits \/ AgentStarts

-----------------------------------------------------------------------------

\* The docstring of maybe_self_update: the agent leaves because its code was updated.
LeavesForNewCode == agent.pc = "leaving" => head # agent.commit

\* What was deployed arrives: when the backend has the last commit for ever, the agent runs it
\* in the end and goes on running it, whatever pulls failed, were late or crossed.
UpdatesArrive == <>[](target = origin) => <>[](agent.up /\ agent.commit = target)

=============================================================================
