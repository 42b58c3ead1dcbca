------------------------------ MODULE MCNodes ------------------------------
(***************************************************************************)
(* A node and what the backend knows of it: the agent around llama-server  *)
(* with the update loop, its updates, the rows of the nodes, the           *)
(* measurements of one of them, and the choice of a node over every table  *)
(* of three: each in a scene of its own.                                   *)
(***************************************************************************)
EXTENDS AgentControl, AgentUpdate, NodeRegistry, NodeMetrics, NodeRouter

CONSTANTS b1, b2, p1, p2, a1, a2, Scenes

MCBeat == {b1, b2}
MCCycle == {p1, p2}
MCAdmin == {a1, a2}

World(ops, names, actors, hosts, models) ==
  [ops |-> ops, names |-> names, actors |-> actors, up |-> hosts, models |-> models]

\* Two reports of one name with its creation and its deletion; two deletions; two polls of a host
\* that starts an agent, or is deleted; two polls of two hosts, which lock them in
\* any order; one poll with a deletion in between; and with the clock, two polls of
\* a host that answers and one that does not, and the reports of an agent.
MCWorlds ==
  {World({"beat", "create", "delete"}, {1}, {b1, b2, a1}, {}, Reported),
   World({"create", "delete"}, {1}, {a1, a2}, {}, Reported),
   World({"poll", "beat", "delete"}, {1}, {b1, p1, p2, a1}, {}, Reported),
   World({"poll"}, {1, 2}, {p1, p2}, {}, {}),
   World({"poll", "delete"}, {1, 2}, {p1, a1}, {}, {}),
   World({"poll", "clock"}, {1, 2}, {p1, p2}, {1}, {}),
   World({"beat", "clock"}, {1}, {b1}, {}, {})}

VARIABLE scene

Quiet == World({"beat", "clock"}, {1}, {b1}, {}, {})
NoTable == [n \in NodeName |-> CHOOSE r \in RouterRow : ~r.heard]

BackendVars == <<registryVars, metricsVars, routerVars>>
MCVars == <<vars, updateVars, BackendVars, scene>>

MCInit ==
  /\ scene \in Scenes
  /\ Init /\ UpdateInit /\ RegistryInit /\ MetricsInit
  /\ scene # "agent" => disk = {}
  /\ scene # "rows" => world = Quiet
  /\ IF scene = "choice" THEN RouterInit
     ELSE table = NoTable /\ asked = Nothing /\ tried = <<>>

MCNext ==
  /\ \/ scene = "agent" /\ Next /\ UNCHANGED <<updateVars, BackendVars>>
     \/ scene = "updates" /\ UpdateNext /\ UNCHANGED <<vars, BackendVars>>
     \/ /\ UNCHANGED <<vars, updateVars>>
        /\ \/ scene = "rows" /\ RegistryNext /\ UNCHANGED <<metricsVars, routerVars>>
           \/ scene = "series" /\ MetricsNext /\ UNCHANGED <<registryVars, routerVars>>
           \/ scene = "choice" /\ Failover /\ UNCHANGED <<registryVars, metricsVars>>
  /\ scene' = scene

\* The event loop of the agent runs what is runnable, and a process told to stop exits; the
\* heartbeats go on, git ends and succeeds when it is tried again and again, and systemd
\* starts an agent that left.
MCFair ==
  /\ \A t \in Task : WF_vars(scene = "agent" /\ Locked(t)) /\ WF_vars(scene = "agent" /\ Starting(t))
  /\ \A p \in Pid : WF_vars(scene = "agent" /\ Terminated(p) /\ Dies(p))
  /\ WF_updateVars(scene = "updates" /\ (HeartbeatAnswered \/ PullFails \/ PullSucceeds))
  /\ SF_updateVars(scene = "updates" /\ PullSucceeds)
  /\ WF_updateVars(scene = "updates" /\ (LatePull \/ ResetEnds))
  /\ WF_updateVars(scene = "updates" /\ (AgentExits \/ AgentStarts))

MCSpec == MCInit /\ [][MCNext]_MCVars /\ MCFair

\* A load that was accepted comes to an end (agent_api.py), and a version that was deployed
\* arrives on the node (self_update.py).
NodeSettles == LoadingEnds /\ UpdatesArrive

=============================================================================
