---------------------------- MODULE MCConnector ----------------------------
(***************************************************************************)
(* A persistent connector: the life of its container, the routes of one of *)
(* its channels, the events that carry its commands, and the bot of        *)
(* Discord that posts them, each in a scene of its own.                    *)
(***************************************************************************)
EXTENDS ConnectorLife, ConnectorRoutes, EventHub, DiscordBot

CONSTANT Scenes

VARIABLE scene

SerialOrAll == {{"dies", "run"}, AllFaults}

\* A text that fits, one whose lines are cut at their ends, one whose ends of lines come
\* too early, and one of short lines.
MCTexts ==
  {<<"c">>, <<"c", "c", "n", "c", "c">>, <<"n", "c", "c", "c", "c", "c", "c", "c", "c">>,
   <<"c", "c", "c", "n", "n", "n", "n", "n", "c", "c">>}

MCInit ==
  /\ scene \in Scenes
  /\ LifeInit /\ Init /\ HubInit /\ DiscordInit
  /\ scene # "life" => faults = {"dies", "run"}

MCNext ==
  \/ scene = "life" /\ LifeNext /\ UNCHANGED <<vars, hubVars, discordVars, scene>>
  \/ scene = "routes" /\ Next /\ UNCHANGED <<lifeVars, hubVars, discordVars, scene>>
  \/ scene = "events" /\ HubNext /\ UNCHANGED <<lifeVars, vars, discordVars, scene>>
  \/ scene = "discord" /\ DiscordNext /\ UNCHANGED <<lifeVars, vars, hubVars, scene>>

\* The fairness of each component, in its scene.
MCFair ==
  /\ \A p \in Proc : WF_lifeVars(scene = "life" /\ LifeStep(p))
  /\ \A m \in Monitor : WF_lifeVars(scene = "life" /\ Watch(m))
  /\ WF_lifeVars(scene = "life" /\ \E s \in Socket : Close(s))
  /\ WF_vars(scene = "routes" /\ \E m \in Message : Step(m))
  /\ WF_discordVars(scene = "discord" /\ \E k \in Command : Resolve(k) \/ PostPiece(k))

MCSpec == MCInit /\ [][MCNext]_<<lifeVars, vars, hubVars, discordVars, scene>> /\ MCFair

\* Messages end in their scene; in the other one there is none.
RoutesEnd == scene = "routes" => MessagesEnd

\* The status of the row follows the container, and messages and commands come to an end.
ConnectorEnds == StatusSettles /\ RoutesEnd /\ CommandsEnd

=============================================================================
