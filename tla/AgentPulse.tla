----------------------------- MODULE AgentPulse -----------------------------
(***************************************************************************)
(* What a node agent tells the backend of itself (main.py): the heartbeat  *)
(* loop, which looks at llama-server, asks it for its figures and posts a  *)
(* report while the control API may start and stop the server; the second  *)
(* llama-server, which names conversations, with its watchdog; and the row *)
(* of the backend, which the reports reach late, in any order or never.    *)
(***************************************************************************)
EXTENDS Naturals

CONSTANTS
  ChatModel,
  NoReport,
  MaxPosts,    \* bound: reports under way at once
  MaxChanges  \* bound: starts of llama-server, failures of the naming server and of posts

ASSUME PulseAssumption == {MaxPosts, MaxChanges} \subseteq Nat

VARIABLES
  chatServer,  \* the process of llama-server and its _current_model
  naming,      \* the naming server: is it kept, its process, what its starter does
  pulse,       \* the heartbeat under way, and the models that ran since it began
  wire,        \* the reports under way
  known,       \* the row of the node
  changes

pulseVars == <<chatServer, naming, pulse, wire, known, changes>>

Post == 1 .. MaxPosts

PulseTypeOK ==
  /\ chatServer \in [run : BOOLEAN, model : ChatModel \cup {NoReport}]
  /\ naming \in [kept : BOOLEAN, alive : BOOLEAN, pc : {"boot", "first", "asleep", "again", "off"}]
  /\ pulse \in [pc : {"idle", "asking", "posting"}, ran : SUBSET ChatModel]
  /\ DOMAIN wire = Post /\ changes \in 0 .. MaxChanges

PulseInit ==
  /\ chatServer = [run |-> FALSE, model |-> NoReport]
  /\ naming \in [kept : {FALSE}, alive : {FALSE}, pc : {"boot", "off"}]
  /\ pulse = [pc |-> "idle", ran |-> {}]
  /\ wire = [i \in Post |-> NoReport]
  /\ known = [run |-> FALSE, model |-> NoReport, naming |-> FALSE, sound |-> TRUE]
  /\ changes = 0

-----------------------------------------------------------------------------

(* llama-server, moved by the control API or on its own *)

Changes == changes < MaxChanges /\ changes' = changes + 1

\* The path of the model is set as soon as the process exists, and outlives it.
ServerStarts(m) ==
  /\ ~chatServer.run /\ Changes
  /\ chatServer' = [run |-> TRUE, model |-> m]
  /\ pulse' = [pulse EXCEPT !.ran = IF pulse.pc = "asking" THEN @ \cup {m} ELSE @]
  /\ UNCHANGED <<naming, wire, known>>

\* Mutant: the path of the model goes with the process.
MutServerStops ==
  /\ chatServer.run /\ chatServer' = [run |-> FALSE, model |-> NoReport]
  /\ UNCHANGED <<naming, pulse, wire, known, changes>>

ServerStops ==
  /\ chatServer.run /\ chatServer' = [chatServer EXCEPT !.run = FALSE]
  /\ UNCHANGED <<naming, pulse, wire, known, changes>>

(* The naming server *)

NamingGoes(kept, alive, pc) ==
  /\ naming' = [kept |-> kept, alive |-> alive, pc |-> pc]
  /\ UNCHANGED <<chatServer, pulse, wire, known>>

\* start() by _run at boot, if a model is configured for it, or by the watchdog when
\* the process has ended.
NamingStarts ==
  /\ naming.pc = "boot" \/ (naming.pc = "asleep" /\ ~naming.alive)
  /\ NamingGoes(naming.kept, TRUE, IF naming.pc = "boot" THEN "first" ELSE "again")
  /\ UNCHANGED changes

NamingReady ==
  /\ naming.pc \in {"first", "again"} /\ naming.alive
  /\ NamingGoes(TRUE, TRUE, "asleep")
  /\ UNCHANGED changes

\* The process has ended, or is not ready in time: then it is left running.  _run gives
\* the server up, its watchdog does not.
NamingFails ==
  /\ naming.pc \in {"first", "again"}
  /\ NamingGoes(naming.kept, naming.alive, IF naming.pc = "first" THEN "off" ELSE "asleep")
  /\ IF naming.alive THEN Changes ELSE UNCHANGED changes

NamingDies ==
  /\ naming.alive /\ Changes
  /\ NamingGoes(naming.kept, FALSE, naming.pc)

(* The heartbeat *)

\* naming_ready, and what was read of llama-server; sound says that it was so at one moment.
Report(run, model) ==
  [run |-> run, model |-> model, naming |-> naming.kept /\ naming.alive,
   sound |-> run => model \in pulse.ran]
Posts(report) ==
  \E i \in Post :
    /\ wire[i] = NoReport /\ \A j \in Post : j < i => wire[j] # NoReport
    /\ wire' = [wire EXCEPT ![i] = report]

\* The hardware and the network, then is_running, which get_stats looks at once.
PulseBegins ==
  /\ naming.pc \in {"asleep", "again", "off"} /\ pulse.pc = "idle"
  /\ pulse' = [pc |-> IF chatServer.run THEN "asking" ELSE "posting",
               ran |-> IF chatServer.run THEN {chatServer.model} ELSE {}]
  /\ IF chatServer.run THEN wire' = wire ELSE Posts(Report(FALSE, NoReport))
  /\ UNCHANGED <<chatServer, naming, known, changes>>

\* /slots and /metrics have answered or not: the model is read after them, as is the
\* naming server.
PulsePosts ==
  /\ pulse.pc = "asking"
  /\ pulse' = [pc |-> "posting", ran |-> {}]
  /\ Posts(Report(TRUE, chatServer.model))
  /\ UNCHANGED <<chatServer, naming, known, changes>>

\* An answer, an error, or ten seconds.
PulseEnds ==
  /\ pulse.pc = "posting"
  /\ pulse' = [pc |-> "idle", ran |-> {}]
  /\ UNCHANGED <<chatServer, naming, wire, known, changes>>

\* The backend takes a report, whatever has become of who sent it.
Deliver(i) ==
  /\ wire[i] # NoReport
  /\ known' = wire[i] /\ wire' = [wire EXCEPT ![i] = NoReport]
  /\ UNCHANGED <<chatServer, naming, pulse, changes>>
Lose(i) ==
  /\ wire[i] # NoReport /\ Changes
  /\ wire' = [wire EXCEPT ![i] = NoReport]
  /\ UNCHANGED <<chatServer, naming, pulse, known>>

PulseNext ==
  \/ \E m \in ChatModel : ServerStarts(m)
  \/ ServerStops \/ NamingStarts \/ NamingReady \/ NamingFails \/ NamingDies
  \/ PulseBegins \/ PulsePosts \/ PulseEnds
  \/ \E i \in Post : Deliver(i) \/ Lose(i)

-----------------------------------------------------------------------------

\* What a report says of llama-server was so at one moment while it was made: a server that
\* is stopped, or replaced, while it is asked for its figures is never reported with a
\* model that did not run.
ReportsWereTrue == known.sound

\* Once nobody starts or stops a server any more, the row of the node comes to say what runs
\* and goes on saying it, whatever reports were lost, late or overtaken; and a naming
\* server that is kept runs.
RowSettles ==
  <>[](/\ known.run = chatServer.run /\ (known.run => known.model = chatServer.model)
       /\ known.naming = naming.kept /\ (naming.kept => naming.alive))

=============================================================================
