----------------------------- MODULE NodeRouter -----------------------------
(***************************************************************************)
(* The choice of a node (nodes/router.py), as operators on a table of      *)
(* rows, and a reply that excludes each node that fails and picks again.   *)
(* Names are numbers, in the alphabetical order of the code.               *)
(***************************************************************************)
EXTENDS Integers, Sequences, Functions

CONSTANTS
  NodeName,   \* names of nodes, numbers
  ModelName,  \* models
  Nothing     \* None: no model loaded, no node, an unknown VRAM

ASSUME RouterAssumption == NodeName \subseteq Nat /\ Nothing \notin NodeName

VramPenalty == 1024  \* MB, for a node that does not say what it uses
Vram == {Nothing, 0, 2 * VramPenalty}

\* What the choice reads of a row: was it heard within node_offline_after_s, which
\* models it has, what llama-server serves, the services it offers besides.
RouterRow ==
  [heard : BOOLEAN, models : SUBSET ModelName, running : BOOLEAN,
   loaded : ModelName \cup {Nothing}, vram : Vram, images : BOOLEAN, naming : BOOLEAN]

\* The rows the chat can meet: images and naming do not take part in its choice.
ChatTables == [NodeName -> {r \in RouterRow : ~r.images /\ ~r.naming}]

IsLoaded(row, m) == row.running /\ row.loaded = m

UsedVram(row, default) == IF row.vram = Nothing THEN default ELSE row.vram

\* Tuples of numbers compared as Python compares them.
Before(k, l) ==
  \E i \in DOMAIN k : k[i] < l[i] /\ \A j \in 1..(i - 1) : k[j] = l[j]

\* min(candidates, key): the key ends with the name, so there is only one.
Least(key) ==
  IF DOMAIN key = {} THEN Nothing
  ELSE CHOOSE n \in DOMAIN key : \A o \in DOMAIN key \ {n} : Before(key[n], key[o])

Candidates(table, m, exclude) ==
  {n \in DOMAIN table : table[n].heard /\ m \in table[n].models} \ exclude

\* Mutant: the node that serves the model is preferred last.
MutSortKey(row, n, m) ==
  <<IF IsLoaded(row, m) THEN 1 ELSE 0, UsedVram(row, VramPenalty), n>>

SortKey(row, n, m) ==
  <<IF IsLoaded(row, m) THEN 0 ELSE 1, UsedVram(row, VramPenalty), n>>

PickNode(table, m, exclude) ==
  Least([n \in Candidates(table, m, exclude) |-> SortKey(table[n], n, m)])

NeedsLoad(table, m, n) == ~IsLoaded(table[n], m)

PickImageNode(table, exclude) ==
  Least([n \in {n \in DOMAIN table : table[n].heard /\ table[n].images} \ exclude |->
           <<UsedVram(table[n], VramPenalty), n>>])

PickNamingNode(table) ==
  Least([n \in {n \in DOMAIN table : table[n].heard /\ table[n].naming} |->
           <<UsedVram(table[n], 0), n>>])

\* list_available_models: every model with the nodes that have it.
AvailableModels(table) ==
  LET on == {n \in DOMAIN table : table[n].heard}
  IN [m \in UNION {table[n].models : n \in on} |-> {n \in on : m \in table[n].models}]

-----------------------------------------------------------------------------

VARIABLES
  table,  \* what the nodes report while the reply looks for one
  asked,  \* the model of the reply
  tried   \* the nodes that failed, in order

routerVars == <<table, asked, tried>>

\* A node that was not heard, or has no model, is there as well.
RouterInit ==
  /\ table \in ChatTables
  /\ asked \in ModelName
  /\ tried = <<>>

\* chat_loop: the node that failed joins excluded.
Failover ==
  LET n == PickNode(table, asked, Range(tried)) IN
  /\ n # Nothing
  /\ tried' = Append(tried, n)
  /\ UNCHANGED <<table, asked>>

RouterSpec == RouterInit /\ [][Failover]_routerVars

-----------------------------------------------------------------------------

\* A reply whose nodes all fail tries once every node the interface offers for its
\* model, all that serve it already before any that would have to load it.
FailoverOrder ==
  LET offered == AvailableModels(table)
      on == IF asked \in DOMAIN offered THEN offered[asked] ELSE {}
  IN
  /\ IsInjective(tried) /\ Range(tried) \subseteq on
  /\ PickNode(table, asked, Range(tried)) = Nothing => Range(tried) = on
  /\ \A i, j \in DOMAIN tried :
       i < j /\ NeedsLoad(table, asked, tried[i]) => NeedsLoad(table, asked, tried[j])

=============================================================================
