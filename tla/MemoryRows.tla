----------------------------- MODULE MemoryRows -----------------------------
(***************************************************************************)
(* The keyed memories of a user (memory/store.py, api/memory.py).  Nothing *)
(* in the table keeps two rows from having one key: upsert looks for a row *)
(* of the key, asks a node for an embedding, and inserts or updates.       *)
(***************************************************************************)
EXTENDS Naturals, FiniteSets, MemoryFiles

CONSTANTS
  Upsert,      \* requests of the API and replies
  MemoryKey,
  MaxMemories  \* bound on the rows ever inserted

ASSUME MemoriesAssumption == IsFiniteSet(Upsert) /\ MaxMemories \in Nat

VARIABLES
  memories,  \* the rows: their number and their key
  inserted,  \* rows ever inserted
  upsert     \* the row each request read, and what it will do

rowsVars == <<memories, inserted, upsert>>

Unread == 0
NoUpsert == [does |-> "nothing", key |-> Unread, seen |-> Unread]

RowsInit ==
  /\ memories = {} /\ inserted = 0
  /\ upsert = [u \in Upsert |-> NoUpsert]

-----------------------------------------------------------------------------

WithKey(k) == {m \in memories : m.key = k}

\* Mutant: the row of the key is not looked for.
MutFound(k) == {Unread}

\* The first row the database gives for a key, if there is one.
Found(k) == IF WithKey(k) = {} THEN {Unread} ELSE {m.id : m \in WithKey(k)}

\* create_or_update; patch_memory with a value does the same for the key of the row
\* it read, which need not be the row it finds.
UpsertReads(u) ==
  /\ upsert[u].does = "nothing"
  /\ \E k \in MemoryKey : \E id \in Found(k) :
       upsert' = [upsert EXCEPT ![u] = [does |-> "write", key |-> k, seen |-> id]]
  /\ UNCHANGED <<memories, inserted>>

\* With an embedding or without one; the commit of a row that is gone fails.
UpsertCommits(u) ==
  /\ upsert[u].does = "write"
  /\ IF upsert[u].seen = Unread
     THEN /\ inserted < MaxMemories
          /\ inserted' = inserted + 1
          /\ memories' = memories \cup {[id |-> inserted + 1, key |-> upsert[u].key]}
     ELSE UNCHANGED <<memories, inserted>>
  /\ upsert' = [upsert EXCEPT ![u] = NoUpsert]

\* delete_memory
DeleteMemoryReads(u) ==
  /\ upsert[u].does = "nothing"
  /\ \E m \in memories :
       upsert' = [upsert EXCEPT ![u] = [does |-> "delete", key |-> m.key, seen |-> m.id]]
  /\ UNCHANGED <<memories, inserted>>

DeleteMemoryCommits(u) ==
  /\ upsert[u].does = "delete"
  /\ memories' = {m \in memories : m.id # upsert[u].seen}
  /\ upsert' = [upsert EXCEPT ![u] = NoUpsert]
  /\ inserted' = inserted

RowsNext ==
  \E u \in Upsert :
    UpsertReads(u) \/ UpsertCommits(u) \/ DeleteMemoryReads(u) \/ DeleteMemoryCommits(u)

RowsSpec == RowsInit /\ [][RowsNext]_rowsVars

-----------------------------------------------------------------------------

\* A key has two rows only when several requests wrote it at once: never more than
\* there were of them.
KeysAreBounded == \A k \in MemoryKey : Cardinality(WithKey(k)) <= Cardinality(Upsert)

\* What a user's memory keeps, in files and in rows, stays near its limits: it exceeds
\* them by the requests that work at once, never by more.
MemoryIsBounded == FilesWithinQuota /\ KeysAreBounded

=============================================================================
