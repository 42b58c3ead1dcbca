---------------------------- MODULE MemoryFiles ----------------------------
(***************************************************************************)
(* The Markdown files of a user's memory (memory/files.py): the API and    *)
(* the tools of replies run in the backend, those of scheduled jobs in the *)
(* processes of the worker, on the same directory.  A process does one     *)
(* call at a time; the calls of two processes interleave.                  *)
(***************************************************************************)
EXTENDS Naturals, FiniteSets

CONSTANTS
  Process,
  FileName,      \* slugs of files
  MaxFiles   \* memory_max_files_per_user

ASSUME ProcessAssumption == IsFiniteSet(Process) /\ Process # {}
ASSUME QuotaAssumption == MaxFiles \in Nat \ {0}

VARIABLES
  file,  \* what each file holds
  work   \* the call of each process

memoryVars == <<file, work>>

MemoryPC == {"idle", "looking", "counting", "writing", "filling", "unlinking"}

MemoryTypeOK ==
  /\ file \in [FileName -> {"absent", "empty", "whole"}]
  /\ work \in [Process -> [pc : MemoryPC, name : FileName]]

MemoryInit ==
  /\ file = [n \in FileName |-> "absent"]
  /\ work \in [Process -> [pc : {"idle"}, name : FileName]]

-----------------------------------------------------------------------------

Files == {n \in FileName : file[n] # "absent"}

MemoryGoto(p, from, to) ==
  /\ work[p].pc = from
  /\ work' = [work EXCEPT ![p] = [pc |-> to, name |-> @.name]]

\* write_file, once its content is neither empty nor too big; delete_file.
BeginWork(p) ==
  /\ work[p].pc = "idle"
  /\ \E n \in FileName, pc \in {"looking", "unlinking"} :
       /\ pc = "unlinking" => file[n] # "absent"
       /\ work' = [work EXCEPT ![p] = [pc |-> pc, name |-> n]]
  /\ file' = file

\* A file that exists is written whatever their number.
LookFor(p) ==
  /\ MemoryGoto(p, "looking", IF file[work[p].name] = "absent" THEN "counting" ELSE "writing")
  /\ file' = file

Full == Cardinality(Files) >= MaxFiles

CountFiles(p) ==
  /\ MemoryGoto(p, "counting", IF Full THEN "idle" ELSE "writing")
  /\ file' = file

\* write_text opens and truncates the file, then fills it.
Open(p) ==
  /\ MemoryGoto(p, "writing", "filling")
  /\ file' = [file EXCEPT ![work[p].name] = "empty"]

\* A file unlinked in the meantime is filled for nobody.
Fill(p) ==
  /\ MemoryGoto(p, "filling", "idle")
  /\ file' = [file EXCEPT ![work[p].name] = IF @ = "absent" THEN "absent" ELSE "whole"]

Unlink(p) ==
  /\ MemoryGoto(p, "unlinking", "idle")
  /\ file' = [file EXCEPT ![work[p].name] = "absent"]

\* The process dies, or the disk refuses a call.
CutWork(p) ==
  /\ work[p].pc # "idle"
  /\ work' = [work EXCEPT ![p] = [pc |-> "idle", name |-> @.name]]
  /\ file' = file

MemoryNext ==
  \E p \in Process :
    BeginWork(p) \/ LookFor(p) \/ CountFiles(p) \/ Open(p) \/ Fill(p) \/ Unlink(p) \/ CutWork(p)

MemorySpec == MemoryInit /\ [][MemoryNext]_memoryVars

-----------------------------------------------------------------------------

Writing(p) == work[p].pc \in {"writing", "filling"}
Coming == {work[p].name : p \in {q \in Process : Writing(q)}}

\* The quota counts before it writes: the processes may all be past the count, and
\* the files exceed it by one for each process but one, deletions, files that come
\* back and processes that die included.
FilesWithinQuota == Cardinality(Files) <= MaxFiles + Cardinality(Process) - 1

\* The files and those about to be written, together.
QuotaInv ==
  /\ MemoryTypeOK
  /\ IsFiniteSet(Files \cup Coming)
  /\ Cardinality(Files \cup Coming) <= MaxFiles + Cardinality(Process) - 1

=============================================================================
