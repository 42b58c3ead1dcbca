--------------------------- MODULE ModelDownloads ---------------------------
(***************************************************************************)
(* The download of a model file, from the page of a node to its agent: the *)
(* one download the agent runs and the one status it keeps of it, the      *)
(* proxy routes of the backend, and the store of the web client that polls *)
(* that status for every file it follows.                                  *)
(***************************************************************************)
EXTENDS Naturals, FiniteSets

CONSTANTS
  File,
  MaxPulls,   \* bound: downloads accepted by the agent
  NoFile

ASSUME DownloadAssumption == NoFile \notin File /\ MaxPulls \in Nat

VARIABLES
  download,  \* _download_status of the agent
  pulls,     \* the download tasks, one per accepted request
  disk,      \* the files of models_dir
  asked,     \* pages between the answer to their POST and track()
  item,      \* the popup of each file
  polled,    \* is there an interval in _timers for it?
  answers,   \* answers of its polls that are under way
  removals   \* its popups that setTimeout will remove

downloadVars == <<download, pulls, disk, asked, item, polled, answers, removals>>

PullStep == {"none", "starting", "downloading"}
AgentState == {"idle", "starting", "downloading", "done", "error"}
Shown == {"downloading", "done", "error"}

DownloadTypeOK ==
  /\ download \in [state : AgentState, file : File \cup {NoFile}]
  /\ pulls \in [1 .. MaxPulls -> [step : PullStep \cup {"ended"}, file : File \cup {NoFile}]]
  /\ disk \subseteq File /\ asked \subseteq File
  /\ item \in [File -> Shown \cup {"none"}]
  /\ polled \in [File -> BOOLEAN]
  /\ answers \in [File -> SUBSET Shown]
  /\ removals \in [File -> BOOLEAN]

DownloadInit ==
  /\ download = [state |-> "idle", file |-> NoFile]
  /\ pulls = [i \in 1 .. MaxPulls |-> [step |-> "none", file |-> NoFile]]
  /\ disk = {} /\ asked = {}
  /\ item = [f \in File |-> "none"] /\ polled = [f \in File |-> FALSE]
  /\ answers = [f \in File |-> {}] /\ removals = [f \in File |-> FALSE]

clientVars == <<asked, item, polled, answers, removals>>

-----------------------------------------------------------------------------
(* The agent                                                               *)

\* Mutant: a task that has not begun does not count.
MutBusy == download.state = "downloading"

Busy == download.state \in {"starting", "downloading"}

\* POST /models/download, through pull_model of the backend: 409 while one runs.
AcceptPull(i, f) ==
  /\ pulls[i].step = "none" /\ \A j \in 1 .. i - 1 : pulls[j].step # "none"
  /\ f \notin asked
  /\ ~Busy
  /\ download' = [state |-> "starting", file |-> f]
  /\ pulls' = [pulls EXCEPT ![i] = [step |-> "starting", file |-> f]]
  /\ asked' \in {asked, asked \cup {f}}   \* the answer to the page may be lost
  /\ UNCHANGED <<disk, item, polled, answers, removals>>

FetchBegins(i) ==
  /\ pulls[i].step = "starting"
  /\ download' = [state |-> "downloading", file |-> pulls[i].file]
  /\ pulls' = [pulls EXCEPT ![i].step = "downloading"]
  /\ UNCHANGED <<disk, clientVars>>

\* download_model returns the file, which may have been there, or raises: the status of an
\* error names no file.
FetchEnds(i) ==
  /\ pulls[i].step = "downloading"
  /\ pulls' = [pulls EXCEPT ![i].step = "ended"]
  /\ \/ /\ disk' = disk \cup {pulls[i].file}
        /\ download' = [state |-> "done", file |-> pulls[i].file]
     \/ /\ pulls[i].file \notin disk /\ disk' = disk
        /\ download' = [state |-> "error", file |-> NoFile]
  /\ UNCHANGED clientVars

DeleteFile(f) ==
  /\ f \in disk /\ disk' = disk \ {f}
  /\ UNCHANGED <<download, pulls, clientVars>>

\* The agent restarts: the status and the tasks are lost.
AgentRestarts ==
  /\ download' = [state |-> "idle", file |-> NoFile]
  /\ pulls' = [i \in 1 .. MaxPulls |->
       IF pulls[i].step = "none" THEN pulls[i] ELSE [pulls[i] EXCEPT !.step = "ended"]]
  /\ UNCHANGED <<disk, clientVars>>

-----------------------------------------------------------------------------
(* The store of the client                                                 *)

\* How a poll reads the status of the agent: it looks neither at the file nor at
\* a status that it does not know.
Read(state) == IF state \in {"done", "error"} THEN state ELSE "downloading"

\* track: a file that is followed already keeps its interval; the first poll leaves now.
Track(f) ==
  /\ f \in asked /\ asked' = asked \ {f}
  /\ IF polled[f] THEN UNCHANGED <<item, polled, answers>>
     ELSE /\ item' = [item EXCEPT ![f] = "downloading"]
          /\ polled' = [polled EXCEPT ![f] = TRUE]
          /\ answers' = [answers EXCEPT ![f] = @ \cup {Read(download.state)}]
  /\ UNCHANGED <<download, pulls, disk, removals>>

\* The interval polls again without waiting for the previous answer.
Poll(f) ==
  /\ polled[f]
  /\ answers' = [answers EXCEPT ![f] = @ \cup {Read(download.state)}]
  /\ UNCHANGED <<download, pulls, disk, asked, item, polled, removals>>

\* An answer comes, in any order, and is applied to the popup if it is still there.
Tick(f, answer) ==
  /\ answer \in answers[f]
  /\ answers' = [answers EXCEPT ![f] = @ \ {answer}]
  /\ IF item[f] = "none" THEN UNCHANGED <<item, polled, removals>>
     ELSE /\ item' = [item EXCEPT ![f] = answer]
          /\ polled' = [polled EXCEPT ![f] = @ /\ answer = "downloading"]
          /\ removals' = [removals EXCEPT ![f] = @ \/ answer = "done"]
  /\ UNCHANGED <<download, pulls, disk, asked>>

\* An error of the backend or of the network: the next tick tries again.
AnswerLost(f, answer) ==
  /\ answer \in answers[f] /\ polled[f]
  /\ answers' = [answers EXCEPT ![f] = @ \ {answer}]
  /\ UNCHANGED <<download, pulls, disk, asked, item, polled, removals>>

\* Five seconds after a success, whatever the popup shows by then.
RemovePopup(f) ==
  /\ removals[f]
  /\ removals' = [removals EXCEPT ![f] = FALSE]
  /\ item' = [item EXCEPT ![f] = "none"]
  /\ polled' = [polled EXCEPT ![f] = FALSE]
  /\ UNCHANGED <<download, pulls, disk, asked, answers>>

DownloadNext ==
  \/ \E i \in 1 .. MaxPulls : FetchBegins(i) \/ FetchEnds(i) \/ \E f \in File : AcceptPull(i, f)
  \/ AgentRestarts
  \/ \E f \in File :
       \/ DeleteFile(f) \/ Track(f) \/ Poll(f) \/ RemovePopup(f)
       \/ \E answer \in Shown : Tick(f, answer) \/ AnswerLost(f, answer)

-----------------------------------------------------------------------------

\* The agent runs one download at a time, and what it publishes while one runs is that
\* download, until a restart forgets both.
OneDownload ==
  /\ Cardinality({i \in 1 .. MaxPulls : pulls[i].step \in {"starting", "downloading"}}) <= 1
  /\ \A i \in 1 .. MaxPulls :
       pulls[i].step \in {"starting", "downloading"} =>
         download = [state |-> pulls[i].step, file |-> pulls[i].file]

\* A popup is followed until it says how the download ended, whatever other downloads follow on
\* that node: only a restart of the agent leaves it behind.
FollowingEnds ==
  \A f \in File : []<>(~polled[f] \/ download.state = "idle")

=============================================================================
