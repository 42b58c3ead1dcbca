---------------------------- MODULE BuiltinTurn ----------------------------
(***************************************************************************)
(* The built-in tools of a reply that touch its database session: the      *)
(* definition of a macro, once the user approves its steps, and the        *)
(* sub-agents, which reply on the session of the agent that starts them    *)
(* (orchestrator/builtin_tools.py).  The pages of the user change macros   *)
(* meanwhile (api/desktop.py).                                             *)
(***************************************************************************)
EXTENDS Naturals

CONSTANTS
  Turn,      \* replies to the user
  Page,      \* requests of the user's pages
  MacroName, Body, Slug,
  SlugOf,    \* [MacroName -> Slug]: names alike have the same slug
  MaxDepth,  \* MAX_SUBAGENT_DEPTH
  MaxCalls,  \* MAX_TOOL_ITERATIONS, of each agent of a reply
  MaxId,     \* bound on the definitions and the requests
  Nothing

ASSUME TurnAssumption ==
  SlugOf \in [MacroName -> Slug] /\ {MaxDepth, MaxCalls, MaxId} \subseteq Nat

VARIABLES
  macros,  \* the row of each slug
  nextId,  \* an identifier is drawn before its row is written
  turn,    \* the replies: their agents' calls, the call under way, the state of the session
  page     \* what each request of a page read and writes

turnVars == <<macros, nextId, turn, page>>

Level == 0..MaxDepth
NoCalls == [l \in Level |-> 0]

TurnInit ==
  /\ macros = [s \in Slug |-> Nothing]
  /\ nextId = 1
  /\ turn = [t \in Turn |-> [pc |-> "thinking", level |-> 0, calls |-> NoCalls, broken |-> FALSE,
                             call |-> Nothing, seen |-> Nothing]]
  /\ page = [p \in Page |-> Nothing]

-----------------------------------------------------------------------------

(* Macros *)

Held == {macros[s] : s \in Slug} \ {Nothing}
There(m) == \E h \in Held : h.id = m.id

\* A row is updated when its content differs from what was read; the row may have
\* gone since, or another one taken the slug.
Saves(m, name, body) ==
  \/ m = Nothing /\ macros[SlugOf[name]] = Nothing
  \/ m # Nothing /\ (There(m) \/ (m.name = name /\ m.body = body))

Save(m, new) ==
  LET name == new.name  body == new.body IN
  macros' =
    IF ~Saves(m, name, body) THEN macros
    ELSE IF m = Nothing THEN [macros EXCEPT ![SlugOf[name]] = new]
    ELSE [s \in Slug |->
            IF macros[s] # Nothing /\ macros[s].id = m.id /\ (m.name # name \/ m.body # body)
            THEN [id |-> m.id, name |-> name, body |-> body] ELSE macros[s]]

\* create_macro, patch_macro and delete_macro read a row ...
PageReads(p) ==
  /\ page[p] = Nothing /\ nextId <= MaxId
  /\ nextId' = nextId + 1
  /\ \E name \in MacroName, body \in Body, op \in {"save", "delete"} :
     \E m \in Held \cup {macros[SlugOf[name]]} :
       /\ op = "delete" => m # Nothing
       /\ page' = [page EXCEPT ![p] = [op |-> op, seen |-> m,
                   new |-> [id |-> nextId, name |-> name, body |-> body]]]
  /\ UNCHANGED <<macros, turn>>

\* ... and commit: the write may fail, the page gets a 500 and its session is dropped.
PageCommits(p) ==
  /\ page[p] # Nothing
  /\ LET w == page[p] IN
     IF w.op = "delete"
     THEN macros' = [s \in Slug |-> IF macros[s] # Nothing /\ macros[s].id = w.seen.id
                                    THEN Nothing ELSE macros[s]]
     ELSE Save(w.seen, w.new)
  /\ page' = [page EXCEPT ![p] = Nothing]
  /\ UNCHANGED <<nextId, turn>>

(* Replies *)

TurnAt(t, pc) == turn[t].pc = pc

\* The agent calls a tool: one that leaves the database alone, one that waits for the
\* user, or a sub-agent, which none offers at the last level.
CallBuiltin(t) ==
  LET l == turn[t].level IN
  /\ TurnAt(t, "thinking") /\ turn[t].calls[l] < MaxCalls
  /\ \E op \in {"other", "ask", "define", "spawn"}, name \in MacroName, body \in Body :
       /\ op = "spawn" => l < MaxDepth
       /\ op = "define" => nextId <= MaxId
       /\ nextId' = IF op = "define" THEN nextId + 1 ELSE nextId
       /\ turn' = [turn EXCEPT ![t] =
            [pc |-> CASE op = "other" -> "answering" [] op = "spawn" -> "thinking"
                      [] OTHER -> "asking",
             level |-> IF op = "spawn" THEN l + 1 ELSE l,
             calls |-> IF op = "spawn" THEN [@.calls EXCEPT ![l] = @ + 1, ![l + 1] = 0]
                       ELSE [@.calls EXCEPT ![l] = @ + 1],
             call |-> IF op = "define" THEN [id |-> nextId, name |-> name, body |-> body]
                      ELSE Nothing,
             broken |-> @.broken, seen |-> Nothing]]
  /\ UNCHANGED <<macros, page>>

TurnGoto(t, pc, seen, broken) ==
  turn' = [turn EXCEPT ![t] = [pc |-> pc, level |-> @.level, calls |-> @.calls, broken |-> broken,
                               call |-> @.call, seen |-> seen]]

\* The user approves, refuses or lets the request expire.  A search follows at once.
Decided(t) ==
  /\ TurnAt(t, "asking")
  /\ \/ turn[t].call # Nothing /\ TurnGoto(t, "approved", Nothing, turn[t].broken)
     \/ TurnGoto(t, "answering", Nothing, turn[t].broken)
  /\ UNCHANGED <<macros, nextId, page>>

DefineReads(t) ==
  /\ TurnAt(t, "approved")
  /\ TurnGoto(t, "saving", macros[SlugOf[turn[t].call.name]], turn[t].broken)
  /\ UNCHANGED <<macros, nextId, page>>

\* execute catches what the commit raises; nobody rolls the session back.
DefineCommits(t) ==
  LET new == turn[t].call  seen == turn[t].seen IN
  /\ TurnAt(t, "saving")
  /\ TurnGoto(t, "answering", Nothing, ~Saves(seen, new.name, new.body))
  /\ Save(seen, new)
  /\ UNCHANGED <<nextId, page>>

ReturnUp(t, pc) ==
  turn' = [turn EXCEPT ![t] = [pc |-> pc, level |-> IF @.level > 0 THEN @.level - 1 ELSE 0,
                               calls |-> @.calls, broken |-> @.broken, call |-> Nothing,
                               seen |-> Nothing]]

\* The message of the tool is stored; the session of an earlier failure refuses it,
\* and the reply raises: the agent above catches it, the user's has none above.
AnswerCall(t) ==
  /\ TurnAt(t, "answering")
  /\ IF ~turn[t].broken THEN TurnGoto(t, "thinking", Nothing, FALSE)
     ELSE ReturnUp(t, IF turn[t].level = 0 THEN "dead" ELSE "answering")
  /\ UNCHANGED <<macros, nextId, page>>

\* An agent ends its reply, or fails; what it wrote is the answer to the call.
ReplyEnds(t) ==
  /\ TurnAt(t, "thinking")
  /\ ReturnUp(t, IF turn[t].level = 0 THEN "done" ELSE "answering")
  /\ UNCHANGED <<macros, nextId, page>>

-----------------------------------------------------------------------------

TurnStep(t) ==
  CallBuiltin(t) \/ Decided(t) \/ DefineReads(t) \/ DefineCommits(t) \/ AnswerCall(t) \/ ReplyEnds(t)

TurnNext ==
  \/ \E t \in Turn : TurnStep(t)
  \/ \E p \in Page : PageReads(p) \/ PageCommits(p)

TurnSpec == TurnInit /\ [][TurnNext]_turnVars

\* Models end their replies, requests of the user expire and the database answers.
TurnFairSpec == TurnSpec /\ \A t \in Turn : WF_turnVars(TurnStep(t))

-----------------------------------------------------------------------------

\* Every reply ends, however deep its sub-agents nest.
TurnsEnd == \A t \in Turn : TurnAt(t, "thinking") ~> turn[t].pc \in {"done", "dead"}

\* "A built-in must never kill the turn."
TurnSurvives == \A t \in Turn : ~TurnAt(t, "dead")

=============================================================================
