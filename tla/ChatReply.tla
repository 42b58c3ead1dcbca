------------------------------ MODULE ChatReply ------------------------------
(***************************************************************************)
(* stream_assistant_reply (orchestrator/chat_loop.py) on one conversation, *)
(* and the routes of api/conversations.py that start it: send, regenerate  *)
(* and edit; and its deletion meanwhile.  Every stream has a database      *)
(* session of its own; a step ends where the code commits or waits.        *)
(*                                                                         *)
(* A message is its role and what the prompt makes of it: an assistant     *)
(* message is empty when it is placed, then holds part of an answer, all   *)
(* of it, or tool calls.  Its identifier gives the order of created_at.    *)
(***************************************************************************)
EXTENDS Naturals, FiniteSets, Sequences, SequencesExt

CONSTANTS
  Node, Stream,
  MaxIter,      \* MAX_TOOL_ITERATIONS
  MaxCalls,     \* bound: tool calls of one answer
  MaxRequests,  \* bound: requests in a behaviour
  NoNode,
  Ops,          \* the routes in use
  FaultSets     \* what may go wrong, for several kinds of behaviours

AllOps == {"send", "regenerate", "edit"}
AllFaults == {"overlap", "refused", "broken", "cancel", "unloadable", "delete"}

ASSUME BoundAssumption == MaxIter \in Nat \ {0} /\ MaxCalls \in Nat /\ MaxRequests \in Nat
ASSUME NodeAssumption == NoNode \notin Node /\ IsFiniteSet(Node)
ASSUME UseAssumption == Ops \subseteq AllOps /\ FaultSets \subseteq SUBSET AllFaults

VARIABLES
  there,     \* the row of the conversation
  msgs,      \* the rows of its messages, by created_at
  next,      \* the next identifier
  st,        \* the streams
  requests,  \* how many requests were made
  faults     \* what may go wrong in this behaviour, which never changes

vars == <<there, msgs, next, st, requests, faults>>

Roles == {"user", "assistant", "tool"}
Bodies == {"", "part", "full", "calls"}
PC == {"free", "deleting", "starting", "picking", "loading", "placing",
       "building", "streaming", "working", "ended", "cancelled"}

Idle == [pc |-> "free", op |-> "none", target |-> 0, parent |-> 0, iter |-> 0,
         excluded |-> {}, node |-> NoNode, msg |-> 0, dirty |-> 0,
         got |-> FALSE, calls |-> 0, prompt |-> "none", events |-> << >>]

Ids == {msgs[i].id : i \in DOMAIN msgs}
Row(id, role, body, parent) == [id |-> id, role |-> role, body |-> body, parent |-> parent]

TypeOK ==
  /\ there \in BOOLEAN /\ (~there => msgs = << >>)
  /\ msgs \in Seq([id : Nat, role : Roles, body : Bodies, parent : Nat])
  /\ \A i, j \in DOMAIN msgs : i < j => msgs[i].id < msgs[j].id
  /\ next \in Nat /\ \A id \in Ids : id < next
  /\ requests \in 0..MaxRequests /\ faults \in FaultSets
  /\ DOMAIN st = Stream
  /\ \A s \in Stream :
       /\ st[s].pc \in PC /\ st[s].op \in AllOps \cup {"none"}
       /\ {st[s].target, st[s].parent, st[s].msg, st[s].dirty} \subseteq 0..next
       /\ st[s].iter \in 0..MaxIter
       /\ st[s].excluded \subseteq Node /\ st[s].node \in Node \cup {NoNode}
       /\ st[s].calls \in 0..MaxCalls

Init ==
  /\ there = TRUE /\ msgs = << >> /\ next = 1 /\ requests = 0
  /\ st = [s \in Stream |-> Idle]
  /\ faults \in FaultSets

-----------------------------------------------------------------------------

Set(s, r) == st' = [st EXCEPT ![s] = r]
Insert(role, body) ==
  /\ msgs' = Append(msgs, Row(next, role, body, 0))
  /\ next' = next + 1
Write(id, body) == [i \in DOMAIN msgs |->
                      IF msgs[i].id = id THEN [msgs[i] EXCEPT !.body = body] ELSE msgs[i]]

\* The stream yields its last event; what its session has not committed is lost.
End(s, event) ==
  Set(s, [Idle EXCEPT !.pc = "ended", !.events = Append(st[s].events, event)])

LastUser == LET us == {id \in Ids : \E i \in DOMAIN msgs : msgs[i] = Row(id, "user", "full", 0)}
            IN IF us = {} THEN 0 ELSE CHOOSE id \in us : \A u \in us : u <= id

\* Rows another session has updated and not committed.
Locked(id) == \E s \in Stream : st[s].dirty = id /\ st[s].pc \in {"loading", "placing"}

(* The routes *)

Over(s) == st[s].pc \in {"free", "ended", "cancelled"}
Request(s, op) ==
  /\ op \in Ops /\ Over(s) /\ there
  /\ "overlap" \in faults \/ \A r \in Stream : Over(r)
  /\ requests < MaxRequests
  /\ requests' = requests + 1
  /\ UNCHANGED <<there, msgs, next, faults>>

Send(s) ==
  /\ Request(s, "send")
  /\ Set(s, [Idle EXCEPT !.pc = "starting", !.op = "send"])

Regenerate(s) ==
  /\ Request(s, "regenerate") /\ LastUser # 0
  /\ Set(s, [Idle EXCEPT !.pc = "deleting", !.op = "regenerate", !.target = LastUser])

Edit(s, id) ==
  /\ Request(s, "edit")
  /\ Row(id, "user", "full", 0) \in ToSet(msgs)
  /\ Set(s, [Idle EXCEPT !.pc = "deleting", !.op = "edit", !.target = id])

\* The rows after the target go; those that stay are the first ones.
DeleteFrom(s) ==
  /\ st[s].pc = "deleting"
  /\ \A id \in Ids : id > st[s].target => ~Locked(id)
  /\ msgs' = SubSeq(msgs, 1, Cardinality({i \in DOMAIN msgs : msgs[i].id <= st[s].target}))
  /\ Set(s, [st[s] EXCEPT !.pc = "starting"])
  /\ UNCHANGED <<there, next, requests, faults>>

\* The stream inserts the message it replies to, or (skip_user_insert) looks for the last one.
Start(s) ==
  /\ st[s].pc = "starting"
  /\ \/ /\ st[s].op = "send" /\ there
        /\ Insert("user", "full")
        /\ Set(s, [st[s] EXCEPT !.pc = "picking", !.parent = next])
     \/ /\ st[s].op # "send" /\ LastUser # 0
        /\ Set(s, [st[s] EXCEPT !.pc = "picking", !.parent = LastUser])
        /\ UNCHANGED <<msgs, next>>
     \/ /\ IF st[s].op = "send" THEN ~there ELSE LastUser = 0
        /\ End(s, "error")
        /\ UNCHANGED <<msgs, next>>
  /\ UNCHANGED <<there, requests, faults>>

(* One iteration of the loop *)

\* Mutant: the stream goes on after it has reported that no node is left.
MutPick(s) ==
  /\ st[s].pc = "picking" /\ st[s].iter < MaxIter
  /\ \/ \E n \in Node \ st[s].excluded :
           Set(s, [st[s] EXCEPT !.pc = "loading", !.node = n, !.iter = @ + 1])
     \/ Set(s, [st[s] EXCEPT !.iter = @ + 1, !.events = Append(@, "error")])
  /\ UNCHANGED <<there, msgs, next, requests, faults>>

\* The select of pick_node flushes the part of an answer that a broken stream
\* left in the session, which fails if its row is gone.
Pick(s) ==
  /\ st[s].pc = "picking"
  /\ \/ /\ st[s].iter = MaxIter
        /\ End(s, "too many iterations")
     \/ /\ st[s].iter < MaxIter
        /\ st[s].dirty \in Ids \cup {0}
        /\ \E n \in Node \ st[s].excluded :
             Set(s, [st[s] EXCEPT !.pc = "loading", !.node = n, !.iter = @ + 1, !.target = 0])
     \/ /\ st[s].iter < MaxIter
        /\ End(s, "error")
  /\ UNCHANGED <<there, msgs, next, requests, faults>>

\* What an iteration leaves to the next.
Rest(r) == [r EXCEPT !.node = NoNode, !.msg = 0, !.got = FALSE, !.prompt = "none"]
Exclude(r) == [Rest(r) EXCEPT !.pc = "picking", !.excluded = @ \cup {r.node}]

\* ensure_model_loaded, when the node does not serve the model yet; an error of
\* the agent that is none of the three it names ends the stream.
Load(s) ==
  /\ st[s].pc = "loading"
  /\ \/ Set(s, [st[s] EXCEPT !.pc = "placing"])
     \/ "unloadable" \in faults /\ (Set(s, Exclude(st[s])) \/ End(s, "error"))
  /\ UNCHANGED <<there, msgs, next, requests, faults>>

\* Mutant: nothing keeps an answer from being placed under a deleted message.
MutPlace(s) ==
  /\ st[s].pc = "placing"
  /\ msgs' = Append(Write(st[s].dirty, "part"), Row(next, "assistant", "", st[s].parent))
  /\ next' = next + 1
  /\ Set(s, [st[s] EXCEPT !.pc = "building", !.msg = next, !.dirty = 0])
  /\ UNCHANGED <<there, requests, faults>>

\* The commit that inserts the empty answer also writes what was flushed; the
\* message it answers must still be there.
Place(s) ==
  /\ st[s].pc = "placing"
  /\ \/ /\ st[s].parent \in Ids
        /\ msgs' = Append(Write(st[s].dirty, "part"), Row(next, "assistant", "", st[s].parent))
        /\ next' = next + 1
        /\ Set(s, [st[s] EXCEPT !.pc = "building", !.msg = next, !.dirty = 0])
     \/ /\ st[s].parent \notin Ids
        /\ End(s, "error")
        /\ UNCHANGED <<msgs, next>>
  /\ UNCHANGED <<there, requests, faults>>

Blank(m) == m.role = "assistant" /\ m.body = ""

\* The rows that build_messages keeps: its loop drops the empty answers at the
\* end.
History ==
  LET kept == {i \in DOMAIN msgs : \E j \in i..Len(msgs) : ~Blank(msgs[j])}
  IN SubSeq(msgs, 1, Cardinality(kept))

Build(s) ==
  /\ st[s].pc = "building"
  /\ Set(s, [st[s] EXCEPT !.pc = "streaming", !.got = FALSE,
       !.prompt = IF History = << >> THEN "none" ELSE Last(History).role])
  /\ UNCHANGED <<there, msgs, next, requests, faults>>

Token(s) ==
  /\ st[s].pc = "streaming" /\ ~st[s].got
  /\ Set(s, [st[s] EXCEPT !.got = TRUE])
  /\ UNCHANGED <<there, msgs, next, requests, faults>>

\* The stream is exhausted and the answer committed, unless its row is gone.
Answer(s) ==
  /\ st[s].pc = "streaming"
  /\ \/ /\ st[s].msg \in Ids
        /\ msgs' = IF st[s].got THEN Write(st[s].msg, "full") ELSE msgs
        /\ End(s, "done")
     \/ /\ st[s].msg \in Ids
        /\ \E n \in 1..MaxCalls :
             Set(s, [Rest(st[s]) EXCEPT !.pc = "working", !.calls = n])
        /\ msgs' = Write(st[s].msg, "calls")
     \/ /\ st[s].msg \notin Ids
        /\ End(s, "error")
        /\ UNCHANGED msgs
  /\ UNCHANGED <<there, next, requests, faults>>

\* OllamaError, before the first token or after it.
Fail(s) ==
  /\ st[s].pc = "streaming"
  /\ IF st[s].got THEN "broken" \in faults ELSE "refused" \in faults
  /\ Set(s, [Exclude(st[s]) EXCEPT !.dirty = IF st[s].got THEN st[s].msg ELSE 0])
  /\ UNCHANGED <<there, msgs, next, requests, faults>>

\* The client leaves: a stream that waits for a token saves what it has.
Cancel(s) ==
  /\ "cancel" \in faults
  /\ st[s].pc \in {"picking", "loading", "placing", "building", "streaming", "working"}
  /\ msgs' = IF st[s].pc = "streaming" /\ st[s].got THEN Write(st[s].msg, "part") ELSE msgs
  /\ Set(s, [Idle EXCEPT !.pc = "cancelled"])
  /\ UNCHANGED <<there, next, requests, faults>>

\* The result of one tool call; the next answer is a reply to it.
ToolResult(s) ==
  /\ st[s].pc = "working"
  /\ \/ /\ there /\ Insert("tool", "full")
        /\ Set(s, [st[s] EXCEPT !.calls = @ - 1, !.parent = next,
                                !.pc = IF st[s].calls = 1 THEN "picking" ELSE "working"])
     \/ /\ ~there /\ End(s, "error")
        /\ UNCHANGED <<msgs, next>>
  /\ UNCHANGED <<there, requests, faults>>

\* The messages go with their conversation, once nobody holds one of them.
DeleteChat ==
  /\ "delete" \in faults /\ there
  /\ \A id \in Ids : ~Locked(id)
  /\ there' = FALSE /\ msgs' = << >>
  /\ UNCHANGED <<next, st, requests, faults>>

-----------------------------------------------------------------------------

Route(s) == Send(s) \/ Regenerate(s) \/ (\E id \in Ids : Edit(s, id))
Step(s) == \/ DeleteFrom(s) \/ Start(s) \/ Pick(s) \/ Load(s) \/ Place(s) \/ Build(s)
           \/ Token(s) \/ Answer(s) \/ Fail(s) \/ ToolResult(s)

Next == (\E s \in Stream : Route(s) \/ Step(s) \/ Cancel(s)) \/ DeleteChat
Spec == Init /\ [][Next]_vars

-----------------------------------------------------------------------------

\* A stream that was not cut short ends with one "done" or one "error", which
\* is the last thing the client hears of it.
OneEnding == \A s \in Stream : Len(st[s].events) = IF st[s].pc = "ended" THEN 1 ELSE 0

\* context.py, comment of build_messages: llama-server refuses a prompt whose
\* last message is the assistant's, so none is sent, however many nodes refused and
\* answers were stopped, regenerated or edited before it.  It takes replies that do
\* not overlap, streams that do not break once they have begun, and a conversation.
PromptEndsOpen ==
  faults \cap {"overlap", "broken", "delete"} = {} =>
    \A s \in Stream : st[s].pc = "streaming" => st[s].prompt \in {"user", "tool"}

\* As long as replies do not overlap, a result always follows the tool calls it
\* answers in the history, other results of the same answer between them at most.
ResultsFollowCalls ==
  "overlap" \notin faults =>
    \A i \in DOMAIN msgs :
      msgs[i].role = "tool" =>
        i > 1 /\ (msgs[i - 1].role = "tool" \/ msgs[i - 1].body = "calls")

\* No answer outlives the message it answers, whatever is regenerated, edited or
\* deleted while other streams go on.
AnswersHaveQuestions ==
  \A i \in DOMAIN msgs : msgs[i].parent \in Ids \cup {0}

(***************************************************************************)
(* The rows and the prompts of a conversation: no answer outlives its      *)
(* question, every prompt ends with the user or a tool, and results follow *)
(* their calls (stream_assistant_reply and build_messages).                *)
(***************************************************************************)
HistoryIsSound == AnswersHaveQuestions /\ PromptEndsOpen /\ ResultsFollowCalls

\* Every reply ends, whatever fails: nodes are tried once and turns are counted.
StreamsAtRest == \A s \in Stream : Over(s)
StreamsEnd == []<>StreamsAtRest

=============================================================================
