----------------------------- MODULE TokenStream -----------------------------
(***************************************************************************)
(* One answer of a model between llama-server and the chat loop:           *)
(* chat_stream reads the chunks of /v1/chat/completions, _normalize_chunk  *)
(* puts the pieces of the tool calls together, the loop takes what it      *)
(* yields, and salvages calls that the model wrote into its text.          *)
(*                                                                         *)
(* The answer is a script of pieces; a chunk holds the next few of them,   *)
(* wherever the server cuts.  A piece belongs to a call of the structured  *)
(* channel, to a call written as text, or to no call.  The model was       *)
(* offered its tools: without them nothing is salvaged.                    *)
(***************************************************************************)
EXTENDS Naturals, Sequences, FiniteSets, SequencesExt

CONSTANTS
  Script,    \* the answers of the model
  MaxPieces  \* bound: pieces of one chunk

PieceKind == {"text", "written", "name", "args"}
Piece == [kind : PieceKind, call : Nat]

\* A piece of text belongs to no call, and a call is structured or written.
Sorted(s) ==
  /\ \A i \in DOMAIN s : s[i].kind = "text" <=> s[i].call = 0
  /\ \A i, j \in DOMAIN s :
       s[i].call = s[j].call => (s[i].kind = "written" <=> s[j].kind = "written")

ASSUME ScriptAssumption ==
  /\ \A s \in Script : s \in Seq(Piece) /\ Sorted(s)
  /\ MaxPieces \in Nat \ {0}

VARIABLES
  script, sent,  \* the answer, and how many of its pieces were sent
  server,        \* what the server does next
  acc,           \* accumulated_tool_calls: the pieces of each index
  taken,         \* tool_calls_out
  content,       \* accumulated, then the content of the message
  counters,      \* what the message knows of usage and finish_reason
  reply          \* the loop: reading, answered, failed

streamVars == <<script, sent, server, acc, taken, content, counters, reply>>

Structured == {"name", "args"}
CallsIn(pieces, kinds) == {pieces[i].call : i \in {j \in DOMAIN pieces : pieces[j].kind \in kinds}}
Finish == {"tool_calls", "stop", "length"}

StreamTypeOK ==
  /\ script \in Script /\ sent \in 0 .. Len(script)
  /\ server \in {"sending", "finished", "counted", "closed"}
  /\ DOMAIN acc \subseteq CallsIn(script, Structured) /\ \A i \in DOMAIN acc : acc[i] \in Seq(Piece)
  /\ taken \in Seq([call : Nat, whole : BOOLEAN])
  /\ content \in Seq(Piece)
  /\ counters \in [usage : BOOLEAN, finish : Finish \cup {"none"}]
  /\ reply \in {"reading", "answered", "failed"}

StreamInit ==
  /\ script \in Script /\ sent = 0 /\ server = "sending"
  /\ acc = << >> /\ taken = << >> /\ content = << >>
  /\ counters = [usage |-> FALSE, finish |-> "none"]
  /\ reply = "reading"

Only(pieces, kept) ==
  FlattenSeq([i \in 1 .. Len(pieces) |-> IF pieces[i] \in kept THEN << pieces[i] >> ELSE << >>])
PiecesOf(pieces, kinds, c) == Only(pieces, [kind : kinds, call : {c}])
Shown == [kind : {"text", "written"}, call : Nat]

\* The pieces of an answer that belong to a call: its JSON parses when all of them are there.
Whole(pieces, kinds, c) == PiecesOf(pieces, kinds, c) = PiecesOf(script, kinds, c)

\* Each piece goes to the entry of its index.
Accumulate(pieces) ==
  [c \in DOMAIN acc \cup CallsIn(pieces, Structured) |->
     (IF c \in DOMAIN acc THEN acc[c] ELSE << >>) \o PiecesOf(pieces, Structured, c)]

Ascending(calls) ==
  CHOOSE s \in [1 .. Cardinality(calls) -> calls] :
    /\ \A c \in calls : \E i \in DOMAIN s : s[i] = c
    /\ \A i, j \in DOMAIN s : i < j => s[i] < s[j]

\* The calls of a chunk with a finish_reason, in the order of the indices; a call
\* with broken arguments is still a call.
Calls(entries, finish) ==
  IF finish \in {"tool_calls", "stop"}
  THEN LET order == Ascending(DOMAIN entries) IN
       [i \in DOMAIN order |->
          [call |-> order[i], whole |-> Whole(entries[order[i]], Structured, order[i])]]
  ELSE << >>

\* Mutant: the calls are taken before the pieces of their chunk.
MutNormalize(pieces, finish) ==
  /\ acc' = Accumulate(pieces)
  /\ taken' = taken \o Calls(acc, finish)
  /\ content' = content \o Only(pieces, Shown)
  /\ counters' = [counters EXCEPT !.finish = IF finish = "none" THEN @ ELSE finish]

\* _normalize_chunk of a chunk with a choice, and what the loop takes of it.
Normalize(pieces, finish) ==
  /\ acc' = Accumulate(pieces)
  /\ taken' = taken \o Calls(acc', finish)
  /\ content' = content \o Only(pieces, Shown)
  /\ counters' = [counters EXCEPT !.finish = IF finish = "none" THEN @ ELSE finish]

Reading == reply = "reading"

\* A chunk with the next pieces, and with the finish_reason when it is the last.
Chunk ==
  /\ Reading /\ server = "sending"
  /\ \E n \in 0 .. MaxPieces, finish \in Finish \cup {"none"} :
       /\ sent + n <= Len(script) /\ (n > 0 \/ finish # "none")
       /\ finish \in {"tool_calls", "stop"} => sent + n = Len(script)
       /\ sent' = sent + n
       /\ server' = IF finish = "none" THEN server ELSE "finished"
       /\ Normalize(SubSeq(script, sent + 1, sent + n), finish)
  /\ UNCHANGED <<script, reply>>

\* The chunk of include_usage: no choice, the counters only; it says done once more.
Usage ==
  /\ Reading /\ server = "finished" /\ server' = "counted"
  /\ counters' = [counters EXCEPT !.usage = TRUE]
  /\ UNCHANGED <<script, sent, acc, taken, content, reply>>

\* The text calls of the answer that stand in it whole: the others are left in the text.
WrittenCalls ==
  {c \in CallsIn(content, {"written"}) : Whole(content, {"written"}, c)}

\* [DONE], or the end of the body: the loop salvages when it has no call, and gives the
\* counters that are missing a value of its own.
Exhausted ==
  /\ Reading /\ server' = "closed"
  /\ reply' = "answered"
  /\ LET order == Ascending(WrittenCalls) IN
     IF taken = << >> /\ WrittenCalls # {}
     THEN /\ taken' = [i \in DOMAIN order |-> [call |-> order[i], whole |-> TRUE]]
          /\ content' = Only(content, [kind : PieceKind, call : Nat \ WrittenCalls])
     ELSE UNCHANGED <<taken, content>>
  /\ counters' = [counters EXCEPT !.finish = IF @ = "none" THEN "stop" ELSE @]
  /\ UNCHANGED <<script, sent, acc>>

\* httpx.HTTPError becomes a LlamaError, and the loop tries another node with nothing
\* of this answer.
Broken ==
  /\ Reading /\ server' = "closed"
  /\ reply' = "failed"
  /\ UNCHANGED <<script, sent, acc, taken, content, counters>>

StreamNext == Chunk \/ Usage \/ Exhausted \/ Broken

StreamSpec == StreamInit /\ [][StreamNext]_streamVars

-----------------------------------------------------------------------------

\* However the server cuts the answer into chunks, sends the finish_reason with the
\* last pieces or alone, counts or does not, and stops: the loop runs each call of
\* the model at most once, in order and with all of its arguments; it runs all
\* of them when the model finished, the written ones only when none is structured;
\* and a call it runs is not shown as text.
CallsAreWhole ==
  reply = "answered" =>
    /\ \A i, j \in DOMAIN taken : i < j => taken[i].call < taken[j].call
    /\ \A i \in DOMAIN taken : taken[i].whole
    /\ counters.finish \in {"tool_calls", "stop"} /\ sent = Len(script) /\ counters.usage =>
         {taken[i].call : i \in DOMAIN taken} =
           IF CallsIn(script, Structured) # {} THEN CallsIn(script, Structured) ELSE CallsIn(script, {"written"})
    /\ \A i \in DOMAIN taken, j \in DOMAIN content : content[j].call # taken[i].call

=============================================================================
