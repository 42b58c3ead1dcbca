----------------------------- MODULE DiscordBot ------------------------------
(***************************************************************************)
(* The commands of the backend in the Discord connector: each that its     *)
(* socket brings is a task of its own, which looks for the channel, cuts   *)
(* the text at the limit of Discord and posts the pieces one by one.       *)
(* A text is a sequence of lines and characters: "n" is the end of a line. *)
(***************************************************************************)
EXTENDS Integers, Sequences, SequencesExt, FiniteSetsExt, EventHub

CONSTANTS
  Command,  \* the commands of a behaviour
  Body,     \* their texts
  Limit     \* DISCORD_LIMIT

ASSUME BodyAssumption ==
  Body \subseteq Seq({"n", "c"}) /\ << >> \notin Body /\ Limit \in Nat \ {0, 1}

VARIABLES
  online,   \* is the socket to the backend open?
  command,  \* how far each command is
  posted    \* what Discord shows, in order

discordVars == <<online, command, posted>>

NotSent == [pc |-> "none", body |-> << >>, sent |-> 0]

DiscordTypeOK ==
  /\ online \in BOOLEAN
  /\ command \in [Command -> [pc : {"none", "lost", "resolving", "posting", "done", "failed"},
                              body : Body \cup {<< >>}, sent : Nat]]
  /\ \A i \in DOMAIN posted : posted[i].command \in Command

DiscordInit == online = FALSE /\ command = [k \in Command |-> NotSent] /\ posted = << >>

\* The last end of a line in reach, unless it is in the first half of the piece.
Cut(text) ==
  LET ends == {k \in 0 .. Limit - 1 : text[k + 1] = "n"}
      cut == Max(ends \cup {-1}) IN
  IF cut < Limit \div 2 THEN Limit ELSE cut

\* Mutant: the character at the cut is taken for the end of a line, and left out.
MutSplitMessage(body) ==
  LET pieces[from \in 0 .. Len(body)] ==
        LET rest == SubSeq(body, from + 1, Len(body)) IN
        IF Len(rest) <= Limit THEN (IF rest = << >> THEN << >> ELSE << rest >>)
        ELSE << SubSeq(rest, 1, Cut(rest)) >> \o pieces[from + Cut(rest) + 1] IN
  pieces[0]

\* _split_message
SplitMessage(body) ==
  LET pieces[from \in 0 .. Len(body)] ==
        LET rest == SubSeq(body, from + 1, Len(body)) IN
        IF Len(rest) <= Limit THEN (IF rest = << >> THEN << >> ELSE << rest >>)
        ELSE << SubSeq(rest, 1, Cut(rest)) >> \o pieces[from + Cut(rest)] IN
  pieces[0]

\* _ws_loop: connected, or waiting five seconds for the next attempt; the tasks go on.
SocketOpens == ~online /\ online' = TRUE /\ UNCHANGED <<command, posted>>
SocketCloses == online /\ online' = FALSE /\ UNCHANGED <<command, posted>>

\* A command is published to the sockets there are, or to none.
Receive(k) ==
  /\ command[k].pc = "none"
  /\ \E body \in Body :
       command' = [command EXCEPT ![k] =
         [pc |-> IF online THEN "resolving" ELSE "lost", body |-> body, sent |-> 0]]
  /\ UNCHANGED <<online, posted>>

\* _resolve_channel: in the cache of the client, fetched, or not found; then the message
\* that is replied to, or none.
Resolve(k) ==
  /\ command[k].pc = "resolving"
  /\ \E found \in BOOLEAN :
       command' = [command EXCEPT ![k] = [@ EXCEPT !.pc = IF found THEN "posting" ELSE "failed"]]
  /\ UNCHANGED <<online, posted>>

\* channel.send of the next piece; a failure leaves the rest unsent.
PostPiece(k) ==
  /\ command[k].pc = "posting"
  /\ LET pieces == SplitMessage(command[k].body)
         n == command[k].sent + 1 IN
     \/ /\ posted' = Append(posted, [command |-> k, text |-> pieces[n]])
        /\ command' = [command EXCEPT ![k] =
             [@ EXCEPT !.sent = n, !.pc = IF n = Len(pieces) THEN "done" ELSE "posting"]]
     \/ command' = [command EXCEPT ![k] = [@ EXCEPT !.pc = "failed"]] /\ UNCHANGED posted
  /\ UNCHANGED online

DiscordNext ==
  \/ SocketOpens \/ SocketCloses
  \/ \E k \in Command : Receive(k) \/ Resolve(k) \/ PostPiece(k)

DiscordSpec == DiscordInit /\ [][DiscordNext]_discordVars

-----------------------------------------------------------------------------

PostedOf(k) ==
  FlattenSeq([i \in 1 .. Len(posted) |->
    IF posted[i].command = k THEN <<posted[i].text>> ELSE << >>])

\* What Discord shows of a command, whatever other tasks post in between: pieces that Discord
\* accepts, which put together begin its text, and are all of it when the task is done.
PostedAsWritten ==
  \A k \in Command :
    /\ \A i \in DOMAIN PostedOf(k) : Len(PostedOf(k)[i]) \in 1 .. Limit
    /\ IsPrefix(FlattenSeq(PostedOf(k)), command[k].body)
    /\ command[k].pc = "done" => FlattenSeq(PostedOf(k)) = command[k].body

\* From publish() to the socket, and from the socket to Discord: nothing is lost, repeated or
\* disordered on the way of an event that has come.
DeliveredAsWritten == EventsInOrder /\ PostedAsWritten

\* A command that the bot received is posted or fails: again and again none is under way.
CommandsEnd == []<>(\A k \in Command : command[k].pc \notin {"resolving", "posting"})

=============================================================================
