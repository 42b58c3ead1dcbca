------------------------------ MODULE EventHub -------------------------------
(***************************************************************************)
(* The realtime events: publish() with its retries, the channels of Redis, *)
(* and the streams that subscribe to them and send what they get to a      *)
(* browser, a desktop application or a connector.  Nothing is stored: what *)
(* is published while a stream is down is lost.                            *)
(***************************************************************************)
EXTENDS Naturals, Sequences, SequencesExt

CONSTANTS
  Publisher, Subscriber,
  Attempts,    \* of publish(): 3
  MaxPublished    \* bound: events of each publisher

ASSUME HubAssumption == Attempts \in Nat \ {0} /\ MaxPublished \in Nat

VARIABLES
  pub,     \* what each publisher is at: its n-th event, after so many attempts
  queued,  \* the events whose publish() answered True
  stream   \* the streams: how far, what Redis has for them, what they sent on
hubVars == <<pub, queued, stream>>

Event == Publisher \X (1 .. MaxPublished)
Down == [pc |-> "down", since |-> [p \in Publisher |-> 1], inbox |-> << >>, got |-> << >>]

HubTypeOK ==
  /\ pub \in [Publisher -> [n : 1 .. MaxPublished + 1, tried : 0 .. Attempts - 1]]
  /\ queued \subseteq Event
  /\ \A s \in Subscriber :
       /\ stream[s].pc \in {"down", "hello", "up"}
       /\ {stream[s].inbox, stream[s].got} \subseteq Seq(Event)

HubInit ==
  /\ pub = [p \in Publisher |-> [n |-> 1, tried |-> 0]]
  /\ queued = {}
  /\ stream = [s \in Subscriber |-> Down]

\* Mutant: the event is tried once more than it may be.
MutPublish(p) ==
  LET n == pub[p].n IN
  /\ n <= MaxPublished
  /\ \E reached, answered \in BOOLEAN :
       /\ answered => reached
       /\ stream' = [s \in Subscriber |->
            IF reached /\ stream[s].pc = "up"
            THEN [stream[s] EXCEPT !.inbox = Append(@, <<p, n>>)] ELSE stream[s]]
       /\ queued' = IF answered THEN queued \cup {<<p, n>>} ELSE queued
       /\ pub' = [pub EXCEPT ![p] =
            IF answered \/ @.tried = Attempts THEN [n |-> n + 1, tried |-> 0]
            ELSE [n |-> n, tried |-> @.tried + 1]]

\* One attempt: Redis takes the event or not, and its answer may be lost; the next event
\* waits for the end of the attempts.
Publish(p) ==
  LET n == pub[p].n IN
  /\ n <= MaxPublished
  /\ \E reached, answered \in BOOLEAN :
       /\ answered => reached
       /\ stream' = [s \in Subscriber |->
            IF reached /\ stream[s].pc = "up"
            THEN [stream[s] EXCEPT !.inbox = Append(@, <<p, n>>)] ELSE stream[s]]
       /\ queued' = IF answered THEN queued \cup {<<p, n>>} ELSE queued
       /\ pub' = [pub EXCEPT ![p] =
            IF answered \/ @.tried + 1 = Attempts THEN [n |-> n + 1, tried |-> 0]
            ELSE [n |-> n, tried |-> @.tried + 1]]

\* A client connects, and is greeted before the subscription.
OpenStream(s) ==
  /\ stream[s].pc = "down"
  /\ stream' = [stream EXCEPT ![s] = [Down EXCEPT !.pc = "hello"]]
  /\ UNCHANGED <<pub, queued>>
SubscribeTo(s) ==
  /\ stream[s].pc = "hello"
  /\ stream' = [stream EXCEPT ![s] =
       [Down EXCEPT !.pc = "up", !.since = [p \in Publisher |-> pub[p].n]]]
  /\ UNCHANGED <<pub, queued>>

SendOn(s) ==
  /\ stream[s].inbox # << >>
  /\ stream' = [stream EXCEPT ![s] =
       [pc |-> @.pc, since |-> @.since, inbox |-> Tail(@.inbox), got |-> Append(@.got, Head(@.inbox))]]
  /\ UNCHANGED <<pub, queued>>

\* The client leaves, a send fails, or Redis closes the subscription.
BreakOff(s) ==
  /\ stream[s].pc # "down"
  /\ stream' = [stream EXCEPT ![s] = Down]
  /\ UNCHANGED <<pub, queued>>

HubNext ==
  \/ \E p \in Publisher : Publish(p)
  \/ \E s \in Subscriber : OpenStream(s) \/ SubscribeTo(s) \/ SendOn(s) \/ BreakOff(s)

HubSpec == HubInit /\ [][HubNext]_hubVars

-----------------------------------------------------------------------------

NumbersFrom(p, events) ==
  FlattenSeq([i \in 1 .. Len(events) |-> IF events[i][1] = p THEN <<events[i][2]>> ELSE << >>])

\* What a stream sends on, while it is up, has the events of each publisher in order, none
\* missing that publish() reported as queued, none more often than it is
\* tried; only an event whose answer was lost comes again, and right after itself.
EventsInOrder ==
  \A s \in Subscriber : stream[s].pc = "up" => \A p \in Publisher :
    LET numbers == NumbersFrom(p, stream[s].got \o stream[s].inbox) IN
    /\ \A i, j \in DOMAIN numbers : i < j => numbers[i] <= numbers[j]
    /\ \A n \in stream[s].since[p] .. MaxPublished : <<p, n>> \in queued => n \in ToSet(numbers)
    /\ \A i \in DOMAIN numbers : i + Attempts \in DOMAIN numbers => numbers[i + Attempts] # numbers[i]

=============================================================================
