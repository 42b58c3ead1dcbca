----------------------------- MODULE ChatProofs ------------------------------
(***************************************************************************)
(* The promises of a chat, for any number of nodes, streams, turns, tool   *)
(* calls and requests.                                                     *)
(***************************************************************************)
EXTENDS ChatReply, TokenStream, ConversationNames, VoiceDialogue, SequenceFacts,
        FiniteSetTheorems, WellFoundedInduction, TLAPS

(***************************************************************************)
(* HistoryIsSound.  The rows have rising identifiers and an answer stands  *)
(* behind its question: that holds however streams overlap, as a           *)
(* transaction that deletes keeps the rows before one of them.             *)
(*                                                                         *)
(* What a prompt ends with and what results follow is known step by step   *)
(* of the one stream at work: what it has behind the message it answers,   *)
(* and that the row it will write was empty.                               *)
(***************************************************************************)

MsgRec == [id : Nat, role : Roles, body : Bodies, parent : Nat]
\* What a stream may yield last.
LastEvents == {"done", "error", "too many iterations"}
StreamRec ==
  [pc : PC, op : AllOps \cup {"none"}, target : Nat, parent : Nat, iter : 0 .. MaxIter,
   excluded : SUBSET Node, node : Node \cup {NoNode}, msg : Nat, dirty : Nat,
   got : BOOLEAN, calls : 0 .. MaxCalls, prompt : Roles \cup {"none"}, events : Seq(LastEvents)]

Empty == ""
OverPC == {"free", "ended", "cancelled"}

\* The rows m, below the next identifier n.
Rows(m, n) ==
  /\ m \in Seq(MsgRec)
  /\ \A i, j \in 1 .. Len(m) : i < j => m[i].id < m[j].id
  /\ \A i \in 1 .. Len(m) : 0 < m[i].id /\ m[i].id < n
  /\ \A i \in 1 .. Len(m) : m[i].parent = 0 \/ \E j \in 1 .. Len(m) : j < i /\ m[j].id = m[i].parent

\* What each stream is, whatever the others do.
Typed(r, n) ==
  /\ r.target <= n /\ r.parent <= n /\ r.msg <= n /\ r.dirty <= n
  /\ r.pc = "working" => r.calls # 0
  /\ r.pc \in {"loading", "placing", "building", "streaming"} => r.node \in Node
  /\ Len(r.events) = IF r.pc = "ended" THEN 1 ELSE 0

\* What the one stream at work knows of the rows it writes.
Calling(r, m, th) ==
  /\ r.pc \in {"building", "streaming", "working"} => r.dirty = 0
  /\ r.pc \notin OverPC => \A i \in 1 .. Len(m) : m[i].id = r.dirty => m[i].body # "calls"
  /\ r.pc \in {"building", "streaming"} =>
       /\ \A i \in 1 .. Len(m) : m[i].id = r.msg => m[i].body = Empty
       /\ m # << >> => m[Len(m)].id = r.msg
  /\ (r.pc = "working" /\ th) =>
       m # << >> /\ (m[Len(m)].role = "tool" \/ m[Len(m)].body = "calls")

\* Behind the last message that is not the assistant's, only answers that did not begin.
EndsOpen(m) ==
  \E k \in 1 .. Len(m) : m[k].role \in {"user", "tool"} /\ \A j \in 1 .. Len(m) : k < j => Blank(m[j])

\* What it knows of the end of the next prompt.
Prompting(r, m) ==
  /\ r.pc \notin OverPC => r.dirty = 0
  /\ r.pc \in {"picking", "loading", "placing", "building", "streaming"} => EndsOpen(m)
  /\ r.pc = "deleting" => \E k \in 1 .. Len(m) : m[k].id = r.target /\ m[k].role = "user"
  /\ (r.pc = "starting" /\ r.op # "send") => m # << >> /\ m[Len(m)].role = "user"
  /\ r.pc = "streaming" => r.prompt \in {"user", "tool"}

Followed(m) ==
  \A i \in 1 .. Len(m) : m[i].role = "tool" =>
    i > 1 /\ (m[i - 1].role = "tool" \/ m[i - 1].body = "calls")

Serial == "overlap" \notin faults
Unbroken == faults \cap {"overlap", "broken", "delete"} = {}

StreamOK(r, m, n, th) ==
  /\ Typed(r, n)
  /\ Serial => Calling(r, m, th)
  /\ Unbroken => Prompting(r, m)

ChatInv ==
  /\ there \in BOOLEAN /\ (~there => msgs = << >>)
  /\ Rows(msgs, next) /\ next \in Nat /\ 0 < next
  /\ requests \in 0 .. MaxRequests /\ faults \in FaultSets
  /\ st \in [Stream -> StreamRec]
  /\ \A s \in Stream : StreamOK(st[s], msgs, next, there)
  /\ Serial => Followed(msgs) /\ \A s, t \in Stream : s = t \/ Over(s) \/ Over(t)
  /\ Unbroken => there

-----------------------------------------------------------------------------

\* A set of natural numbers that is bounded has a greatest.
LEMMA GreatestNatural ==
  ASSUME NEW n \in Nat, NEW T \in SUBSET (0 .. n), T # {}
  PROVE  \E x \in T : \A y \in T : y <= x
<1> DEFINE D == {n - x : x \in T}
<1>0. \A x \in T : x \in Nat /\ n - x \in Nat
  OBVIOUS
<1>1. D \in SUBSET Nat /\ D # {}
  BY <1>0
<1>2. PICK d \in D : \A e \in D : d <= e
  BY <1>1, LeastNatural
<1>3. PICK x \in T : d = n - x
  BY <1>2
<1> SUFFICES ASSUME NEW y \in T
             PROVE  y <= x
  OBVIOUS
<1>4. d <= n - y
  BY <1>2
<1> QED
  BY <1>3, <1>4

\* The message that is answered again is there.
LEMMA LastUserIsThere ==
  ASSUME Rows(msgs, next), next \in Nat, LastUser # 0
  PROVE  \E i \in 1 .. Len(msgs) : msgs[i].id = LastUser /\ msgs[i].role = "user"
<1> DEFINE us == {id \in Ids : \E i \in DOMAIN msgs : msgs[i] = Row(id, "user", "full", 0)}
<1>0. DOMAIN msgs = 1 .. Len(msgs) /\ \A i \in 1 .. Len(msgs) : msgs[i] \in MsgRec
  BY DEF Rows
<1>1. us \in SUBSET (0 .. next)
  BY <1>0 DEF Rows, Ids, MsgRec
<1>2. us # {} /\ LastUser = CHOOSE id \in us : \A u \in us : u <= id
  BY DEF LastUser
<1>3. \E id \in us : \A u \in us : u <= id
  BY <1>1, <1>2, GreatestNatural
<1> HIDE DEF us
<1>4. LastUser \in us
  BY <1>2, <1>3
<1> QED
  BY <1>0, <1>4 DEF us, Row

\* Rows that are numbered from 1 to k.
LEMMA FirstOnes ==
  ASSUME NEW n \in Nat, NEW K \in SUBSET (1 .. n),
         \A i \in K : \A j \in 1 .. n : j < i => j \in K
  PROVE  Cardinality(K) \in 0 .. n /\ K = 1 .. Cardinality(K)
<1>1. CASE K = {}
  BY <1>1, FS_EmptySet
<1>2. CASE K # {}
  <2>0. K \in SUBSET (0 .. n)
    OBVIOUS
  <2>1. \E x \in K : \A y \in K : y <= x
    BY <1>2, <2>0, GreatestNatural
  <2>2. PICK k \in K : \A y \in K : y <= k
    BY <2>1
  <2>3. k \in 1 .. n /\ k \in Nat
    OBVIOUS
  <2>4. K \subseteq 1 .. k
    <3> SUFFICES ASSUME NEW y \in K
                 PROVE  y \in 1 .. k
      OBVIOUS
    <3>1. y \in 1 .. n /\ y <= k
      BY <2>2
    <3> QED
      BY <2>3, <3>1
  <2>5. 1 .. k \subseteq K
    <3> SUFFICES ASSUME NEW y \in 1 .. k
                 PROVE  y \in K
      OBVIOUS
    <3>1. y \in 1 .. n /\ (y < k \/ y = k)
      BY <2>3
    <3> QED
      BY <2>2, <3>1
  <2>6. Cardinality(1 .. k) = k
    BY <2>3, FS_Interval
  <2>7. K = 1 .. k
    BY <2>4, <2>5
  <2> QED
    BY <2>3, <2>6, <2>7
<1> QED
  BY <1>1, <1>2

\* What is behind a deletion: the rows up to the target.
LEMMA Shortened ==
  ASSUME NEW m, NEW n \in Nat, Rows(m, n), NEW t \in Nat
  PROVE  LET K == {i \in DOMAIN m : m[i].id <= t}
             k == Cardinality(K)
             p == SubSeq(m, 1, k) IN
         /\ k \in 0 .. Len(m) /\ Rows(p, n) /\ Len(p) = k
         /\ \A i \in 1 .. k : p[i] = m[i]
         /\ \A i \in 1 .. Len(m) : m[i].id <= t <=> i <= k
<1> DEFINE K == {i \in DOMAIN m : m[i].id <= t}
           k == Cardinality(K)
           p == SubSeq(m, 1, k)
<1>0. m \in Seq(MsgRec)
  BY DEF Rows
<1>1. DOMAIN m = 1 .. Len(m) /\ Len(m) \in Nat /\ \A i \in 1 .. Len(m) : m[i].id \in Nat
  <2>1. DOMAIN m = 1 .. Len(m) /\ Len(m) \in Nat /\ \A i \in 1 .. Len(m) : m[i] \in MsgRec
    BY <1>0
  <2>2. \A x \in MsgRec : x.id \in Nat
    BY DEF MsgRec
  <2> QED
    BY <2>1, <2>2
<1>2. k \in 0 .. Len(m) /\ K = 1 .. k
  <2>1. \A i \in K : \A j \in 1 .. Len(m) : j < i => j \in K
    BY <1>1 DEF Rows
  <2>2. K \in SUBSET (1 .. Len(m))
    BY <1>1
  <2> HIDE DEF K
  <2> QED
    BY <1>1, <2>1, <2>2, FirstOnes
<1>3. \A i \in 1 .. Len(m) : m[i].id <= t <=> i <= k
  BY <1>1, <1>2
<1> HIDE DEF K, k
<1>4. p \in Seq(MsgRec) /\ Len(p) = k /\ \A i \in 1 .. k : p[i] = m[i]
  BY <1>2 DEF Rows
<1> HIDE DEF p
<1>5. k \in Nat /\ k <= Len(m) /\ 1 .. k \subseteq 1 .. Len(m)
  BY <1>1, <1>2
<1>6. Rows(p, n)
  <2>1. \A i, j \in 1 .. k : i < j => p[i].id < p[j].id
    <3>1. \A i, j \in 1 .. k : i < j => m[i].id < m[j].id
      BY <1>5 DEF Rows
    <3> QED
      BY <1>4, <3>1
  <2>2. \A i \in 1 .. k : 0 < p[i].id /\ p[i].id < n
    BY <1>4, <1>5 DEF Rows
  <2>3. ASSUME NEW i \in 1 .. k
        PROVE  p[i].parent = 0 \/ \E j \in 1 .. k : j < i /\ p[j].id = p[i].parent
    <3>1. m[i].parent = 0 \/ \E j \in 1 .. Len(m) : j < i /\ m[j].id = m[i].parent
      BY <1>5 DEF Rows
    <3>2. \A j \in 1 .. Len(m) : j < i => j \in 1 .. k
      BY <1>1, <1>5
    <3> QED
      BY <1>4, <3>1, <3>2
  <2> QED
    BY <1>4, <2>1, <2>2, <2>3 DEF Rows
<1> QED
  BY <1>2, <1>3, <1>4, <1>6 DEF K, k, p

\* A row that is written keeps its place.
LEMMA Written ==
  ASSUME Rows(msgs, next), NEW id, NEW body \in Bodies
  PROVE  /\ Rows(Write(id, body), next) /\ Len(Write(id, body)) = Len(msgs)
         /\ \A i \in 1 .. Len(msgs) :
              /\ Write(id, body)[i].id = msgs[i].id /\ Write(id, body)[i].role = msgs[i].role
              /\ Write(id, body)[i].parent = msgs[i].parent
              /\ Write(id, body)[i].body = IF msgs[i].id = id THEN body ELSE msgs[i].body
<1> DEFINE w(i) == IF msgs[i].id = id THEN [msgs[i] EXCEPT !.body = body] ELSE msgs[i]
<1>1. DOMAIN msgs = 1 .. Len(msgs) /\ Len(msgs) \in Nat
      /\ \A i \in 1 .. Len(msgs) : msgs[i] \in MsgRec
  BY DEF Rows
<1>2. \A i \in 1 .. Len(msgs) :
        /\ w(i) \in MsgRec /\ w(i).id = msgs[i].id /\ w(i).role = msgs[i].role
        /\ w(i).parent = msgs[i].parent
        /\ w(i).body = IF msgs[i].id = id THEN body ELSE msgs[i].body
  BY <1>1 DEF MsgRec
<1>3. Write(id, body) = [i \in 1 .. Len(msgs) |-> w(i)]
  BY <1>1 DEF Write
<1> HIDE DEF w
<1>4. Write(id, body) \in Seq(MsgRec) /\ Len(Write(id, body)) = Len(msgs)
      /\ \A i \in 1 .. Len(msgs) : Write(id, body)[i] = w(i)
  BY <1>1, <1>2, <1>3
<1>5. Rows(Write(id, body), next)
  BY <1>1, <1>2, <1>4 DEF Rows
<1> QED
  BY <1>2, <1>4, <1>5

\* A row that is added comes last.
LEMMA Appended ==
  ASSUME NEW m, NEW n \in Nat, Rows(m, n), 0 < n, NEW x \in MsgRec, x.id = n,
         x.parent = 0 \/ \E j \in 1 .. Len(m) : m[j].id = x.parent
  PROVE  /\ Rows(Append(m, x), n + 1) /\ Len(Append(m, x)) = Len(m) + 1
         /\ \A i \in 1 .. Len(m) : Append(m, x)[i] = m[i]
         /\ Append(m, x)[Len(m) + 1] = x /\ Len(m) \in Nat
<1> DEFINE a == Append(m, x)
<1>0. m \in Seq(MsgRec)
  BY DEF Rows
<1>1. Len(m) \in Nat /\ \A i \in 1 .. Len(m) : m[i] \in MsgRec /\ m[i].id \in Nat
  <2>1. Len(m) \in Nat /\ \A i \in 1 .. Len(m) : m[i] \in MsgRec
    BY <1>0
  <2>2. \A y \in MsgRec : y.id \in Nat
    BY DEF MsgRec
  <2> QED
    BY <2>1, <2>2
<1>2. a \in Seq(MsgRec) /\ Len(a) = Len(m) + 1 /\ a[Len(m) + 1] = x
      /\ \A i \in 1 .. Len(m) : a[i] = m[i]
  BY DEF Rows
<1> HIDE DEF a
<1>3. \A i \in 1 .. Len(a) : i \in 1 .. Len(m) \/ i = Len(m) + 1
  BY <1>1, <1>2
<1>4. \A i \in 1 .. Len(a) : 0 < a[i].id /\ a[i].id < n + 1
  BY <1>1, <1>2, <1>3 DEF Rows
<1>5. \A i, j \in 1 .. Len(a) : i < j => a[i].id < a[j].id
  <2> SUFFICES ASSUME NEW i \in 1 .. Len(a), NEW j \in 1 .. Len(a), i < j
               PROVE  a[i].id < a[j].id
    OBVIOUS
  <2>1. i \in 1 .. Len(m)
    BY <1>1, <1>3
  <2>2. CASE j \in 1 .. Len(m)
    BY <1>2, <2>1, <2>2 DEF Rows
  <2>3. CASE j = Len(m) + 1
    BY <1>2, <2>1, <2>3 DEF Rows
  <2> QED
    BY <1>3, <2>2, <2>3
<1>6. \A i \in 1 .. Len(a) : a[i].parent = 0 \/ \E j \in 1 .. Len(a) : j < i /\ a[j].id = a[i].parent
  <2> SUFFICES ASSUME NEW i \in 1 .. Len(a), a[i].parent # 0
               PROVE  \E j \in 1 .. Len(a) : j < i /\ a[j].id = a[i].parent
    OBVIOUS
  <2>0. 1 .. Len(m) \subseteq 1 .. Len(a)
    BY <1>1, <1>2
  <2>1. CASE i \in 1 .. Len(m)
    <3>1. PICK j \in 1 .. Len(m) : j < i /\ m[j].id = m[i].parent
      BY <1>2, <2>1 DEF Rows
    <3> QED
      BY <1>2, <2>0, <2>1, <3>1
  <2>2. CASE i = Len(m) + 1
    <3>1. PICK j \in 1 .. Len(m) : m[j].id = x.parent
      BY <1>2, <2>2
    <3>2. j < i
      BY <1>1, <2>2
    <3> QED
      BY <1>2, <2>0, <2>2, <3>1, <3>2
  <2> QED
    BY <1>3, <2>1, <2>2
<1> QED
  BY <1>1, <1>2, <1>4, <1>5, <1>6 DEF Rows, a

\* A prompt whose rows end openly ends with the user or a tool.
LEMMA HistoryEndsOpen ==
  ASSUME Rows(msgs, next), EndsOpen(msgs)
  PROVE  History # << >> /\ Last(History).role \in {"user", "tool"}
<1> DEFINE kept == {i \in DOMAIN msgs : \E j \in i .. Len(msgs) : ~Blank(msgs[j])}
<1>1. DOMAIN msgs = 1 .. Len(msgs) /\ Len(msgs) \in Nat
  BY DEF Rows
<1>2. PICK k \in 1 .. Len(msgs) :
        msgs[k].role \in {"user", "tool"} /\ \A j \in 1 .. Len(msgs) : k < j => Blank(msgs[j])
  BY DEF EndsOpen
<1>3. ~Blank(msgs[k])
  BY <1>2 DEF Blank
<1>4. kept = 1 .. k
  <2>1. \A i \in 1 .. Len(msgs) : i <= k => i \in kept
    BY <1>1, <1>2, <1>3
  <2>2. \A i \in 1 .. Len(msgs) : i \in kept => i <= k
    BY <1>1, <1>2, <1>3
  <2>3. kept \subseteq 1 .. Len(msgs)
    BY <1>1
  <2> HIDE DEF kept
  <2>4. k \in Nat /\ k <= Len(msgs)
    BY <1>1
  <2>5. kept \subseteq 1 .. k
    <3> SUFFICES ASSUME NEW i \in kept
                 PROVE  i \in 1 .. k
      OBVIOUS
    <3>1. i \in 1 .. Len(msgs) /\ i <= k
      BY <2>2, <2>3
    <3> QED
      BY <1>1, <2>4, <3>1
  <2>6. 1 .. k \subseteq kept
    <3> SUFFICES ASSUME NEW i \in 1 .. k
                 PROVE  i \in kept
      OBVIOUS
    <3>1. i \in 1 .. Len(msgs) /\ i <= k
      BY <1>1, <2>4
    <3> QED
      BY <2>1, <3>1
  <2> QED
    BY <2>5, <2>6
<1>5. Cardinality(1 .. k) = k
  BY <1>2, FS_Interval
<1>6. History = SubSeq(msgs, 1, k)
  BY <1>4, <1>5 DEF History
<1>7. Len(History) = k /\ History \in Seq(MsgRec) /\ History[k] = msgs[k]
  BY <1>1, <1>2, <1>6 DEF Rows
<1> QED
  BY <1>2, <1>7 DEF Last

\* What build_messages returns is part of the rows.
LEMMA HistoryTypes ==
  ASSUME Rows(msgs, next)
  PROVE  History \in Seq(MsgRec)
<1> DEFINE kept == {i \in DOMAIN msgs : \E j \in i .. Len(msgs) : ~Blank(msgs[j])}
<1>1. msgs \in Seq(MsgRec)
  BY DEF Rows
<1>2. DOMAIN msgs = 1 .. Len(msgs) /\ Len(msgs) \in Nat
  BY <1>1
<1>3. kept \in SUBSET (1 .. Len(msgs))
  BY <1>2
<1>4. \A i \in kept : \A j \in 1 .. Len(msgs) : j < i => j \in kept
  <2> SUFFICES ASSUME NEW i \in kept, NEW j \in 1 .. Len(msgs), j < i
               PROVE  j \in kept
    OBVIOUS
  <2>1. PICK l \in i .. Len(msgs) : ~Blank(msgs[l])
    OBVIOUS
  <2>2. l \in j .. Len(msgs)
    BY <1>2
  <2> QED
    BY <1>2, <2>1, <2>2
<1> HIDE DEF kept
<1>5. Cardinality(kept) \in 0 .. Len(msgs)
  BY <1>2, <1>3, <1>4, FirstOnes
<1>6. SubSeq(msgs, 1, Cardinality(kept)) \in Seq(MsgRec)
  BY <1>1, <1>2, <1>5
<1> QED
  BY <1>6 DEF History, kept

-----------------------------------------------------------------------------

\* One stream goes on, with rows that keep their order.
LEMMA StepKeeps ==
  ASSUME ChatInv, NEW s \in Stream, NEW r \in StreamRec, Set(s, r),
         Rows(msgs', next'), next' \in Nat, next <= next',
         UNCHANGED <<there, faults>>, requests' \in 0 .. MaxRequests,
         ~there => msgs' = << >>,
         StreamOK(r, msgs', next', there),
         Serial => Followed(msgs') /\ (Over(s) => \A t \in Stream : Over(t))
  PROVE  ChatInv'
<1>1. st' \in [Stream -> StreamRec] /\ st'[s] = r /\ \A t \in Stream : t # s => st'[t] = st[t]
  BY DEF ChatInv, Set
<1>2. Serial => \A t \in Stream : t = s \/ Over(t)
  BY DEF ChatInv
<1>3. ASSUME NEW t \in Stream
      PROVE  StreamOK(st'[t], msgs', next', there)
  <2>1. CASE t = s
    BY <1>1, <2>1
  <2>2. CASE t # s
    <3>1. st'[t] = st[t] /\ st[t] \in StreamRec /\ StreamOK(st[t], msgs, next, there)
      BY <1>1, <2>2 DEF ChatInv
    <3>2. Typed(st[t], next')
      <4>1. Typed(st[t], next) /\ next \in Nat
        BY <3>1 DEF StreamOK, ChatInv
      <4>2. /\ st[t].target \in Nat /\ st[t].parent \in Nat
            /\ st[t].msg \in Nat /\ st[t].dirty \in Nat
        BY <3>1 DEF StreamRec
      <4> QED
        BY <4>1, <4>2 DEF Typed
    <3>3. Serial => st[t].pc \in OverPC
      BY <1>2, <2>2 DEF Over, OverPC
    <3>4. Serial => Calling(st[t], msgs', there)
      BY <3>3 DEF Calling, OverPC
    <3>5. Unbroken => Prompting(st[t], msgs')
      BY <3>3 DEF Prompting, OverPC, Unbroken, Serial
    <3> QED
      BY <3>1, <3>2, <3>4, <3>5 DEF StreamOK
  <2> QED
    BY <2>1, <2>2
<1>4. Serial => \A t, u \in Stream : t = u \/ Over(t)' \/ Over(u)'
  BY <1>1, <1>2 DEF Over
<1> QED
  BY <1>1, <1>3, <1>4 DEF ChatInv, Serial, Unbroken, StreamOK

\* A stream that has not begun.
LEMMA IdleTypes == Idle \in StreamRec
<1>1. << >> \in Seq(LastEvents)
  OBVIOUS
<1>2. /\ "free" \in PC /\ "none" \in AllOps \cup {"none"} /\ "none" \in Roles \cup {"none"}
      /\ 0 \in Nat /\ 0 \in 0 .. MaxIter /\ 0 \in 0 .. MaxCalls /\ {} \in SUBSET Node
      /\ NoNode \in Node \cup {NoNode} /\ FALSE \in BOOLEAN
  BY BoundAssumption DEF PC
<1> QED
  BY <1>1, <1>2 DEF Idle, StreamRec

\* A stream yields its last event.
LEMMA EndStep ==
  ASSUME ChatInv, NEW s \in Stream, NEW event \in LastEvents, End(s, event), ~Over(s),
         Rows(msgs', next), UNCHANGED <<there, next, faults, requests>>,
         ~there => msgs' = << >>, Serial => Followed(msgs')
  PROVE  ChatInv'
<1> DEFINE r == [Idle EXCEPT !.pc = "ended", !.events = Append(st[s].events, event)]
<1>1. st[s] \in StreamRec /\ Typed(st[s], next) /\ next \in Nat
  BY DEF ChatInv, StreamOK
<1>2. st[s].events \in Seq(LastEvents) /\ Len(st[s].events) = 0
  BY <1>1 DEF StreamRec, Typed, Over
<1>3. Append(st[s].events, event) \in Seq(LastEvents) /\ Len(Append(st[s].events, event)) = 1
  BY <1>2
<1>4. /\ r.pc = "ended" /\ r.target = 0 /\ r.parent = 0 /\ r.msg = 0 /\ r.dirty = 0
      /\ r.events = Append(st[s].events, event)
  BY DEF Idle
<1>5. r \in StreamRec
  <2>1. "ended" \in PC
    BY DEF PC
  <2>2. \A e \in Seq(LastEvents) : [Idle EXCEPT !.pc = "ended", !.events = e] \in StreamRec
    BY <2>1, IdleTypes DEF StreamRec
  <2> QED
    BY <1>3, <2>2
<1>6. Set(s, r)
  BY DEF End
<1> HIDE DEF r
<1>7. StreamOK(r, msgs', next', there)
  BY <1>1, <1>3, <1>4 DEF StreamOK, Typed, Calling, Prompting, OverPC
<1>8. requests' \in 0 .. MaxRequests
  BY DEF ChatInv
<1> QED
  BY <1>1, <1>5, <1>6, <1>7, <1>8, StepKeeps

-----------------------------------------------------------------------------

\* Nothing moves but one stream.
LEMMA StreamMoves ==
  ASSUME ChatInv, NEW s \in Stream, NEW r \in StreamRec, Set(s, r),
         UNCHANGED <<there, msgs, next, faults, requests>>, ~Over(s),
         StreamOK(r, msgs, next, there)
  PROVE  ChatInv'
<1>1. /\ Rows(msgs', next') /\ next' \in Nat /\ next <= next'
      /\ requests' \in 0 .. MaxRequests /\ (~there => msgs' = << >>)
      /\ (Serial => Followed(msgs')) /\ StreamOK(r, msgs', next', there)
  BY DEF ChatInv
<1> QED
  BY <1>1, StepKeeps

\* A request is taken.
LEMMA RequestStep ==
  ASSUME ChatInv, NEW s \in Stream, NEW op, Request(s, op), NEW r \in StreamRec, Set(s, r),
         StreamOK(r, msgs, next, there)
  PROVE  ChatInv'
<1>1. requests \in Nat /\ requests < MaxRequests /\ MaxRequests \in Nat
  BY BoundAssumption DEF ChatInv, Request
<1>2. requests' \in 0 .. MaxRequests
  BY <1>1 DEF Request
<1>0. UNCHANGED <<there, msgs, next, faults>>
  BY DEF Request
<1>3. /\ Rows(msgs', next') /\ next' \in Nat /\ next <= next' /\ (~there => msgs' = << >>)
      /\ (Serial => Followed(msgs')) /\ StreamOK(r, msgs', next', there)
      /\ UNCHANGED <<there, faults>>
  BY <1>0 DEF ChatInv
<1>4. Serial => \A t \in Stream : Over(t)
  BY DEF Request, Serial
<1> QED
  BY <1>2, <1>3, <1>4, StepKeeps

\* A stream ends and has written nothing.
LEMMA OnlyEnds ==
  ASSUME ChatInv, NEW s \in Stream, NEW event \in LastEvents, End(s, event), ~Over(s),
         UNCHANGED <<there, msgs, next, faults, requests>>
  PROVE  ChatInv'
<1>1. Rows(msgs', next) /\ (~there => msgs' = << >>) /\ (Serial => Followed(msgs'))
  BY DEF ChatInv
<1> QED
  BY <1>1, EndStep

\* Identifiers begin at 1.
LEMMA IdsArePositive ==
  ASSUME Rows(msgs, next), next \in Nat
  PROVE  /\ \A i \in 1 .. Len(msgs) : msgs[i].id # 0 /\ msgs[i].id \in Nat /\ msgs[i].id < next
         /\ DOMAIN msgs = 1 .. Len(msgs) /\ Len(msgs) \in Nat
         /\ Ids = {msgs[i].id : i \in 1 .. Len(msgs)} /\ msgs \in Seq(MsgRec)
<1>1. msgs \in Seq(MsgRec)
  BY DEF Rows
<1>2. DOMAIN msgs = 1 .. Len(msgs) /\ Len(msgs) \in Nat
      /\ \A i \in 1 .. Len(msgs) : msgs[i] \in MsgRec
  BY <1>1
<1>3. \A x \in MsgRec : x.id \in Nat
  BY DEF MsgRec
<1>4. \A i \in 1 .. Len(msgs) : msgs[i].id # 0 /\ msgs[i].id \in Nat /\ msgs[i].id < next
  BY <1>2, <1>3 DEF Rows
<1> QED
  BY <1>1, <1>2, <1>4 DEF Ids

\* What a request leaves to its stream.
LEMMA Fresh ==
  ASSUME ChatInv, NEW r \in StreamRec, r.pc \in {"starting", "deleting"}, r.target <= next,
         r.parent = 0, r.msg = 0, r.dirty = 0, r.events = << >>
  PROVE  Typed(r, next) /\ Calling(r, msgs, there)
<1>1. \A i \in 1 .. Len(msgs) : msgs[i].id # 0
  BY IdsArePositive DEF ChatInv
<1>2. Calling(r, msgs, there)
  BY <1>1 DEF Calling
<1>3. Typed(r, next)
  BY DEF Typed, ChatInv
<1> QED
  BY <1>2, <1>3

\* The route that sends.
LEMMA SendStep ==
  ASSUME ChatInv, NEW s \in Stream, Send(s)
  PROVE  ChatInv'
<1> DEFINE r == [Idle EXCEPT !.pc = "starting", !.op = "send"]
<1>1. Request(s, "send") /\ Set(s, r)
  BY DEF Send
<1>2. /\ r.pc = "starting" /\ r.op = "send" /\ r.target = 0 /\ r.parent = 0
      /\ r.msg = 0 /\ r.dirty = 0 /\ r.events = << >>
  BY DEF Idle
<1>3. r \in StreamRec
  BY IdleTypes DEF StreamRec, PC, AllOps
<1> HIDE DEF r
<1>4. StreamOK(r, msgs, next, there)
  <2>1. r.target <= next
    BY <1>2 DEF ChatInv
  <2>2. Typed(r, next) /\ Calling(r, msgs, there)
    BY <1>2, <1>3, <2>1, Fresh
  <2>3. Prompting(r, msgs)
    BY <1>2 DEF Prompting
  <2> QED
    BY <2>2, <2>3 DEF StreamOK
<1> QED
  BY <1>1, <1>3, <1>4, RequestStep

\* A deletion begins with a message of the user.
LEMMA DeletingBegins ==
  ASSUME ChatInv, NEW s \in Stream, NEW op \in {"regenerate", "edit"}, Request(s, op),
         NEW id, Set(s, [Idle EXCEPT !.pc = "deleting", !.op = op, !.target = id]),
         \E i \in 1 .. Len(msgs) : msgs[i].id = id /\ msgs[i].role = "user"
  PROVE  ChatInv'
<1> DEFINE r == [Idle EXCEPT !.pc = "deleting", !.op = op, !.target = id]
<1>1. Set(s, r)
  OBVIOUS
<1>2. /\ r.pc = "deleting" /\ r.op = op /\ r.target = id /\ r.parent = 0
      /\ r.msg = 0 /\ r.dirty = 0 /\ r.events = << >>
  BY DEF Idle
<1>3. id \in Nat /\ id < next /\ next \in Nat
  BY IdsArePositive DEF ChatInv
<1>4. r \in StreamRec
  BY <1>3, IdleTypes DEF StreamRec, PC, AllOps
<1> HIDE DEF r
<1>5. StreamOK(r, msgs, next, there)
  <2>1. r.target <= next
    BY <1>2, <1>3
  <2>2. Typed(r, next) /\ Calling(r, msgs, there)
    BY <1>2, <1>4, <2>1, Fresh
  <2>3. Prompting(r, msgs)
    BY <1>2 DEF Prompting
  <2> QED
    BY <2>2, <2>3 DEF StreamOK
<1> QED
  BY <1>1, <1>4, <1>5, RequestStep

\* The route that answers the last message again.
LEMMA RegenerateStep ==
  ASSUME ChatInv, NEW s \in Stream, Regenerate(s)
  PROVE  ChatInv'
<1>1. \E i \in 1 .. Len(msgs) : msgs[i].id = LastUser /\ msgs[i].role = "user"
  BY LastUserIsThere DEF ChatInv, Regenerate
<1> QED
  BY <1>1, DeletingBegins DEF Regenerate

\* The route that goes back to an earlier message.
LEMMA EditStep ==
  ASSUME ChatInv, NEW s \in Stream, NEW id \in Ids, Edit(s, id)
  PROVE  ChatInv'
<1>1. \E i \in 1 .. Len(msgs) : msgs[i].id = id /\ msgs[i].role = "user"
  BY IdsArePositive DEF ChatInv, Edit, ToSet, Row
<1> QED
  BY <1>1, DeletingBegins DEF Edit

\* The rows behind the target go.
LEMMA DeleteFromStep ==
  ASSUME ChatInv, NEW s \in Stream, DeleteFrom(s)
  PROVE  ChatInv'
<1> DEFINE K == {i \in DOMAIN msgs : msgs[i].id <= st[s].target}
           k == Cardinality(K)
           p == SubSeq(msgs, 1, k)
           r == [st[s] EXCEPT !.pc = "starting"]
<1>1. /\ st[s] \in StreamRec /\ st[s].target \in Nat /\ StreamOK(st[s], msgs, next, there)
      /\ st[s].pc = "deleting" /\ next \in Nat /\ Rows(msgs, next)
  BY DEF ChatInv, DeleteFrom, StreamRec
<1>2. msgs' = p /\ Set(s, r) /\ UNCHANGED <<there, next, requests, faults>>
  BY DEF DeleteFrom
<1>3. /\ k \in 0 .. Len(msgs) /\ Rows(p, next) /\ Len(p) = k /\ \A i \in 1 .. k : p[i] = msgs[i]
      /\ \A i \in 1 .. Len(msgs) : msgs[i].id <= st[s].target <=> i <= k
  BY <1>1, Shortened
<1>4. /\ r \in StreamRec /\ r.pc = "starting" /\ r.op = st[s].op /\ r.target = st[s].target
      /\ r.parent = st[s].parent /\ r.msg = st[s].msg /\ r.dirty = st[s].dirty
      /\ r.events = st[s].events
  BY <1>1 DEF StreamRec, PC
<1> HIDE DEF r, K, k, p
<1>5. 1 .. k \subseteq 1 .. Len(msgs) /\ k \in Nat /\ Len(msgs) \in Nat
  BY <1>1, <1>3, IdsArePositive
<1>6. Typed(r, next)
  BY <1>1, <1>4 DEF Typed, StreamOK
<1>7. Serial => Calling(r, p, there)
  BY <1>1, <1>3, <1>4, <1>5 DEF Calling, StreamOK, OverPC
<1>8. ASSUME Unbroken
      PROVE  Prompting(r, p)
  <2>1. PICK j \in 1 .. Len(msgs) : msgs[j].id = st[s].target /\ msgs[j].role = "user"
    BY <1>1, <1>8 DEF Prompting, StreamOK
  <2>2. j \in 1 .. k
    BY <1>1, <1>3, <1>5, <2>1
  <2>3. j = k
    <3> SUFFICES ASSUME j < k
                 PROVE  FALSE
      BY <1>5, <2>2
    <3>1. k \in 1 .. Len(msgs) /\ msgs[k].id <= st[s].target
      BY <1>3, <1>5, <2>2
    <3>2. msgs[j].id < msgs[k].id
      BY <1>1, <3>1 DEF Rows
    <3>3. msgs[j].id \in Nat /\ msgs[k].id \in Nat
      BY <1>1, <3>1, IdsArePositive
    <3> QED
      BY <1>1, <2>1, <3>1, <3>2, <3>3
  <2>4. p # << >> /\ p[Len(p)].role = "user"
    BY <1>3, <2>1, <2>2, <2>3
  <2> QED
    BY <1>1, <1>4, <1>8, <2>4 DEF Prompting, StreamOK, OverPC
<1>9. Serial => Followed(p)
  <2> SUFFICES ASSUME Serial, NEW i \in 1 .. Len(p), p[i].role = "tool"
               PROVE  i > 1 /\ (p[i - 1].role = "tool" \/ p[i - 1].body = "calls")
    BY DEF Followed
  <2>1. i \in 1 .. Len(msgs) /\ msgs[i].role = "tool" /\ i \in 1 .. k
    BY <1>3, <1>5
  <2>2. i > 1 /\ (msgs[i - 1].role = "tool" \/ msgs[i - 1].body = "calls")
    BY <2>1 DEF ChatInv, Followed
  <2>3. i - 1 \in 1 .. k
    BY <1>5, <2>1, <2>2
  <2> QED
    BY <1>3, <2>2, <2>3
<1>10. ~there => p = << >>
  <2> SUFFICES ASSUME ~there
               PROVE  p = << >>
    OBVIOUS
  <2>1. Len(msgs) = 0
    BY DEF ChatInv
  <2>2. Len(p) = 0 /\ p \in Seq(MsgRec)
    BY <1>3, <2>1 DEF Rows
  <2> QED
    BY <2>2
<1>11. StreamOK(r, p, next, there)
  BY <1>6, <1>7, <1>8 DEF StreamOK
<1>12. /\ Rows(msgs', next') /\ next' \in Nat /\ next <= next' /\ requests' \in 0 .. MaxRequests
       /\ (~there => msgs' = << >>) /\ StreamOK(r, msgs', next', there) /\ Set(s, r)
       /\ (Serial => Followed(msgs')) /\ ~Over(s) /\ UNCHANGED <<there, faults>>
  BY <1>1, <1>2, <1>3, <1>9, <1>10, <1>11 DEF ChatInv, Over
<1> QED
  BY <1>4, <1>12, StepKeeps

-----------------------------------------------------------------------------

\* A row of one of the kinds that a stream adds.
LEMMA RowTypes ==
  ASSUME NEW id \in Nat, NEW role \in Roles, NEW body \in Bodies, NEW parent \in Nat
  PROVE  LET x == Row(id, role, body, parent) IN
         x \in MsgRec /\ x.id = id /\ x.role = role /\ x.body = body /\ x.parent = parent
BY DEF Row, MsgRec

\* A result is only added behind calls or results.
LEMMA FollowedAppend ==
  ASSUME NEW m \in Seq(MsgRec), Followed(m), NEW x \in MsgRec,
         x.role = "tool" => m # << >> /\ (m[Len(m)].role = "tool" \/ m[Len(m)].body = "calls")
  PROVE  Followed(Append(m, x))
<1>1. /\ Len(m) \in Nat /\ Len(Append(m, x)) = Len(m) + 1 /\ Append(m, x)[Len(m) + 1] = x
      /\ \A i \in 1 .. Len(m) : Append(m, x)[i] = m[i]
      /\ m # << >> => Len(m) # 0
  OBVIOUS
<1> SUFFICES ASSUME NEW i \in 1 .. Len(m) + 1, Append(m, x)[i].role = "tool"
             PROVE  /\ i > 1
                    /\ Append(m, x)[i - 1].role = "tool" \/ Append(m, x)[i - 1].body = "calls"
  BY <1>1 DEF Followed
<1>2. CASE i \in 1 .. Len(m)
  <2>1. i > 1 /\ (m[i - 1].role = "tool" \/ m[i - 1].body = "calls")
    BY <1>1, <1>2 DEF Followed
  <2>2. i - 1 \in 1 .. Len(m)
    BY <1>1, <1>2, <2>1
  <2> QED
    BY <1>1, <2>1, <2>2
<1>3. CASE i = Len(m) + 1
  <2>1. x.role = "tool"
    BY <1>1, <1>3
  <2>2. Len(m) \in 1 .. Len(m) /\ i - 1 = Len(m) /\ i > 1
    BY <1>1, <1>3, <2>1
  <2> QED
    BY <1>1, <2>1, <2>2
<1> QED
  BY <1>1, <1>2, <1>3

\* What is written never takes the calls from a row.
LEMMA FollowedWrite ==
  ASSUME Rows(msgs, next), Followed(msgs), NEW id, NEW body \in Bodies,
         body = "calls" \/ \A i \in 1 .. Len(msgs) : msgs[i].id = id => msgs[i].body # "calls"
  PROVE  Followed(Write(id, body))
<1> DEFINE w == Write(id, body)
<1>1. /\ Len(w) = Len(msgs)
      /\ \A i \in 1 .. Len(msgs) :
           /\ w[i].role = msgs[i].role
           /\ w[i].body = IF msgs[i].id = id THEN body ELSE msgs[i].body
  BY Written
<1>2. \A i \in 1 .. Len(msgs) : msgs[i].body = "calls" => w[i].body = "calls"
  BY <1>1
<1>3. Len(msgs) \in Nat
  BY DEF Rows
<1> HIDE DEF w
<1> SUFFICES ASSUME NEW i \in 1 .. Len(msgs), msgs[i].role = "tool"
             PROVE  i > 1 /\ (w[i - 1].role = "tool" \/ w[i - 1].body = "calls")
  BY <1>1 DEF Followed, w
<1>4. i > 1 /\ (msgs[i - 1].role = "tool" \/ msgs[i - 1].body = "calls")
  BY DEF Followed
<1>5. i - 1 \in 1 .. Len(msgs)
  BY <1>3, <1>4
<1> QED
  BY <1>1, <1>2, <1>4, <1>5

\* A message of the user or a result is added to the rows: its stream goes on.
LEMMA InsertStep ==
  ASSUME ChatInv, NEW s \in Stream, ~Over(s), there,
         NEW role \in {"user", "tool"}, Insert(role, "full"),
         NEW r \in StreamRec, Set(s, r), UNCHANGED <<there, requests, faults>>,
         Typed(r, next + 1), r.pc \in {"picking", "working"}, r.dirty = st[s].dirty,
         role = "tool" => st[s].pc = "working", r.pc = "working" => role = "tool"
  PROVE  ChatInv'
<1> DEFINE x == Row(next, role, "full", 0)
<1>1. next \in Nat /\ 0 < next /\ Rows(msgs, next) /\ msgs \in Seq(MsgRec)
      /\ StreamOK(st[s], msgs, next, there) /\ st[s].pc \notin OverPC
  BY DEF ChatInv, Rows, Over, OverPC
<1>2. x \in MsgRec /\ x.id = next /\ x.role = role /\ x.body = "full" /\ x.parent = 0
  <2>1. role \in Roles /\ "full" \in Bodies
    BY DEF Roles, Bodies
  <2> QED
    BY <1>1, <2>1, RowTypes
<1>3. msgs' = Append(msgs, x) /\ next' = next + 1
  BY DEF Insert
<1> HIDE DEF x
<1>4. /\ Rows(msgs', next + 1) /\ Len(msgs') = Len(msgs) + 1
      /\ \A i \in 1 .. Len(msgs) : msgs'[i] = msgs[i]
      /\ msgs'[Len(msgs) + 1] = x /\ Len(msgs) \in Nat
  BY <1>1, <1>2, <1>3, Appended
<1>5. msgs' # << >> /\ Len(msgs') \in 1 .. Len(msgs')
  BY <1>4
<1>6. Serial => Calling(r, msgs', there)
  <2> SUFFICES ASSUME Serial
               PROVE  Calling(r, msgs', there)
    OBVIOUS
  <2>1. \A i \in 1 .. Len(msgs) : msgs[i].id = r.dirty => msgs[i].body # "calls"
    BY <1>1 DEF StreamOK, Calling
  <2>2. \A i \in 1 .. Len(msgs') : i \in 1 .. Len(msgs) \/ i = Len(msgs) + 1
    BY <1>4
  <2>3. \A i \in 1 .. Len(msgs') : msgs'[i].id = r.dirty => msgs'[i].body # "calls"
    BY <1>2, <1>4, <2>1, <2>2
  <2>4. r.pc = "working" => r.dirty = 0 /\ msgs'[Len(msgs')].role = "tool"
    BY <1>1, <1>2, <1>4 DEF StreamOK, Calling
  <2> QED
    BY <1>5, <2>3, <2>4 DEF Calling
<1>7. Unbroken => Prompting(r, msgs')
  <2> SUFFICES ASSUME Unbroken
               PROVE  Prompting(r, msgs')
    OBVIOUS
  <2>1. r.dirty = 0
    BY <1>1 DEF StreamOK, Prompting
  <2>2. msgs'[Len(msgs')].role \in {"user", "tool"}
    BY <1>2, <1>4
  <2>3. \A j \in 1 .. Len(msgs') : ~(Len(msgs') < j)
    BY <1>4
  <2>4. EndsOpen(msgs')
    BY <1>5, <2>2, <2>3 DEF EndsOpen
  <2> QED
    BY <2>1, <2>4 DEF Prompting
<1>8. Serial => Followed(msgs')
  <2> SUFFICES ASSUME Serial
               PROVE  Followed(msgs')
    OBVIOUS
  <2>1. role = "tool" => msgs # << >> /\ (msgs[Len(msgs)].role = "tool" \/ msgs[Len(msgs)].body = "calls")
    BY <1>1 DEF StreamOK, Calling
  <2>2. Followed(msgs)
    BY DEF ChatInv
  <2> QED
    BY <1>1, <1>2, <1>3, <2>1, <2>2, FollowedAppend
<1>9. StreamOK(r, msgs', next', there)
  BY <1>3, <1>6, <1>7 DEF StreamOK
<1>10. Rows(msgs', next') /\ next' \in Nat /\ next <= next' /\ requests' \in 0 .. MaxRequests
  BY <1>1, <1>3, <1>4 DEF ChatInv
<1> QED
  BY <1>8, <1>9, <1>10, StepKeeps

\* The message that is answered is inserted or found.
LEMMA StartStep ==
  ASSUME ChatInv, NEW s \in Stream, Start(s)
  PROVE  ChatInv'
<1> DEFINE r(id) == [st[s] EXCEPT !.pc = "picking", !.parent = id]
<1>1. /\ st[s] \in StreamRec /\ Typed(st[s], next) /\ StreamOK(st[s], msgs, next, there)
      /\ st[s].pc = "starting" /\ next \in Nat /\ Rows(msgs, next) /\ ~Over(s)
  BY DEF ChatInv, Start, StreamOK, Over
<1>2. ASSUME NEW id \in Nat
      PROVE  /\ r(id) \in StreamRec /\ r(id).pc = "picking" /\ r(id).parent = id
             /\ r(id).target = st[s].target /\ r(id).msg = st[s].msg /\ r(id).dirty = st[s].dirty
             /\ r(id).events = st[s].events
  BY <1>1 DEF StreamRec, PC
<1>3. ASSUME NEW id \in Nat, NEW n \in Nat, id <= n, next <= n
      PROVE  Typed(r(id), n)
  <2>1. /\ st[s].target \in Nat /\ st[s].msg \in Nat /\ st[s].dirty \in Nat
    BY <1>1 DEF StreamRec
  <2> HIDE DEF r
  <2> QED
    BY <1>1, <1>2, <1>3, <2>1 DEF Typed
<1> HIDE DEF r
<1>4. CASE there /\ Insert("user", "full") /\ Set(s, r(next))
  <2>1. Typed(r(next), next + 1) /\ r(next) \in StreamRec /\ r(next).pc = "picking"
        /\ r(next).dirty = st[s].dirty /\ UNCHANGED <<there, requests, faults>>
    BY <1>1, <1>2, <1>3 DEF Start
  <2> QED
    BY <1>1, <1>4, <2>1, InsertStep
<1>5. CASE st[s].op # "send" /\ LastUser # 0 /\ Set(s, r(LastUser)) /\ UNCHANGED <<msgs, next>>
  <2>1. PICK i \in 1 .. Len(msgs) : msgs[i].id = LastUser /\ msgs[i].role = "user"
    BY <1>1, <1>5, LastUserIsThere
  <2>2. LastUser \in Nat /\ LastUser <= next
    BY <1>1, <2>1, IdsArePositive
  <2>3. r(LastUser) \in StreamRec /\ Typed(r(LastUser), next)
    BY <1>1, <1>2, <1>3, <2>2
  <2>4. Serial => Calling(r(LastUser), msgs, there)
    BY <1>1, <1>2, <2>2 DEF StreamOK, Calling, OverPC
  <2>5. Unbroken => Prompting(r(LastUser), msgs)
    <3> SUFFICES ASSUME Unbroken
                 PROVE  Prompting(r(LastUser), msgs)
      OBVIOUS
    <3>1. msgs # << >> /\ msgs[Len(msgs)].role = "user" /\ st[s].dirty = 0
      BY <1>1, <1>5 DEF StreamOK, Prompting, OverPC
    <3>2. Len(msgs) \in 1 .. Len(msgs) /\ \A j \in 1 .. Len(msgs) : ~(Len(msgs) < j)
      BY <1>1, <3>1, IdsArePositive
    <3>3. EndsOpen(msgs)
      BY <3>1, <3>2 DEF EndsOpen
    <3> QED
      BY <1>2, <2>2, <3>1, <3>3 DEF Prompting
  <2>6. StreamOK(r(LastUser), msgs, next, there)
    BY <2>3, <2>4, <2>5 DEF StreamOK
  <2>7. UNCHANGED <<there, msgs, next, faults, requests>>
    BY <1>5 DEF Start
  <2> QED
    BY <1>1, <1>5, <2>3, <2>6, <2>7, StreamMoves
<1>6. CASE End(s, "error") /\ UNCHANGED <<msgs, next>>
  <2>1. UNCHANGED <<there, msgs, next, faults, requests>>
    BY <1>6 DEF Start
  <2> QED
    BY <1>1, <1>6, <2>1, OnlyEnds DEF LastEvents
<1> QED
  BY <1>4, <1>5, <1>6 DEF Start, r

\* What an iteration leaves to the next keeps its message and its dirty row.
LEMMA Leftovers ==
  ASSUME NEW x \in StreamRec
  PROVE  /\ Rest(x) \in StreamRec /\ Rest(x).pc = x.pc /\ Rest(x).op = x.op
         /\ Rest(x).target = x.target /\ Rest(x).parent = x.parent /\ Rest(x).msg = 0
         /\ Rest(x).dirty = x.dirty /\ Rest(x).events = x.events /\ Rest(x).calls = x.calls
         /\ Rest(x).excluded = x.excluded
BY DEF Rest, StreamRec

\* And a node that refused is not tried again.
LEMMA Excluded ==
  ASSUME NEW x \in StreamRec, x.node \in Node
  PROVE  /\ Exclude(x) \in StreamRec /\ Exclude(x).pc = "picking"
         /\ Exclude(x).target = x.target /\ Exclude(x).parent = x.parent /\ Exclude(x).msg = 0
         /\ Exclude(x).dirty = x.dirty /\ Exclude(x).events = x.events
<1> DEFINE y == Rest(x)
<1>1. y \in StreamRec /\ y.excluded = x.excluded
  BY Leftovers
<1>2. y.excluded \cup {x.node} \in SUBSET Node /\ "picking" \in PC
  BY <1>1 DEF StreamRec, PC
<1>3. /\ y.target = x.target /\ y.parent = x.parent /\ y.msg = 0 /\ y.dirty = x.dirty
      /\ y.events = x.events
  BY Leftovers
<1> HIDE DEF y
<1> DEFINE z == [y EXCEPT !.pc = "picking", !.excluded = y.excluded \cup {x.node}]
<1>4. /\ z \in StreamRec /\ z.pc = "picking" /\ z.target = y.target /\ z.parent = y.parent
      /\ z.msg = y.msg /\ z.dirty = y.dirty /\ z.events = y.events
  BY <1>1, <1>2 DEF StreamRec
<1>5. Exclude(x) = z
  BY DEF Exclude, y
<1> HIDE DEF z
<1> QED
  BY <1>3, <1>4, <1>5

\* A stream goes on before its answer is placed, or after one that did not begin.
LEMMA Onwards ==
  ASSUME ChatInv, NEW s \in Stream, NEW r \in StreamRec, Set(s, r),
         UNCHANGED <<there, msgs, next, faults, requests>>,
         st[s].pc \in {"picking", "loading", "streaming"}, r.pc \in {"picking", "loading", "placing"},
         r.target <= next, r.parent = st[s].parent, r.msg <= next, r.dirty = st[s].dirty,
         r.events = st[s].events, r.pc \in {"loading", "placing"} => r.node \in Node
  PROVE  ChatInv'
<1>1. /\ StreamOK(st[s], msgs, next, there) /\ ~Over(s) /\ Typed(st[s], next)
      /\ st[s].pc \notin OverPC
  BY DEF ChatInv, StreamOK, Over, OverPC
<1>2. Typed(r, next)
  BY <1>1 DEF Typed
<1>3. Serial => Calling(r, msgs, there)
  BY <1>1 DEF StreamOK, Calling
<1>4. Unbroken => Prompting(r, msgs)
  BY <1>1 DEF StreamOK, Prompting
<1> QED
  BY <1>1, <1>2, <1>3, <1>4, StreamMoves DEF StreamOK

\* A node is picked, or none is left.
LEMMA PickStep ==
  ASSUME ChatInv, NEW s \in Stream, Pick(s)
  PROVE  ChatInv'
<1>1. /\ st[s] \in StreamRec /\ st[s].pc = "picking" /\ Typed(st[s], next) /\ ~Over(s)
      /\ UNCHANGED <<there, msgs, next, faults, requests>>
  BY DEF Pick, ChatInv, StreamOK, Over
<1>2. ASSUME NEW n \in Node, st[s].iter < MaxIter,
             Set(s, [st[s] EXCEPT !.pc = "loading", !.node = n, !.iter = @ + 1, !.target = 0])
      PROVE  ChatInv'
  <2> DEFINE r == [st[s] EXCEPT !.pc = "loading", !.node = n, !.iter = st[s].iter + 1, !.target = 0]
  <2>0. st[s].iter \in 0 .. MaxIter /\ "loading" \in PC /\ n \in Node \cup {NoNode}
    BY <1>1 DEF StreamRec, PC
  <2>1. st[s].iter + 1 \in 0 .. MaxIter
    BY <1>2, <2>0, BoundAssumption
  <2>2. /\ r \in StreamRec /\ r.pc = "loading" /\ r.node = n /\ r.target = 0
        /\ r.parent = st[s].parent /\ r.msg = st[s].msg /\ r.dirty = st[s].dirty
        /\ r.events = st[s].events
    BY <1>1, <2>0, <2>1 DEF StreamRec
  <2>3. Set(s, r)
    BY <1>2
  <2> HIDE DEF r
  <2>4. r.target <= next /\ r.msg <= next
    <3>1. st[s].msg <= next /\ next \in Nat
      BY <1>1 DEF Typed, ChatInv
    <3> QED
      BY <2>2, <3>1
  <2> QED
    BY <1>1, <2>2, <2>3, <2>4, Onwards
<1>3. CASE End(s, "error") \/ End(s, "too many iterations")
  BY <1>1, <1>3, OnlyEnds DEF LastEvents
<1> QED
  BY <1>2, <1>3 DEF Pick

\* A stream whose node could not serve it turns to the others.
LEMMA ExcludeStep ==
  ASSUME ChatInv, NEW s \in Stream, st[s].pc \in {"loading", "streaming"}, Set(s, Exclude(st[s])),
         UNCHANGED <<there, msgs, next, faults, requests>>
  PROVE  ChatInv'
<1> DEFINE r == Exclude(st[s])
<1>1. st[s] \in StreamRec /\ Typed(st[s], next) /\ st[s].node \in Node
  BY DEF ChatInv, StreamOK, Typed
<1>2. /\ r \in StreamRec /\ r.pc = "picking" /\ r.target = st[s].target
      /\ r.parent = st[s].parent /\ r.msg = 0 /\ r.dirty = st[s].dirty
      /\ r.events = st[s].events
  BY <1>1, Excluded
<1> HIDE DEF r
<1>3. r.target <= next /\ r.msg <= next
  BY <1>1, <1>2 DEF Typed, ChatInv
<1> QED
  BY <1>2, <1>3, Onwards DEF r

\* The model is loaded on the node, or cannot be.
LEMMA LoadStep ==
  ASSUME ChatInv, NEW s \in Stream, Load(s)
  PROVE  ChatInv'
<1>1. /\ st[s] \in StreamRec /\ st[s].pc = "loading" /\ Typed(st[s], next) /\ ~Over(s)
      /\ UNCHANGED <<there, msgs, next, faults, requests>>
  BY DEF Load, ChatInv, StreamOK, Over
<1>2. CASE Set(s, [st[s] EXCEPT !.pc = "placing"])
  <2> DEFINE r == [st[s] EXCEPT !.pc = "placing"]
  <2>1. /\ r \in StreamRec /\ r.pc = "placing" /\ r.node = st[s].node
        /\ r.target = st[s].target /\ r.parent = st[s].parent /\ r.msg = st[s].msg
        /\ r.dirty = st[s].dirty /\ r.events = st[s].events
    BY <1>1 DEF StreamRec, PC
  <2>2. Set(s, r)
    BY <1>2
  <2> HIDE DEF r
  <2>3. r.target <= next /\ r.msg <= next /\ r.node \in Node
    BY <1>1, <2>1 DEF Typed
  <2> QED
    BY <1>1, <2>1, <2>2, <2>3, Onwards
<1>3. CASE Set(s, Exclude(st[s]))
  BY <1>1, <1>3, ExcludeStep
<1>4. CASE End(s, "error")
  BY <1>1, <1>4, OnlyEnds DEF LastEvents
<1> QED
  BY <1>2, <1>3, <1>4 DEF Load

-----------------------------------------------------------------------------

\* An answer that did not begin.
LEMMA BlankIsEmpty ==
  \A m : Blank(m) <=> m.role = "assistant" /\ m.body = Empty
BY DEF Blank, Empty

\* The empty answer is placed, unless what it answers is gone.
LEMMA PlaceStep ==
  ASSUME ChatInv, NEW s \in Stream, Place(s)
  PROVE  ChatInv'
<1>1. /\ st[s] \in StreamRec /\ st[s].pc = "placing" /\ Typed(st[s], next) /\ ~Over(s)
      /\ StreamOK(st[s], msgs, next, there) /\ next \in Nat /\ 0 < next /\ Rows(msgs, next)
      /\ st[s].pc \notin OverPC /\ UNCHANGED <<there, requests, faults>>
  BY DEF Place, ChatInv, StreamOK, Over, OverPC
<1>0. Rows(msgs, next) /\ next \in Nat /\ 0 < next
  BY DEF ChatInv
<1>9. /\ \A i \in 1 .. Len(msgs) : msgs[i].id # 0 /\ msgs[i].id \in Nat /\ msgs[i].id < next
      /\ Ids = {msgs[i].id : i \in 1 .. Len(msgs)}
  BY <1>0, IdsArePositive
<1>2. CASE End(s, "error") /\ UNCHANGED <<msgs, next>>
  <2>1. UNCHANGED <<there, msgs, next, faults, requests>>
    BY <1>1, <1>2
  <2> QED
    BY <1>1, <1>2, <2>1, OnlyEnds DEF LastEvents
<1>3. ASSUME st[s].parent \in Ids,
             msgs' = Append(Write(st[s].dirty, "part"), Row(next, "assistant", Empty, st[s].parent)),
             next' = next + 1,
             Set(s, [st[s] EXCEPT !.pc = "building", !.msg = next, !.dirty = 0])
      PROVE  ChatInv'
  <2> DEFINE r == [st[s] EXCEPT !.pc = "building", !.msg = next, !.dirty = 0]
             w == Write(st[s].dirty, "part")
             x == Row(next, "assistant", Empty, st[s].parent)
  <2>1. /\ r \in StreamRec /\ r.pc = "building" /\ r.node = st[s].node /\ r.msg = next
        /\ r.target = st[s].target /\ r.parent = st[s].parent /\ r.dirty = 0
        /\ r.events = st[s].events
    BY <1>1 DEF StreamRec, PC
  <2>2. Set(s, r)
    BY <1>3
  <2> HIDE DEF r
  <2>3. "assistant" \in Roles /\ st[s].parent \in Nat
    BY <1>1 DEF Roles, StreamRec
  <2>18. "part" \in Bodies
    BY DEF Bodies
  <2>19. Empty \in Bodies
    BY DEF Bodies, Empty
  <2>4. /\ Rows(w, next) /\ Len(w) = Len(msgs)
        /\ \A i \in 1 .. Len(msgs) :
             /\ w[i].id = msgs[i].id /\ w[i].role = msgs[i].role
             /\ w[i].body = IF msgs[i].id = st[s].dirty THEN "part" ELSE msgs[i].body
    BY <1>0, <2>18, Written
  <2>5. /\ x \in MsgRec /\ x.id = next /\ x.role = "assistant" /\ x.body = Empty
        /\ x.parent = st[s].parent
    BY <1>0, <2>3, <2>19, RowTypes
  <2>6. PICK q \in 1 .. Len(msgs) : msgs[q].id = st[s].parent
    BY <1>3, <1>9
  <2>7. \E j \in 1 .. Len(w) : w[j].id = x.parent
    BY <2>4, <2>5, <2>6
  <2>8. msgs' = Append(w, x)
    BY <1>3
  <2> HIDE DEF w, x
  <2>9. /\ Rows(msgs', next + 1) /\ Len(msgs') = Len(msgs) + 1
        /\ \A i \in 1 .. Len(msgs) : msgs'[i] = w[i]
        /\ msgs'[Len(msgs) + 1] = x /\ Len(msgs) \in Nat
    <3>1. /\ Rows(w, next) /\ next \in Nat /\ 0 < next /\ x \in MsgRec /\ x.id = next
          /\ \E j \in 1 .. Len(w) : w[j].id = x.parent
      BY <1>0, <2>4, <2>5, <2>7
    <3>2. /\ Rows(Append(w, x), next + 1) /\ Len(Append(w, x)) = Len(w) + 1
          /\ \A i \in 1 .. Len(w) : Append(w, x)[i] = w[i]
          /\ Append(w, x)[Len(w) + 1] = x /\ Len(w) \in Nat
      BY <3>1, Appended
    <3> QED
      BY <2>4, <2>8, <3>2
  <2>10. \A i \in 1 .. Len(msgs') : i \in 1 .. Len(msgs) \/ i = Len(msgs) + 1
    BY <2>9
  <2>11. Typed(r, next + 1)
    <3>1. st[s].target \in Nat /\ st[s].node \in Node
      BY <1>1 DEF Typed, StreamRec
    <3>2. st[s].target <= next /\ st[s].parent <= next /\ Len(st[s].events) = 0
      BY <1>1 DEF Typed
    <3> QED
      BY <1>0, <2>1, <2>3, <3>1, <3>2 DEF Typed
  <2>12. Serial => Calling(r, msgs', there)
    <3>1. \A i \in 1 .. Len(msgs) : msgs'[i].id = msgs[i].id
      BY <2>4, <2>9
    <3>2. msgs'[Len(msgs) + 1].id = next /\ msgs'[Len(msgs) + 1].body = Empty
      BY <2>5, <2>9
    <3>3. \A i \in 1 .. Len(msgs) :
            msgs'[i].id \in Nat /\ msgs'[i].id # 0 /\ msgs'[i].id # next
      <4>1. \A i \in 1 .. Len(msgs) : msgs[i].id \in Nat /\ msgs[i].id # 0 /\ msgs[i].id # next
        BY <1>0, <1>9
      <4> QED
        BY <3>1, <4>1
    <3>4. \A i \in 1 .. Len(msgs') : msgs'[i].id \in Nat /\ msgs'[i].id # 0
      <4>1. next \in Nat /\ next # 0
        BY <1>0
      <4> QED
        BY <2>10, <3>2, <3>3, <4>1
    <3>5. \A i \in 1 .. Len(msgs') : msgs'[i].id = next => msgs'[i].body = Empty
      BY <2>10, <3>2, <3>3
    <3>6. msgs'[Len(msgs')].id = next
      BY <2>5, <2>9
    <3> QED
      BY <2>1, <3>4, <3>5, <3>6 DEF Calling
  <2>13. Unbroken => Prompting(r, msgs')
    <3> SUFFICES ASSUME Unbroken
                 PROVE  Prompting(r, msgs')
      OBVIOUS
    <3>1. st[s].dirty = 0 /\ EndsOpen(msgs)
      BY <1>1 DEF StreamOK, Prompting
    <3>2. PICK k \in 1 .. Len(msgs) :
            msgs[k].role \in {"user", "tool"} /\ \A j \in 1 .. Len(msgs) : k < j => Blank(msgs[j])
      BY <3>1 DEF EndsOpen
    <3>3. \A i \in 1 .. Len(msgs) : w[i].body = msgs[i].body /\ w[i].role = msgs[i].role
      BY <1>9, <2>4, <3>1
    <3>4. k \in 1 .. Len(msgs') /\ msgs'[k].role \in {"user", "tool"}
      BY <2>9, <3>2, <3>3
    <3>5. \A j \in 1 .. Len(msgs') : k < j => Blank(msgs'[j])
      BY <2>5, <2>9, <2>10, <3>2, <3>3, BlankIsEmpty
    <3>6. EndsOpen(msgs')
      BY <3>4, <3>5 DEF EndsOpen
    <3> QED
      BY <2>1, <3>6 DEF Prompting
  <2>14. Serial => Followed(msgs')
    <3> SUFFICES ASSUME Serial
                 PROVE  Followed(msgs')
      OBVIOUS
    <3>1. \A i \in 1 .. Len(msgs) : msgs[i].id = st[s].dirty => msgs[i].body # "calls"
      BY <1>1 DEF StreamOK, Calling
    <3>2. Followed(msgs)
      BY DEF ChatInv
    <3>3. Followed(w) /\ w \in Seq(MsgRec)
      BY <1>0, <2>4, <2>18, <3>1, <3>2, FollowedWrite DEF w, Rows
    <3> QED
      BY <2>5, <2>8, <3>3, FollowedAppend
  <2>15. there
    <3>1. msgs # << >>
      BY <1>1, <2>6
    <3> QED
      BY <3>1 DEF ChatInv
  <2>16. StreamOK(r, msgs', next', there)
    BY <1>3, <2>11, <2>12, <2>13 DEF StreamOK
  <2>17. /\ Rows(msgs', next') /\ next' \in Nat /\ next <= next' /\ requests' \in 0 .. MaxRequests
         /\ UNCHANGED <<there, faults>>
    BY <1>0, <1>1, <1>3, <2>9 DEF ChatInv
  <2> QED
    BY <1>1, <2>1, <2>2, <2>14, <2>15, <2>16, <2>17, StepKeeps
<1> QED
  BY <1>2, <1>3 DEF Place, Empty

\* The prompt is built and sent, and a first token comes.
LEMMA StreamingStep ==
  ASSUME ChatInv, NEW s \in Stream, NEW r \in StreamRec, Set(s, r), st[s].pc \in {"building", "streaming"},
         UNCHANGED <<there, msgs, next, faults, requests>>, r.pc = "streaming",
         r.target = st[s].target, r.parent = st[s].parent, r.msg = st[s].msg, r.dirty = st[s].dirty,
         r.events = st[s].events, r.node = st[s].node,
         Unbroken => r.prompt \in {"user", "tool"}
  PROVE  ChatInv'
<1>1. /\ StreamOK(st[s], msgs, next, there) /\ ~Over(s) /\ Typed(st[s], next)
      /\ st[s].pc \notin OverPC
  BY DEF ChatInv, StreamOK, Over, OverPC
<1>2. Typed(r, next)
  BY <1>1 DEF Typed
<1>3. Serial => Calling(r, msgs, there)
  BY <1>1 DEF StreamOK, Calling
<1>4. Unbroken => Prompting(r, msgs)
  BY <1>1 DEF StreamOK, Prompting
<1> QED
  BY <1>1, <1>2, <1>3, <1>4, StreamMoves DEF StreamOK

\* The prompt is built.
LEMMA BuildStep ==
  ASSUME ChatInv, NEW s \in Stream, Build(s)
  PROVE  ChatInv'
<1> DEFINE last == IF History = << >> THEN "none" ELSE Last(History).role
           r == [st[s] EXCEPT !.pc = "streaming", !.got = FALSE, !.prompt = last]
<1>1. /\ st[s] \in StreamRec /\ st[s].pc = "building" /\ StreamOK(st[s], msgs, next, there)
      /\ Rows(msgs, next) /\ UNCHANGED <<there, msgs, next, faults, requests>>
  BY DEF Build, ChatInv
<1>2. last \in Roles \cup {"none"}
  <2>1. History \in Seq(MsgRec)
    BY <1>1, HistoryTypes
  <2>2. ASSUME History # << >>
        PROVE  Last(History).role \in Roles
    <3>1. Len(History) \in 1 .. Len(History)
      BY <2>1, <2>2
    <3>2. History[Len(History)] \in MsgRec
      BY <2>1, <3>1
    <3> QED
      BY <3>2 DEF Last, MsgRec
  <2> QED
    BY <2>2
<1>3. Unbroken => last \in {"user", "tool"}
  BY <1>1, HistoryEndsOpen DEF StreamOK, Prompting
<1>4. Set(s, r)
  BY DEF Build
<1> HIDE DEF last
<1>5. /\ r \in StreamRec /\ r.pc = "streaming" /\ r.prompt = last /\ r.node = st[s].node
      /\ r.target = st[s].target /\ r.parent = st[s].parent /\ r.msg = st[s].msg
      /\ r.dirty = st[s].dirty /\ r.events = st[s].events
  BY <1>1, <1>2 DEF StreamRec, PC
<1> HIDE DEF r
<1> QED
  BY <1>1, <1>3, <1>4, <1>5, StreamingStep

\* A first token comes.
LEMMA TokenStep ==
  ASSUME ChatInv, NEW s \in Stream, Token(s)
  PROVE  ChatInv'
<1> DEFINE r == [st[s] EXCEPT !.got = TRUE]
<1>1. /\ st[s] \in StreamRec /\ st[s].pc = "streaming" /\ StreamOK(st[s], msgs, next, there)
      /\ UNCHANGED <<there, msgs, next, faults, requests>>
  BY DEF Token, ChatInv
<1>2. Unbroken => st[s].prompt \in {"user", "tool"}
  BY <1>1 DEF StreamOK, Prompting
<1>3. Set(s, r)
  BY DEF Token
<1>4. /\ r \in StreamRec /\ r.pc = "streaming" /\ r.prompt = st[s].prompt /\ r.node = st[s].node
      /\ r.target = st[s].target /\ r.parent = st[s].parent /\ r.msg = st[s].msg
      /\ r.dirty = st[s].dirty /\ r.events = st[s].events
  BY <1>1 DEF StreamRec
<1> HIDE DEF r
<1> QED
  BY <1>1, <1>2, <1>3, <1>4, StreamingStep

-----------------------------------------------------------------------------

\* What a stream writes into the answer it placed.
LEMMA AnswerIsWritten ==
  ASSUME ChatInv, NEW s \in Stream, st[s].pc = "streaming", NEW body \in Bodies,
         NEW m, m = Write(st[s].msg, body) \/ m = msgs
  PROVE  /\ Rows(m, next) /\ (Serial => Followed(m)) /\ (~there => m = << >>)
         /\ Len(m) = Len(msgs)
<1>0. Rows(msgs, next) /\ StreamOK(st[s], msgs, next, there) /\ (Serial => Followed(msgs))
      /\ (~there => msgs = << >>)
  BY DEF ChatInv
<1>1. CASE m = msgs
  BY <1>0, <1>1
<1>2. CASE m = Write(st[s].msg, body)
  <2>1. Rows(m, next) /\ Len(m) = Len(msgs)
    BY <1>0, <1>2, Written
  <2>2. ASSUME Serial
        PROVE  Followed(m)
    <3>1. \A i \in 1 .. Len(msgs) : msgs[i].id = st[s].msg => msgs[i].body # "calls"
      BY <1>0, <2>2 DEF StreamOK, Calling, Empty
    <3> QED
      BY <1>0, <1>2, <2>2, <3>1, FollowedWrite
  <2>3. ASSUME ~there
        PROVE  m = << >>
    <3>1. Len(m) = 0 /\ m \in Seq(MsgRec)
      BY <1>0, <2>1, <2>3 DEF Rows
    <3> QED
      BY <3>1
  <2> QED
    BY <2>1, <2>2, <2>3
<1> QED
  BY <1>1, <1>2

\* The answer asks for tools.
LEMMA CallsStep ==
  ASSUME ChatInv, NEW s \in Stream, st[s].pc = "streaming", NEW n \in 1 .. MaxCalls,
         st[s].msg \in Ids, Set(s, [Rest(st[s]) EXCEPT !.pc = "working", !.calls = n]),
         msgs' = Write(st[s].msg, "calls"), UNCHANGED <<there, next, requests, faults>>
  PROVE  ChatInv'
<1> DEFINE y == Rest(st[s])
           r == [y EXCEPT !.pc = "working", !.calls = n]
           w == Write(st[s].msg, "calls")
<1>0. /\ Rows(msgs, next) /\ StreamOK(st[s], msgs, next, there) /\ Typed(st[s], next)
      /\ next \in Nat /\ requests \in 0 .. MaxRequests /\ st[s] \in StreamRec
      /\ ~Over(s) /\ "calls" \in Bodies
  BY DEF ChatInv, StreamOK, Over, Bodies
<1>1. /\ y \in StreamRec /\ y.target = st[s].target /\ y.parent = st[s].parent /\ y.msg = 0
      /\ y.dirty = st[s].dirty /\ y.events = st[s].events
  BY <1>0, Leftovers
<1>2. n \in 0 .. MaxCalls /\ n # 0 /\ "working" \in PC
  BY BoundAssumption DEF PC
<1>3. Set(s, r)
  OBVIOUS
<1> HIDE DEF y
<1>4. /\ r \in StreamRec /\ r.pc = "working" /\ r.calls = n /\ r.target = y.target
      /\ r.parent = y.parent /\ r.msg = y.msg /\ r.dirty = y.dirty /\ r.events = y.events
  BY <1>1, <1>2 DEF StreamRec
<1> HIDE DEF r
<1>5. Rows(w, next) /\ (Serial => Followed(w)) /\ (~there => w = << >>) /\ Len(w) = Len(msgs)
  BY <1>0, AnswerIsWritten
<1>6. Typed(r, next)
  BY <1>0, <1>1, <1>2, <1>4 DEF Typed
<1>7. ASSUME Serial
      PROVE  Calling(r, w, there)
  <2>1. /\ \A i \in 1 .. Len(msgs) : msgs[i].id # 0
        /\ \E i \in 1 .. Len(msgs) : msgs[i].id = st[s].msg
        /\ Len(msgs) \in Nat
    BY <1>0, IdsArePositive
  <2>2. st[s].dirty = 0
    BY <1>0, <1>7 DEF StreamOK, Calling
  <2>3. Len(msgs) \in 1 .. Len(msgs) /\ msgs # << >>
    BY <2>1
  <2>4. msgs[Len(msgs)].id = st[s].msg
    BY <1>0, <1>7, <2>3 DEF StreamOK, Calling
  <2>5. \A i \in 1 .. Len(msgs) :
          /\ w[i].id = msgs[i].id
          /\ w[i].body = IF msgs[i].id = st[s].msg THEN "calls" ELSE msgs[i].body
    BY <1>0, Written
  <2> HIDE DEF w
  <2>6. w # << >> /\ w[Len(w)].body = "calls"
    BY <1>5, <2>3, <2>4, <2>5
  <2>7. \A i \in 1 .. Len(w) : w[i].id # r.dirty
    BY <1>1, <1>4, <1>5, <2>1, <2>2, <2>5
  <2> QED
    BY <1>1, <1>4, <2>2, <2>6, <2>7 DEF Calling
<1>8. Unbroken => Prompting(r, w)
  BY <1>0, <1>1, <1>4 DEF StreamOK, Prompting, OverPC
<1>9. msgs' = w
  OBVIOUS
<1> HIDE DEF w
<1>10. StreamOK(r, msgs', next', there)
  BY <1>6, <1>7, <1>8, <1>9 DEF StreamOK
<1>11. /\ Rows(msgs', next') /\ next' \in Nat /\ next <= next' /\ requests' \in 0 .. MaxRequests
       /\ (~there => msgs' = << >>) /\ (Serial => Followed(msgs')) /\ UNCHANGED <<there, faults>>
  BY <1>0, <1>5, <1>9
<1> QED
  BY <1>0, <1>3, <1>4, <1>10, <1>11, StepKeeps

\* The stream of the node is exhausted.
LEMMA AnswerStep ==
  ASSUME ChatInv, NEW s \in Stream, Answer(s)
  PROVE  ChatInv'
<1>0. /\ ~Over(s) /\ st[s].pc = "streaming" /\ UNCHANGED <<there, next, requests, faults>>
      /\ "full" \in Bodies
  BY DEF Answer, Over, Bodies
<1>1. CASE /\ msgs' = (IF st[s].got THEN Write(st[s].msg, "full") ELSE msgs)
           /\ End(s, "done")
  <2>1. msgs' = Write(st[s].msg, "full") \/ msgs' = msgs
    BY <1>1
  <2>2. \A m : m = Write(st[s].msg, "full") \/ m = msgs =>
          Rows(m, next) /\ (Serial => Followed(m)) /\ (~there => m = << >>)
    BY <1>0, AnswerIsWritten
  <2>3. Rows(msgs', next) /\ (Serial => Followed(msgs')) /\ (~there => msgs' = << >>)
    BY <2>1, <2>2
  <2> QED
    BY <1>0, <1>1, <2>3, EndStep DEF LastEvents
<1>2. ASSUME st[s].msg \in Ids, msgs' = Write(st[s].msg, "calls"), NEW n \in 1 .. MaxCalls,
             Set(s, [Rest(st[s]) EXCEPT !.pc = "working", !.calls = n])
      PROVE  ChatInv'
  BY <1>0, <1>2, CallsStep
<1>3. CASE End(s, "error") /\ UNCHANGED msgs
  <2>1. UNCHANGED <<there, msgs, next, faults, requests>>
    BY <1>0, <1>3
  <2> QED
    BY <1>0, <1>3, <2>1, OnlyEnds DEF LastEvents
<1> QED
  BY <1>1, <1>2, <1>3 DEF Answer

\* The node fails, before the first token or after it.
LEMMA FailStep ==
  ASSUME ChatInv, NEW s \in Stream, Fail(s)
  PROVE  ChatInv'
<1> DEFINE d == IF st[s].got THEN st[s].msg ELSE 0
           y == Exclude(st[s])
           r == [y EXCEPT !.dirty = d]
<1>0. /\ Rows(msgs, next) /\ StreamOK(st[s], msgs, next, there) /\ Typed(st[s], next)
      /\ next \in Nat /\ st[s] \in StreamRec /\ st[s].node \in Node /\ ~Over(s)
      /\ st[s].pc = "streaming" /\ UNCHANGED <<there, msgs, next, faults, requests>>
  BY DEF ChatInv, StreamOK, Typed, Over, Fail
<1>1. /\ y \in StreamRec /\ y.pc = "picking" /\ y.target = st[s].target
      /\ y.parent = st[s].parent /\ y.msg = 0 /\ y.events = st[s].events
  BY <1>0, Excluded
<1>2. d \in Nat /\ d <= next
  BY <1>0 DEF Typed, StreamRec
<1>3. st[s].got => "broken" \in faults
  BY DEF Fail
<1>4. Set(s, r)
  BY DEF Fail
<1>5. Unbroken => d = 0
  BY <1>3 DEF Unbroken
<1>6. ASSUME Serial
      PROVE  \A i \in 1 .. Len(msgs) : msgs[i].id = d => msgs[i].body # "calls"
  <2>1. \A i \in 1 .. Len(msgs) : msgs[i].id # 0
    BY <1>0, IdsArePositive
  <2>2. \A i \in 1 .. Len(msgs) : msgs[i].id = st[s].msg => msgs[i].body # "calls"
    BY <1>0, <1>6 DEF StreamOK, Calling, Empty
  <2> QED
    BY <2>1, <2>2
<1> HIDE DEF d, y
<1>7. /\ r \in StreamRec /\ r.pc = "picking" /\ r.target = y.target
      /\ r.parent = y.parent /\ r.msg = y.msg /\ r.dirty = d /\ r.events = y.events
  BY <1>1, <1>2 DEF StreamRec
<1> HIDE DEF r
<1>8. Typed(r, next)
  BY <1>0, <1>1, <1>2, <1>7 DEF Typed
<1>9. Serial => Calling(r, msgs, there)
  BY <1>6, <1>7 DEF Calling
<1>10. Unbroken => Prompting(r, msgs)
  BY <1>0, <1>5, <1>7 DEF StreamOK, Prompting
<1> QED
  BY <1>0, <1>4, <1>7, <1>8, <1>9, <1>10, StreamMoves DEF StreamOK

\* The client leaves.
LEMMA CancelStep ==
  ASSUME ChatInv, NEW s \in Stream, Cancel(s)
  PROVE  ChatInv'
<1> DEFINE r == [Idle EXCEPT !.pc = "cancelled"]
<1>0. /\ ~Over(s) /\ UNCHANGED <<there, next, requests, faults>> /\ Set(s, r)
      /\ "part" \in Bodies
  BY DEF Cancel, Over, Bodies
<1>1. /\ r.pc = "cancelled" /\ r.target = 0 /\ r.parent = 0 /\ r.msg = 0 /\ r.dirty = 0
      /\ r.events = << >>
  BY DEF Idle
<1>2. r \in StreamRec
  BY IdleTypes DEF StreamRec, PC
<1> HIDE DEF r
<1>3. Rows(msgs', next) /\ (Serial => Followed(msgs')) /\ (~there => msgs' = << >>)
  <2>1. CASE st[s].pc = "streaming" /\ msgs' = Write(st[s].msg, "part")
    <3>1. \A m : m = Write(st[s].msg, "part") \/ m = msgs =>
            Rows(m, next) /\ (Serial => Followed(m)) /\ (~there => m = << >>)
      BY <1>0, <2>1, AnswerIsWritten
    <3> QED
      BY <2>1, <3>1
  <2>2. CASE msgs' = msgs
    BY <2>2 DEF ChatInv
  <2> QED
    BY <2>1, <2>2 DEF Cancel
<1>4. StreamOK(r, msgs', next', there)
  BY <1>0, <1>1 DEF StreamOK, Typed, Calling, Prompting, OverPC, ChatInv
<1>5. Rows(msgs', next') /\ next' \in Nat /\ next <= next' /\ requests' \in 0 .. MaxRequests
  BY <1>0, <1>3 DEF ChatInv
<1> QED
  BY <1>0, <1>2, <1>3, <1>4, <1>5, StepKeeps

\* A tool has run.
LEMMA ToolResultStep ==
  ASSUME ChatInv, NEW s \in Stream, ToolResult(s)
  PROVE  ChatInv'
<1>0. /\ Typed(st[s], next) /\ next \in Nat /\ st[s] \in StreamRec /\ ~Over(s)
      /\ st[s].pc = "working" /\ UNCHANGED <<there, faults, requests>>
  BY DEF ChatInv, StreamOK, Typed, Over, ToolResult
<1>1. CASE End(s, "error") /\ UNCHANGED <<msgs, next>>
  <2>1. UNCHANGED <<there, msgs, next, faults, requests>>
    BY <1>0, <1>1
  <2> QED
    BY <1>0, <1>1, <2>1, OnlyEnds DEF LastEvents
<1>2. ASSUME there, Insert("tool", "full"),
             Set(s, [st[s] EXCEPT !.calls = @ - 1, !.parent = next,
                                  !.pc = IF st[s].calls = 1 THEN "picking" ELSE "working"])
      PROVE  ChatInv'
  <2> DEFINE c == st[s].calls - 1
             p == IF st[s].calls = 1 THEN "picking" ELSE "working"
             r == [st[s] EXCEPT !.calls = c, !.parent = next, !.pc = p]
  <2>1. st[s].calls \in 0 .. MaxCalls /\ st[s].calls # 0
    BY <1>0 DEF Typed, StreamRec
  <2>2. c \in 0 .. MaxCalls /\ (p = "working" => c # 0)
    BY <2>1, BoundAssumption
  <2>3. p \in PC /\ p \in {"picking", "working"}
    BY DEF PC
  <2>4. Set(s, r)
    BY <1>2
  <2> HIDE DEF c, p
  <2>5. /\ r \in StreamRec /\ r.pc = p /\ r.calls = c /\ r.target = st[s].target
        /\ r.parent = next /\ r.msg = st[s].msg /\ r.dirty = st[s].dirty /\ r.events = st[s].events
    BY <1>0, <2>2, <2>3 DEF StreamRec
  <2> HIDE DEF r
  <2>6. Typed(r, next + 1)
    <3>1. st[s].target \in Nat /\ st[s].msg \in Nat /\ st[s].dirty \in Nat
      BY <1>0 DEF StreamRec
    <3>2. st[s].target <= next /\ st[s].msg <= next /\ st[s].dirty <= next /\ Len(st[s].events) = 0
      BY <1>0 DEF Typed
    <3> QED
      BY <1>0, <2>2, <2>3, <2>5, <3>1, <3>2 DEF Typed
  <2> QED
    BY <1>0, <1>2, <2>3, <2>4, <2>5, <2>6, InsertStep
<1> QED
  BY <1>1, <1>2 DEF ToolResult

\* The conversation goes, and its messages with it.
LEMMA DeleteChatStep ==
  ASSUME ChatInv, DeleteChat
  PROVE  ChatInv'
<1>1. there' = FALSE /\ msgs' = << >> /\ UNCHANGED <<next, st, requests, faults>> /\ ~Unbroken
  BY DEF DeleteChat, Unbroken
<1>2. Rows(<< >>, next) /\ Followed(<< >>)
  BY DEF Rows, Followed
<1>3. ASSUME NEW s \in Stream
      PROVE  StreamOK(st[s], << >>, next, FALSE)
  <2>1. Typed(st[s], next) /\ (Serial => Calling(st[s], msgs, there))
    BY DEF ChatInv, StreamOK
  <2>2. Serial => Calling(st[s], << >>, FALSE)
    BY <2>1 DEF Calling
  <2> QED
    BY <1>1, <2>1, <2>2 DEF StreamOK
<1>4. (Serial' <=> Serial) /\ (Unbroken' <=> Unbroken) /\ \A s \in Stream : Over(s)' <=> Over(s)
  BY <1>1 DEF Serial, Unbroken, Over
<1>5. \A s \in Stream : StreamOK(st[s], << >>, next, FALSE)'
  BY <1>1, <1>3, <1>4 DEF StreamOK
<1> QED
  BY <1>1, <1>2, <1>4, <1>5 DEF ChatInv

-----------------------------------------------------------------------------

\* It holds of a conversation without messages.
LEMMA ChatStarts == Init => ChatInv
<1> SUFFICES ASSUME Init
             PROVE  ChatInv
  OBVIOUS
<1>1. /\ there = TRUE /\ msgs = << >> /\ next = 1 /\ requests = 0 /\ faults \in FaultSets
      /\ st = [s \in Stream |-> Idle]
  BY DEF Init
<1>2. Rows(<< >>, 1) /\ Followed(<< >>)
  BY DEF Rows, Followed
<1>3. Idle.pc = "free" /\ Idle.target = 0 /\ Idle.parent = 0 /\ Idle.msg = 0 /\ Idle.dirty = 0
      /\ Idle.events = << >>
  BY DEF Idle
<1>4. StreamOK(Idle, << >>, 1, TRUE)
  BY <1>3 DEF StreamOK, Typed, Calling, Prompting, OverPC
<1>5. st \in [Stream -> StreamRec] /\ \A s \in Stream : st[s] = Idle
  BY <1>1, IdleTypes
<1>6. \A s \in Stream : Over(s)
  BY <1>3, <1>5 DEF Over
<1>7. there /\ there \in BOOLEAN /\ (~there => msgs = << >>)
  BY <1>1
<1>8. requests \in 0 .. MaxRequests /\ next \in Nat /\ 0 < next
  BY <1>1, BoundAssumption
<1>9. Rows(msgs, next) /\ Followed(msgs)
  BY <1>1, <1>2
<1>10. \A s \in Stream : StreamOK(st[s], msgs, next, there)
  BY <1>1, <1>4, <1>5
<1> QED
  BY <1>1, <1>5, <1>6, <1>7, <1>8, <1>9, <1>10 DEF ChatInv

\* Every step keeps it.
LEMMA ChatStep == ChatInv /\ [Next]_vars => ChatInv'
<1> SUFFICES ASSUME ChatInv, [Next]_vars
             PROVE  ChatInv'
  OBVIOUS
<1>1. CASE UNCHANGED vars
  BY <1>1 DEF vars, ChatInv, StreamOK, Serial, Unbroken, Over
<1>2. ASSUME NEW s \in Stream, Route(s)
      PROVE  ChatInv'
  BY <1>2, SendStep, RegenerateStep, EditStep DEF Route
<1>3. ASSUME NEW s \in Stream, Step(s)
      PROVE  ChatInv'
  BY <1>3, DeleteFromStep, StartStep, PickStep, LoadStep, PlaceStep, BuildStep, TokenStep,
     AnswerStep, FailStep, ToolResultStep DEF Step
<1>4. ASSUME NEW s \in Stream, Cancel(s)
      PROVE  ChatInv'
  BY <1>4, CancelStep
<1>5. CASE DeleteChat
  BY <1>5, DeleteChatStep
<1> QED
  BY <1>1, <1>2, <1>3, <1>4, <1>5 DEF Next

\* So it always holds.
LEMMA ChatHolds == Spec => []ChatInv
BY ChatStarts, ChatStep, PTL DEF Spec

-----------------------------------------------------------------------------

(***************************************************************************)
(* A client hears one last event of every reply, "done" or "error": no     *)
(* path of stream_assistant_reply ends without one or goes on after it.    *)
(***************************************************************************)
THEOREM EndsOnce == Spec => []OneEnding
<1>1. ChatInv => OneEnding
  BY DEF ChatInv, StreamOK, Typed, OneEnding
<1> QED
  BY <1>1, ChatHolds, PTL

(***************************************************************************)
(* No answer outlives its question, however replies, deletions and routes  *)
(* overlap; a conversation whose replies do not overlap never has a result *)
(* without calls, and, unless a stream breaks or the conversation goes,    *)
(* never sends a prompt that ends with the assistant (build_messages).     *)
(***************************************************************************)
THEOREM HistoryStaysSound == Spec => []HistoryIsSound
<1>1. ASSUME ChatInv
      PROVE  HistoryIsSound
  <2>0. Rows(msgs, next) /\ next \in Nat
    BY <1>1 DEF ChatInv
  <2>1. AnswersHaveQuestions
    <3> SUFFICES ASSUME NEW i \in DOMAIN msgs
                 PROVE  msgs[i].parent \in Ids \cup {0}
      BY DEF AnswersHaveQuestions
    <3>1. DOMAIN msgs = 1 .. Len(msgs) /\ Ids = {msgs[j].id : j \in 1 .. Len(msgs)}
      BY <2>0, IdsArePositive
    <3>2. msgs[i].parent = 0 \/ \E j \in 1 .. Len(msgs) : j < i /\ msgs[j].id = msgs[i].parent
      BY <2>0, <3>1 DEF Rows
    <3> QED
      BY <3>1, <3>2
  <2>2. PromptEndsOpen
    BY <1>1 DEF PromptEndsOpen, ChatInv, StreamOK, Unbroken, Prompting
  <2>3. ResultsFollowCalls
    BY <1>1, <2>0, IdsArePositive DEF ResultsFollowCalls, ChatInv, Serial, Followed
  <2> QED
    BY <2>1, <2>2, <2>3 DEF HistoryIsSound
<1> QED
  BY <1>1, ChatHolds, PTL

(***************************************************************************)
(* The types of the model, and the order of the rows by created_at.        *)
(***************************************************************************)
THEOREM ChatTypes == Spec => []TypeOK
<1>1. ASSUME ChatInv
      PROVE  TypeOK
  <2>0. Rows(msgs, next) /\ next \in Nat
    BY <1>1 DEF ChatInv
  <2>1. /\ msgs \in Seq([id : Nat, role : Roles, body : Bodies, parent : Nat])
        /\ \A i, j \in DOMAIN msgs : i < j => msgs[i].id < msgs[j].id
        /\ \A id \in Ids : id < next
    <3>1. msgs \in Seq(MsgRec) /\ DOMAIN msgs = 1 .. Len(msgs) /\ \A id \in Ids : id < next
      BY <2>0, IdsArePositive
    <3> QED
      BY <2>0, <3>1 DEF MsgRec, Rows
  <2>2. ASSUME NEW s \in Stream
        PROVE  /\ st[s].pc \in PC /\ st[s].op \in AllOps \cup {"none"}
               /\ {st[s].target, st[s].parent, st[s].msg, st[s].dirty} \subseteq 0 .. next
               /\ st[s].iter \in 0 .. MaxIter
               /\ st[s].excluded \subseteq Node /\ st[s].node \in Node \cup {NoNode}
               /\ st[s].calls \in 0 .. MaxCalls
    <3>1. st[s] \in StreamRec /\ Typed(st[s], next)
      BY <1>1 DEF ChatInv, StreamOK
    <3>2. /\ st[s].target \in Nat /\ st[s].parent \in Nat /\ st[s].msg \in Nat
          /\ st[s].dirty \in Nat
      BY <3>1 DEF StreamRec
    <3>3. /\ st[s].target <= next /\ st[s].parent <= next /\ st[s].msg <= next
          /\ st[s].dirty <= next
      BY <3>1 DEF Typed
    <3>4. /\ st[s].target \in 0 .. next /\ st[s].parent \in 0 .. next
          /\ st[s].msg \in 0 .. next /\ st[s].dirty \in 0 .. next
      BY <2>0, <3>2, <3>3
    <3> QED
      BY <3>1, <3>4 DEF StreamRec
  <2>3. DOMAIN st = Stream
    BY <1>1 DEF ChatInv
  <2> QED
    BY <1>1, <2>0, <2>1, <2>2, <2>3 DEF TypeOK, ChatInv
<1> QED
  BY <1>1, ChatHolds, PTL

-----------------------------------------------------------------------------

(***************************************************************************)
(* NamesAreKept.  What a request writes it made of what it read, so what   *)
(* is settled must be in everything that is still under way.               *)
(***************************************************************************)

TagSeq == {tags \in Seq(Tag) : Len(tags) <= MaxTags}
RequestRec == [pc : {"free", "patch", "autoname", "delete"}, title : AnyTitle \cup {Nothing}, tags : TagSeq]

\* What is settled is in the row, and in whatever a request under way has read of it.
Kept(title, tags) ==
  /\ settled.title \notin DefaultTitle \cup {Nothing} => title = settled.title
  /\ settled.tags \subseteq ToSet(tags)

NamesInv ==
  /\ conv \in [live : BOOLEAN, title : AnyTitle, tags : TagSeq]
  /\ request \in [Caller -> RequestRec]
  /\ settled \in [title : AnyTitle \cup {Nothing}, tags : SUBSET Tag]
  /\ Kept(conv.title, conv.tags)
  /\ \A r \in Caller :
       request[r].pc # "free" => request[r].title \in AnyTitle /\ Kept(request[r].title, request[r].tags)

\* The lists of tags are short sequences.
LEMMA TagListsAreShort == TagLists \subseteq TagSeq
<1> SUFFICES ASSUME NEW tags \in TagLists
             PROVE  tags \in TagSeq
  OBVIOUS
<1>1. MaxTags \in Nat
  BY TitleAssumption
<1>2. PICK m \in 0 .. MaxTags : tags \in [1 .. m -> Tag]
  BY DEF TagLists, SeqOf
<1>3. m \in Nat /\ m <= MaxTags
  BY <1>1
<1>4. tags \in Seq(Tag) /\ Len(tags) = m
  BY <1>2, <1>3
<1> QED
  BY <1>3, <1>4 DEF TagSeq

\* Tags are only added: none of the conversation is lost, and what does not fit is left out.
LEMMA MergeKeeps ==
  ASSUME NEW old \in TagSeq, NEW more \in TagLists
  PROVE  Merge(old, more) \in TagSeq /\ ToSet(old) \subseteq ToSet(Merge(old, more))
<1> DEFINE all == old \o more
           n == Min({MaxTags, Len(all)})
<1>1. old \in Seq(Tag) /\ more \in Seq(Tag) /\ Len(old) \in Nat /\ Len(more) \in Nat
      /\ MaxTags \in Nat /\ Len(old) <= MaxTags
  BY TagListsAreShort, TitleAssumption DEF TagSeq
<1>2. all \in Seq(Tag) /\ Len(all) = Len(old) + Len(more) /\ \A i \in 1 .. Len(old) : all[i] = old[i]
  BY <1>1
<1> HIDE DEF all
<1>3. Len(all) \in Nat
  BY <1>1, <1>2
<1>4. n \in Nat /\ n <= MaxTags /\ n <= Len(all) /\ Len(old) <= n
  <2>1. \E x \in {MaxTags, Len(all)} : \A y \in {MaxTags, Len(all)} : x <= y
    BY <1>1, <1>3
  <2>2. n \in {MaxTags, Len(all)} /\ \A y \in {MaxTags, Len(all)} : n <= y
    BY <2>1 DEF Min
  <2> QED
    BY <1>1, <1>2, <1>3, <2>2
<1> HIDE DEF n
<1>5. SubSeq(all, 1, n) \in Seq(Tag) /\ Len(SubSeq(all, 1, n)) = n
      /\ \A i \in 1 .. n : SubSeq(all, 1, n)[i] = all[i]
  BY <1>2, <1>3, <1>4
<1>6. Merge(old, more) = SubSeq(all, 1, n)
  BY DEF Merge, all, n
<1>7. ASSUME NEW t \in ToSet(old)
      PROVE  t \in ToSet(SubSeq(all, 1, n))
  <2>1. PICK i \in 1 .. Len(old) : t = old[i]
    BY <1>1 DEF ToSet
  <2>2. i \in 1 .. n
    BY <1>1, <1>4
  <2>3. SubSeq(all, 1, n)[i] = t /\ DOMAIN SubSeq(all, 1, n) = 1 .. n
    BY <1>2, <1>4, <1>5, <2>1, <2>2
  <2> QED
    BY <2>2, <2>3 DEF ToSet
<1> QED
  BY <1>4, <1>5, <1>6, <1>7 DEF TagSeq

\* A row that is written holds for each column what it held or what is written.
LEMMA WriteBackTypes ==
  ASSUME NamesInv, NEW r \in Caller, NEW title \in AnyTitle, NEW tags \in TagSeq
  PROVE  LET c == WriteBack(r, title, tags) IN
         /\ c \in [live : BOOLEAN, title : AnyTitle, tags : TagSeq]
         /\ c.title = IF title = request[r].title THEN conv.title ELSE title
         /\ c.tags = IF tags = request[r].tags THEN conv.tags ELSE tags
<1> DEFINE t == IF title = request[r].title THEN conv.title ELSE title
           g == IF tags = request[r].tags THEN conv.tags ELSE tags
<1>1. conv \in [live : BOOLEAN, title : AnyTitle, tags : TagSeq]
  BY DEF NamesInv
<1>2. t \in AnyTitle /\ g \in TagSeq
  BY <1>1
<1>3. WriteBack(r, title, tags) = [conv EXCEPT !.title = t, !.tags = g]
  BY DEF WriteBack
<1> HIDE DEF t, g
<1>4. /\ [conv EXCEPT !.title = t, !.tags = g] \in [live : BOOLEAN, title : AnyTitle, tags : TagSeq]
      /\ [conv EXCEPT !.title = t, !.tags = g].title = t
      /\ [conv EXCEPT !.title = t, !.tags = g].tags = g
  BY <1>1, <1>2
<1> QED
  BY <1>3, <1>4 DEF t, g

\* A request that ends has read nothing any more.
LEMMA RequestEnds ==
  ASSUME NamesInv, NEW r \in Caller, request' = [request EXCEPT ![r] = Free]
  PROVE  /\ request' \in [Caller -> RequestRec] /\ request'[r].pc = "free"
         /\ \A q \in Caller : q # r => request'[q] = request[q]
<1>1. << >> \in TagSeq
  BY TitleAssumption DEF TagSeq
<1>2. Free \in RequestRec /\ Free.pc = "free"
  BY <1>1 DEF Free, RequestRec
<1> QED
  BY <1>2 DEF NamesInv

\* Each route reads the row first.
LEMMA ReadStep ==
  ASSUME NamesInv, NEW r \in Caller, NEW route \in {"patch", "autoname", "delete"}, Read(r, route)
  PROVE  NamesInv'
<1> DEFINE x == [pc |-> route, title |-> conv.title, tags |-> conv.tags]
<1>1. conv.title \in AnyTitle /\ conv.tags \in TagSeq
  BY DEF NamesInv
<1>2. x \in RequestRec /\ x.title = conv.title /\ x.tags = conv.tags
  BY <1>1 DEF RequestRec
<1>3. request' = [request EXCEPT ![r] = x] /\ UNCHANGED <<conv, settled>>
  BY DEF Read
<1> HIDE DEF x
<1>4. /\ request' \in [Caller -> RequestRec] /\ request'[r] = x
      /\ \A q \in Caller : q # r => request'[q] = request[q]
  BY <1>2, <1>3 DEF NamesInv
<1>5. ASSUME NEW q \in Caller, request'[q].pc # "free"
      PROVE  request'[q].title \in AnyTitle /\ Kept(request'[q].title, request'[q].tags)
  <2>1. CASE q = r
    BY <1>1, <1>2, <1>4, <2>1 DEF NamesInv
  <2>2. CASE q # r
    BY <1>4, <1>5, <2>2 DEF NamesInv
  <2> QED
    BY <2>1, <2>2
<1> QED
  BY <1>3, <1>4, <1>5 DEF NamesInv, Kept

\* What the user changes alone is settled; what crosses another request settles nothing.
LEMMA PatchStep ==
  ASSUME NamesInv, NEW r \in Caller, PatchNames(r)
  PROVE  NamesInv'
<1>0. /\ request' = [request EXCEPT ![r] = Free] /\ request[r].pc = "patch"
      /\ request[r].title \in AnyTitle /\ request[r].tags \in TagSeq
      /\ settled \in [title : AnyTitle \cup {Nothing}, tags : SUBSET Tag]
  BY DEF NamesInv, PatchNames, RequestRec
<1>1. /\ request' \in [Caller -> RequestRec] /\ request'[r].pc = "free"
      /\ \A q \in Caller : q # r => request'[q] = request[q]
  BY <1>0, RequestEnds
<1>2. PICK title \in Title \cup {Nothing}, tags \in TagLists \cup {Nothing} :
       LET newTitle == IF title = Nothing THEN request[r].title ELSE title
           newTags == IF tags = Nothing THEN request[r].tags ELSE tags IN
       IF conv.live
       THEN /\ conv' = WriteBack(r, newTitle, newTags)
            /\ settled' = IF Alone(r)
                          THEN [title |-> IF title = Nothing THEN settled.title ELSE title,
                                tags |-> IF tags = Nothing THEN settled.tags ELSE ToSet(tags)]
                          ELSE [title |-> Nothing, tags |-> {}]
       ELSE UNCHANGED <<conv, settled>>
  BY DEF PatchNames
<1>3. CASE ~conv.live
  <2>1. UNCHANGED <<conv, settled>>
    BY <1>2, <1>3
  <2> QED
    BY <1>1, <2>1 DEF NamesInv, Kept
<1>4. CASE conv.live
  <2> DEFINE nt == IF title = Nothing THEN request[r].title ELSE title
             ng == IF tags = Nothing THEN request[r].tags ELSE tags
             asTitle == IF title = Nothing THEN settled.title ELSE title
             asTags == IF tags = Nothing THEN settled.tags ELSE ToSet(tags)
  <2>1. tags # Nothing => tags \in TagSeq
    BY TagListsAreShort
  <2>2. nt \in AnyTitle /\ ng \in TagSeq
    BY <1>0, <2>1 DEF AnyTitle
  <2>3. asTitle \in AnyTitle \cup {Nothing} /\ asTags \in SUBSET Tag
    <3>1. tags # Nothing => ToSet(tags) \in SUBSET Tag
      BY <2>1 DEF TagSeq, ToSet
    <3> QED
      BY <1>0, <3>1 DEF AnyTitle
  <2>4. conv' = WriteBack(r, nt, ng)
    BY <1>2, <1>4
  <2>5. settled' = IF Alone(r) THEN [title |-> asTitle, tags |-> asTags] ELSE [title |-> Nothing, tags |-> {}]
    BY <1>2, <1>4
  <2>6. asTitle # Nothing /\ title = Nothing => asTitle = settled.title /\ nt = request[r].title
    OBVIOUS
  <2>7. title # Nothing => nt = title /\ asTitle = title
    OBVIOUS
  <2>8. tags = Nothing => ng = request[r].tags /\ asTags = settled.tags
    OBVIOUS
  <2>9. tags # Nothing => ng = tags /\ asTags = ToSet(tags)
    OBVIOUS
  <2>10. title = Nothing => asTitle = settled.title
    OBVIOUS
  <2> HIDE DEF nt, ng, asTitle, asTags
  <2>11. /\ conv' \in [live : BOOLEAN, title : AnyTitle, tags : TagSeq]
         /\ conv'.title = IF nt = request[r].title THEN conv.title ELSE nt
         /\ conv'.tags = IF ng = request[r].tags THEN conv.tags ELSE ng
    BY <2>2, <2>4, WriteBackTypes
  <2>12. CASE Alone(r)
    <3>1. settled'.title = asTitle /\ settled'.tags = asTags /\ settled' \in [title : AnyTitle \cup {Nothing}, tags : SUBSET Tag]
      BY <2>3, <2>5, <2>12
    <3>2. conv'.title = nt /\ conv'.tags = ng
      BY <2>11, <2>12 DEF Alone
    <3>3. asTitle \notin DefaultTitle \cup {Nothing} => nt = asTitle
      BY <2>6, <2>7, <2>10, <2>12 DEF Alone, NamesInv, Kept
    <3>4. asTags \subseteq ToSet(ng)
      BY <2>8, <2>9, <2>12 DEF Alone, NamesInv, Kept
    <3>5. \A q \in Caller : request'[q].pc = "free"
      BY <1>1, <2>12 DEF Alone
    <3> QED
      BY <1>1, <2>11, <3>1, <3>2, <3>3, <3>4, <3>5 DEF NamesInv, Kept
  <2>13. CASE ~Alone(r)
    <3>1. settled'.title = Nothing /\ settled'.tags = {} /\ settled' \in [title : AnyTitle \cup {Nothing}, tags : SUBSET Tag]
      BY <2>5, <2>13
    <3>2. \A q \in Caller : request'[q].pc # "free" => request'[q].title \in AnyTitle
      BY <1>1 DEF NamesInv
    <3> QED
      BY <1>1, <2>11, <3>1, <3>2 DEF NamesInv, Kept
  <2> QED
    BY <2>12, <2>13
<1> QED
  BY <1>3, <1>4

\* A naming leaves a title that is not a default one, and only adds tags.
LEMMA AutonameStep ==
  ASSUME NamesInv, NEW r \in Caller, Autoname(r)
  PROVE  NamesInv'
<1>0. /\ request' = [request EXCEPT ![r] = Free] /\ request[r].pc # "free" /\ settled' = settled
      /\ request[r].title \in AnyTitle /\ request[r].tags \in TagSeq
      /\ Kept(request[r].title, request[r].tags) /\ Kept(conv.title, conv.tags)
  BY DEF NamesInv, Autoname, RequestRec
<1>1. /\ request' \in [Caller -> RequestRec] /\ request'[r].pc = "free"
      /\ \A q \in Caller : q # r => request'[q] = request[q]
  BY <1>0, RequestEnds
<1>2. PICK title \in {Made, Nothing}, more \in Additions(request[r].tags) :
        conv' = IF conv.live
                THEN WriteBack(r, NewTitle(request[r].title, title), Merge(request[r].tags, more))
                ELSE conv
  BY DEF Autoname
<1>3. /\ conv' \in [live : BOOLEAN, title : AnyTitle, tags : TagSeq]
      /\ Kept(conv'.title, conv'.tags)
  <2>1. CASE ~conv.live
    BY <1>0, <1>2, <2>1 DEF NamesInv
  <2>2. CASE conv.live
    <3> DEFINE nt == NewTitle(request[r].title, title)
               ng == Merge(request[r].tags, more)
    <3>1. nt \in AnyTitle /\ (request[r].title \notin DefaultTitle => nt = request[r].title)
      BY <1>0 DEF NewTitle, AnyTitle
    <3>2. more \in TagLists
      BY DEF Additions
    <3>3. ng \in TagSeq /\ ToSet(request[r].tags) \subseteq ToSet(ng)
      BY <1>0, <3>2, MergeKeeps
    <3>4. conv' = WriteBack(r, nt, ng)
      BY <1>2, <2>2
    <3> HIDE DEF nt, ng
    <3>5. /\ conv' \in [live : BOOLEAN, title : AnyTitle, tags : TagSeq]
          /\ conv'.title = IF nt = request[r].title THEN conv.title ELSE nt
          /\ conv'.tags = IF ng = request[r].tags THEN conv.tags ELSE ng
      BY <3>1, <3>3, <3>4, WriteBackTypes
    <3> QED
      BY <1>0, <3>1, <3>3, <3>5 DEF Kept
  <2> QED
    BY <2>1, <2>2
<1> QED
  BY <1>0, <1>1, <1>3 DEF NamesInv, Kept

\* The conversation goes.
LEMMA DeleteStep ==
  ASSUME NamesInv, NEW r \in Caller, DeleteConversation(r)
  PROVE  NamesInv'
<1>1. /\ request' \in [Caller -> RequestRec] /\ request'[r].pc = "free"
      /\ \A q \in Caller : q # r => request'[q] = request[q]
  BY RequestEnds DEF DeleteConversation
<1>2. conv' \in [live : BOOLEAN, title : AnyTitle, tags : TagSeq] /\ conv'.title = conv.title
      /\ conv'.tags = conv.tags /\ settled' = settled
  BY DEF NamesInv, DeleteConversation
<1> QED
  BY <1>1, <1>2 DEF NamesInv, Kept

\* It holds of a conversation that has no name yet.
LEMMA NamesStart == NamesInit => NamesInv
<1> SUFFICES ASSUME NamesInit
             PROVE  NamesInv
  OBVIOUS
<1>1. << >> \in TagSeq /\ ToSet(<< >>) = {}
  BY TitleAssumption DEF TagSeq, ToSet
<1>2. Free \in RequestRec /\ Free.pc = "free"
  BY <1>1 DEF Free, RequestRec
<1>3. conv \in [live : BOOLEAN, title : AnyTitle, tags : TagSeq]
  BY <1>1, TitleAssumption DEF NamesInit, AnyTitle
<1>4. settled \in [title : AnyTitle \cup {Nothing}, tags : SUBSET Tag] /\ settled.title = Nothing
      /\ settled.tags = {}
  BY DEF NamesInit
<1>5. request \in [Caller -> RequestRec] /\ \A r \in Caller : request[r].pc = "free"
  BY <1>2 DEF NamesInit
<1> QED
  BY <1>3, <1>4, <1>5 DEF NamesInv, Kept

(***************************************************************************)
(* What the user asked for while no other request was under way stays,     *)
(* however many namings begin later and however they cross: autoname reads *)
(* the title that is settled, and only adds to the tags it has read.       *)
(***************************************************************************)
THEOREM NamesStay == NamesInit /\ [][NamesNext]_nameVars => []NamesAreKept
<1>1. ASSUME NamesInv, [NamesNext]_nameVars
      PROVE  NamesInv'
  <2>1. CASE UNCHANGED nameVars
    BY <1>1, <2>1 DEF nameVars, NamesInv, Kept
  <2>2. CASE NamesNext
    BY <1>1, <2>2, ReadStep, PatchStep, AutonameStep, DeleteStep DEF NamesNext
  <2> QED
    BY <1>1, <2>1, <2>2
<1>2. NamesInv => NamesAreKept
  BY DEF NamesInv, Kept, NamesAreKept
<1> QED
  BY <1>1, <1>2, NamesStart, PTL

-----------------------------------------------------------------------------

(***************************************************************************)
(* DialogueIsSound.  The three parts share nothing, so each has an         *)
(* invariant of its own.                                                   *)
(***************************************************************************)

(* The engine *)

\* A model that is being loaded is not there yet, and its lock is its loader's.
EngineInv ==
  /\ loaded \in [Speech -> Nat]
  /\ loading \in [Part -> Demand \cup {NoDemand}] /\ inferring \in [Part -> Demand \cup {NoDemand}]
  /\ demand \in [Demand -> [pc : DemandPCs, model : Speech, caller : {"waits", "heard", "failed"}]]
  /\ \A m \in Speech : loaded[m] <= 1
  /\ \A d \in Demand :
       /\ demand[d].pc \in {"queued", "inferring"} => loaded[demand[d].model] = 1
       /\ demand[d].pc = "loading" =>
            loaded[demand[d].model] = 0 /\ loading[PartOf(demand[d].model)] = d
  /\ \A t \in Part :
       /\ loading[t] # NoDemand =>
            demand[loading[t]].pc = "loading" /\ PartOf(demand[loading[t]].model) = t
       /\ inferring[t] # NoDemand =>
            demand[inferring[t]].pc = "inferring" /\ PartOf(demand[inferring[t]].model) = t

\* A request moves on, and stays for the same model.
LEMMA DemandMoves ==
  ASSUME EngineInv, NEW d \in Demand, NEW pc \in DemandPCs, NEW caller \in {"waits", "heard", "failed"},
         demand' = [demand EXCEPT ![d].pc = pc, ![d].caller = caller]
  PROVE  /\ demand' \in [Demand -> [pc : DemandPCs, model : Speech, caller : {"waits", "heard", "failed"}]]
         /\ demand'[d].pc = pc /\ demand'[d].model = demand[d].model
         /\ \A e \in Demand : e # d => demand'[e] = demand[e]
<1> DEFINE demands == [pc : DemandPCs, model : Speech, caller : {"waits", "heard", "failed"}]
           x == [demand[d] EXCEPT !.pc = pc]
           y == [x EXCEPT !.caller = caller]
<1>1. demand \in [Demand -> demands]
  BY DEF EngineInv
<1>2. x \in demands /\ x.pc = pc /\ x.model = demand[d].model
  BY <1>1
<1>3. demand' = [[demand EXCEPT ![d] = x] EXCEPT ![d] = [[demand EXCEPT ![d] = x][d] EXCEPT !.caller = caller]]
  OBVIOUS
<1>4. [demand EXCEPT ![d] = x][d] = x
  BY <1>1
<1>5. demand' = [demand EXCEPT ![d] = y]
  BY <1>1, <1>3, <1>4
<1> HIDE DEF x
<1>6. y \in demands /\ y.pc = pc /\ y.model = demand[d].model
  BY <1>2
<1> HIDE DEF y
<1> QED
  BY <1>1, <1>5, <1>6

\* What the moves of a request are: Goto and Reply.
LEMMA GotoMoves ==
  ASSUME EngineInv, NEW d \in Demand, NEW pc \in DemandPCs,
         Goto(d, pc) \/ (pc = "ended" /\ \E answer \in {"heard", "failed"} : Reply(d, answer))
  PROVE  /\ demand' \in [Demand -> [pc : DemandPCs, model : Speech, caller : {"waits", "heard", "failed"}]]
         /\ demand'[d].pc = pc /\ demand'[d].model = demand[d].model
         /\ \A e \in Demand : e # d => demand'[e] = demand[e]
<1>1. CASE Goto(d, pc)
  BY <1>1 DEF Goto, EngineInv
<1>2. ASSUME NEW answer \in {"heard", "failed"}, Reply(d, answer), pc = "ended"
      PROVE  \E c \in {"waits", "heard", "failed"} :
               demand' = [demand EXCEPT ![d].pc = pc, ![d].caller = c]
  BY <1>2 DEF Reply, EngineInv
<1> QED
  BY <1>1, <1>2, DemandMoves

\* The part of a model.
LEMMA PartIsPart == \A m \in Speech : PartOf(m) \in Part
BY DEF PartOf, Part

\* A request that holds no lock moves and takes none.
LEMMA UnlockedMoves ==
  ASSUME EngineInv, NEW d \in Demand, UNCHANGED <<loaded, loading, inferring>>,
         demand' \in [Demand -> [pc : DemandPCs, model : Speech, caller : {"waits", "heard", "failed"}]],
         \A e \in Demand : e # d => demand'[e] = demand[e],
         demand[d].pc \notin {"loading", "inferring"}, demand'[d].pc \notin {"loading", "inferring"},
         demand'[d].pc = "queued" => loaded[demand'[d].model] = 1
  PROVE  EngineInv'
<1>1. ASSUME NEW e \in Demand
      PROVE  /\ demand'[e].pc \in {"queued", "inferring"} => loaded[demand'[e].model] = 1
             /\ demand'[e].pc = "loading" =>
                  loaded[demand'[e].model] = 0 /\ loading[PartOf(demand'[e].model)] = e
  <2>1. CASE e = d
    BY <2>1
  <2>2. CASE e # d
    BY <2>2 DEF EngineInv
  <2> QED
    BY <2>1, <2>2
<1>2. ASSUME NEW t \in Part
      PROVE  /\ loading[t] # NoDemand =>
                  demand'[loading[t]].pc = "loading" /\ PartOf(demand'[loading[t]].model) = t
             /\ inferring[t] # NoDemand =>
                  demand'[inferring[t]].pc = "inferring" /\ PartOf(demand'[inferring[t]].model) = t
  <2>1. loading[t] # NoDemand => loading[t] \in Demand /\ loading[t] # d
    BY DEF EngineInv
  <2>2. inferring[t] # NoDemand => inferring[t] \in Demand /\ inferring[t] # d
    BY DEF EngineInv
  <2> QED
    BY <2>1, <2>2 DEF EngineInv
<1> QED
  BY <1>1, <1>2 DEF EngineInv

\* A request comes, looks, waits or is given up: nothing is held.
LEMMA LightStep ==
  ASSUME EngineInv, NEW d \in Demand, Ask(d) \/ Look(d) \/ CallerLeaves(d)
  PROVE  EngineInv'
<1>0. UNCHANGED <<loaded, loading, inferring>>
  BY DEF Ask, Look, CallerLeaves
<1>1. CASE Ask(d)
  <2>1. /\ demand' \in [Demand -> [pc : DemandPCs, model : Speech, caller : {"waits", "heard", "failed"}]]
        /\ demand'[d].pc = "looking" /\ demand[d].pc = "none"
        /\ \A e \in Demand : e # d => demand'[e] = demand[e]
    BY <1>1 DEF Ask, EngineInv, DemandPCs
  <2>2. /\ demand'[d].pc \notin {"loading", "inferring"} /\ demand[d].pc \notin {"loading", "inferring"}
        /\ demand'[d].pc # "queued"
    BY <2>1
  <2> QED
    BY <1>0, <2>1, <2>2, UnlockedMoves
<1>2. CASE Look(d)
  <2> DEFINE pc == IF loaded[demand[d].model] > 0 THEN "queued" ELSE "locking"
  <2>1. pc \in DemandPCs /\ Goto(d, pc) /\ demand[d].pc = "looking"
    BY <1>2 DEF Look, DemandPCs
  <2>2. pc \in {"queued", "locking"} /\ (pc = "queued" => loaded[demand[d].model] = 1)
    BY DEF EngineInv
  <2> HIDE DEF pc
  <2>3. /\ demand' \in [Demand -> [pc : DemandPCs, model : Speech, caller : {"waits", "heard", "failed"}]]
        /\ demand'[d].pc = pc /\ demand'[d].model = demand[d].model
        /\ \A e \in Demand : e # d => demand'[e] = demand[e]
    BY <2>1, GotoMoves
  <2>4. demand'[d].pc = "queued" => loaded[demand'[d].model] = 1
    BY <2>2, <2>3
  <2>5. demand'[d].pc \notin {"loading", "inferring"} /\ demand[d].pc \notin {"loading", "inferring"}
    BY <2>1, <2>2, <2>3
  <2> QED
    BY <1>0, <2>3, <2>4, <2>5, UnlockedMoves
<1>3. CASE CallerLeaves(d)
  <2>1. /\ demand' \in [Demand -> [pc : DemandPCs, model : Speech, caller : {"waits", "heard", "failed"}]]
        /\ \A e \in Demand : demand'[e].pc = demand[e].pc /\ demand'[e].model = demand[e].model
    BY <1>3 DEF CallerLeaves, EngineInv
  <2> QED
    BY <1>0, <2>1 DEF EngineInv
<1> QED
  BY <1>1, <1>2, <1>3

\* The second look, under the lock.
LEMMA LockStep ==
  ASSUME EngineInv, NEW d \in Demand, LockModel(d)
  PROVE  EngineInv'
<1> DEFINE m == demand[d].model
           t == PartOf(m)
<1>0. m \in Speech /\ t \in Part /\ demand[d].pc = "locking" /\ loading[t] = NoDemand
      /\ UNCHANGED <<loaded, inferring>> /\ loaded[m] \in Nat /\ loaded[m] <= 1
  BY PartIsPart DEF EngineInv, LockModel
<1>1. CASE loaded[m] > 0
  <2>1. "queued" \in DemandPCs /\ Goto(d, "queued") /\ UNCHANGED loading /\ loaded[m] = 1
    BY <1>0, <1>1 DEF LockModel, DemandPCs
  <2>2. /\ demand' \in [Demand -> [pc : DemandPCs, model : Speech, caller : {"waits", "heard", "failed"}]]
        /\ demand'[d].pc = "queued" /\ demand'[d].model = demand[d].model
        /\ \A e \in Demand : e # d => demand'[e] = demand[e]
    BY <2>1, GotoMoves
  <2> QED
    BY <1>0, <2>1, <2>2 DEF EngineInv
<1>2. CASE ~(loaded[m] > 0)
  <2>1. "loading" \in DemandPCs /\ Goto(d, "loading") /\ loading' = [loading EXCEPT ![t] = d]
        /\ loaded[m] = 0
    BY <1>0, <1>2 DEF LockModel, DemandPCs
  <2>2. /\ demand' \in [Demand -> [pc : DemandPCs, model : Speech, caller : {"waits", "heard", "failed"}]]
        /\ demand'[d].pc = "loading" /\ demand'[d].model = m
        /\ \A e \in Demand : e # d => demand'[e] = demand[e]
    BY <2>1, GotoMoves
  <2> HIDE DEF m, t
  <2>3. /\ loading' \in [Part -> Demand \cup {NoDemand}] /\ loading'[t] = d
        /\ \A u \in Part : u # t => loading'[u] = loading[u]
    BY <1>0, <2>1 DEF EngineInv
  <2>4. ASSUME NEW e \in Demand
        PROVE  /\ demand'[e].pc \in {"queued", "inferring"} => loaded'[demand'[e].model] = 1
               /\ demand'[e].pc = "loading" =>
                    loaded'[demand'[e].model] = 0 /\ loading'[PartOf(demand'[e].model)] = e
    <3>1. CASE e = d
      BY <1>0, <2>1, <2>2, <2>3, <3>1 DEF t
    <3>2. CASE e # d
      <4>1. demand[e].pc = "loading" => PartOf(demand[e].model) # t /\ PartOf(demand[e].model) \in Part
        BY <1>0, <3>2, PartIsPart, EngineAssumption DEF EngineInv
      <4> QED
        BY <1>0, <2>2, <2>3, <3>2, <4>1 DEF EngineInv
    <3> QED
      BY <3>1, <3>2
  <2>5. ASSUME NEW u \in Part
        PROVE  /\ loading'[u] # NoDemand =>
                    demand'[loading'[u]].pc = "loading" /\ PartOf(demand'[loading'[u]].model) = u
               /\ inferring'[u] # NoDemand =>
                    demand'[inferring'[u]].pc = "inferring" /\ PartOf(demand'[inferring'[u]].model) = u
    <3>1. loading[u] # NoDemand => loading[u] \in Demand /\ loading[u] # d
      BY <1>0 DEF EngineInv
    <3>2. inferring[u] # NoDemand => inferring[u] \in Demand /\ inferring[u] # d
      BY <1>0 DEF EngineInv
    <3>3. u = t => PartOf(m) = u
      BY DEF t
    <3> QED
      BY <1>0, <2>2, <2>3, <3>1, <3>2, <3>3 DEF EngineInv
  <2> QED
    BY <1>0, <2>2, <2>3, <2>4, <2>5 DEF EngineInv
<1> QED
  BY <1>1, <1>2

\* A model is loaded once, or fails to.
LEMMA LoadModelStep ==
  ASSUME EngineInv, NEW d \in Demand, LoadModel(d)
  PROVE  EngineInv'
<1> DEFINE m == demand[d].model
           t == PartOf(m)
<1>0. /\ m \in Speech /\ t \in Part /\ demand[d].pc = "loading" /\ loading[t] = d /\ loaded[m] = 0
      /\ loading' = [loading EXCEPT ![t] = NoDemand] /\ inferring' = inferring
  BY PartIsPart DEF EngineInv, LoadModel
<1>1. PICK pc \in {"queued", "ended"} :
        /\ Goto(d, pc) \/ (pc = "ended" /\ \E answer \in {"heard", "failed"} : Reply(d, answer))
        /\ loaded' = IF pc = "queued" THEN [loaded EXCEPT ![m] = @ + 1] ELSE loaded
  BY DEF LoadModel
<1>2. /\ demand' \in [Demand -> [pc : DemandPCs, model : Speech, caller : {"waits", "heard", "failed"}]]
      /\ demand'[d].pc = pc /\ demand'[d].model = m
      /\ \A e \in Demand : e # d => demand'[e] = demand[e]
  BY <1>1, GotoMoves DEF DemandPCs
<1> HIDE DEF m
<1>3. /\ loaded' \in [Speech -> Nat] /\ (pc = "queued" => loaded'[m] = 1)
      /\ loaded'[m] <= 1 /\ \A o \in Speech : o # m => loaded'[o] = loaded[o]
  BY <1>0, <1>1 DEF EngineInv
<1>4. ASSUME NEW e \in Demand
      PROVE  /\ demand'[e].pc \in {"queued", "inferring"} => loaded'[demand'[e].model] = 1
             /\ demand'[e].pc = "loading" =>
                  loaded'[demand'[e].model] = 0 /\ loading'[PartOf(demand'[e].model)] = e
  <2>1. CASE e = d
    BY <1>1, <1>2, <1>3, <2>1
  <2>2. CASE e # d
    <3>1. demand'[e] = demand[e] /\ demand[e].model \in Speech /\ PartOf(demand[e].model) \in Part
      BY <1>2, <2>2, PartIsPart DEF EngineInv
    <3>2. demand[e].pc \in {"queued", "inferring"} => demand[e].model # m /\ loaded[demand[e].model] = 1
      BY <1>0 DEF EngineInv
    <3>3. demand[e].pc = "loading" =>
            /\ PartOf(demand[e].model) # t /\ demand[e].model # m /\ loaded[demand[e].model] = 0
            /\ loading[PartOf(demand[e].model)] = e
      BY <1>0, <2>2 DEF EngineInv
    <3>4. \A u \in Part : u # t => loading'[u] = loading[u]
      BY <1>0 DEF EngineInv
    <3> QED
      BY <1>3, <3>1, <3>2, <3>3, <3>4
  <2> QED
    BY <2>1, <2>2
<1>5. ASSUME NEW u \in Part
      PROVE  /\ loading'[u] # NoDemand =>
                  demand'[loading'[u]].pc = "loading" /\ PartOf(demand'[loading'[u]].model) = u
             /\ inferring'[u] # NoDemand =>
                  demand'[inferring'[u]].pc = "inferring" /\ PartOf(demand'[inferring'[u]].model) = u
  <2>1. loading'[t] = NoDemand /\ \A v \in Part : v # t => loading'[v] = loading[v]
    BY <1>0 DEF EngineInv
  <2>2. loading[u] # NoDemand /\ u # t => loading[u] \in Demand /\ loading[u] # d
    BY <1>0 DEF EngineInv, m
  <2>3. inferring[u] # NoDemand => inferring[u] \in Demand /\ inferring[u] # d
    BY <1>0 DEF EngineInv
  <2> QED
    BY <1>0, <1>2, <2>1, <2>2, <2>3 DEF EngineInv
<1>6. loading' \in [Part -> Demand \cup {NoDemand}]
  BY <1>0 DEF EngineInv
<1> QED
  BY <1>0, <1>2, <1>3, <1>4, <1>5, <1>6 DEF EngineInv

\* A model is used under its lock.
LEMMA InferStep ==
  ASSUME EngineInv, NEW d \in Demand, Infer(d) \/ InferEnds(d)
  PROVE  EngineInv'
<1> DEFINE m == demand[d].model
           t == PartOf(m)
<1>0. m \in Speech /\ t \in Part /\ UNCHANGED <<loaded, loading>> /\ loaded[m] = 1
      /\ demand[d].pc \in {"queued", "inferring"}
  BY PartIsPart DEF EngineInv, Infer, InferEnds
<1>1. PICK pc \in {"inferring", "ended"} :
        /\ Goto(d, pc) \/ (pc = "ended" /\ \E answer \in {"heard", "failed"} : Reply(d, answer))
        /\ pc = "inferring" =>
             demand[d].pc = "queued" /\ inferring' = [inferring EXCEPT ![t] = d]
        /\ pc = "ended" => inferring' = [inferring EXCEPT ![t] = NoDemand]
  BY DEF Infer, InferEnds
<1>2. /\ demand' \in [Demand -> [pc : DemandPCs, model : Speech, caller : {"waits", "heard", "failed"}]]
      /\ demand'[d].pc = pc /\ demand'[d].model = m
      /\ \A e \in Demand : e # d => demand'[e] = demand[e]
  BY <1>1, GotoMoves DEF DemandPCs
<1>3. /\ inferring' \in [Part -> Demand \cup {NoDemand}]
      /\ inferring'[t] \in {d, NoDemand} /\ (inferring'[t] = d => pc = "inferring")
      /\ \A u \in Part : u # t => inferring'[u] = inferring[u]
  BY <1>0, <1>1, EngineAssumption DEF EngineInv
<1>4. ASSUME NEW e \in Demand
      PROVE  /\ demand'[e].pc \in {"queued", "inferring"} => loaded'[demand'[e].model] = 1
             /\ demand'[e].pc = "loading" =>
                  loaded'[demand'[e].model] = 0 /\ loading'[PartOf(demand'[e].model)] = e
  <2>1. CASE e = d
    BY <1>0, <1>1, <1>2, <2>1
  <2>2. CASE e # d
    BY <1>0, <1>2, <2>2 DEF EngineInv
  <2> QED
    BY <2>1, <2>2
<1>5. ASSUME NEW u \in Part
      PROVE  /\ loading'[u] # NoDemand =>
                  demand'[loading'[u]].pc = "loading" /\ PartOf(demand'[loading'[u]].model) = u
             /\ inferring'[u] # NoDemand =>
                  demand'[inferring'[u]].pc = "inferring" /\ PartOf(demand'[inferring'[u]].model) = u
  <2>1. loading[u] # NoDemand => loading[u] \in Demand /\ loading[u] # d
    BY <1>0 DEF EngineInv
  <2>2. CASE u = t
    BY <1>0, <1>1, <1>2, <1>3, <2>1, <2>2 DEF EngineInv
  <2>3. CASE u # t
    <3>1. inferring[u] # NoDemand => inferring[u] \in Demand /\ inferring[u] # d
      BY <2>3 DEF EngineInv
    <3> QED
      BY <1>0, <1>2, <1>3, <2>1, <2>3, <3>1 DEF EngineInv
  <2> QED
    BY <2>2, <2>3
<1> HIDE DEF m, t
<1> QED
  BY <1>0, <1>2, <1>3, <1>4, <1>5 DEF EngineInv

\* It holds of an engine that serves nobody.
LEMMA EngineStarts == EngineInit => EngineInv
<1> SUFFICES ASSUME EngineInit
             PROVE  EngineInv
  OBVIOUS
<1>1. /\ loaded \in [Speech -> Nat] /\ \A m \in Speech : loaded[m] <= 1
  BY DEF EngineInit
<1>2. Whisper \in Speech /\ "none" \in DemandPCs
  BY DEF Speech, DemandPCs
<1> QED
  BY <1>1, <1>2 DEF EngineInit, EngineInv

\* Every step of a request keeps it.
LEMMA EngineSteps == EngineInv /\ [EngineNext]_engineVars => EngineInv'
<1> SUFFICES ASSUME EngineInv, [EngineNext]_engineVars
             PROVE  EngineInv'
  OBVIOUS
<1>1. CASE UNCHANGED engineVars
  BY <1>1 DEF engineVars, EngineInv
<1>2. CASE EngineNext
  BY <1>2, LightStep, LockStep, LoadModelStep, InferStep DEF EngineNext, EngineStep
<1> QED
  BY <1>1, <1>2

(* The microphone *)

\* The flags, and what the dialogue says of its recorder.
RecorderInv ==
  /\ mic \in [Mic -> MicState] /\ rec \in Mic \cup {NoMic}
  /\ ui \in [open : BOOLEAN, listening : BOOLEAN, transcribing : BOOLEAN,
             streaming : BOOLEAN, handsFree : BOOLEAN, timer : Nat]
  /\ ListeningIsReal

\* Recorders that do not record come, go and are transcribed; the flags are others.
LEMMA OthersMove ==
  ASSUME RecorderInv, mic' \in [Mic -> MicState], rec' = rec,
         ui' \in [open : BOOLEAN, listening : BOOLEAN, transcribing : BOOLEAN,
                 streaming : BOOLEAN, handsFree : BOOLEAN, timer : Nat],
         ui'.listening => ui.listening,
         ui'.listening => \A s \in Mic : mic[s] \in Recording => mic'[s] \in Recording
  PROVE  RecorderInv'
BY DEF RecorderInv, ListeningIsReal

\* The recorder that is known stops, or none.
LEMMA FinishStep ==
  ASSUME RecorderInv, NEW states \in [Mic -> MicState],
         \A s \in Mic : mic[s] \in Recording => states[s] \in Recording,
         FinishRecording(states)
  PROVE  RecorderInv'
<1>1. CASE rec # NoMic /\ ui.listening
  <2>1. /\ mic' = [states EXCEPT ![rec] = IF @ \in Recording THEN "stopping" ELSE @]
        /\ rec' = NoMic /\ ui' = [ui EXCEPT !.listening = FALSE]
    BY <1>1 DEF FinishRecording
  <2>2. mic' \in [Mic -> MicState]
    BY <1>1, <2>1 DEF RecorderInv, MicState
  <2>3. /\ ui' \in [open : BOOLEAN, listening : BOOLEAN, transcribing : BOOLEAN,
                    streaming : BOOLEAN, handsFree : BOOLEAN, timer : Nat]
        /\ ~ui'.listening
    BY <2>1 DEF RecorderInv
  <2> QED
    BY <2>1, <2>2, <2>3 DEF RecorderInv, ListeningIsReal
<1>2. CASE ~(rec # NoMic /\ ui.listening)
  <2>1. mic' = states /\ UNCHANGED <<rec, ui>>
    BY <1>2 DEF FinishRecording
  <2> QED
    BY <2>1, OthersMove DEF RecorderInv
<1> QED
  BY <1>1, <1>2

\* One recorder of the dialogue, from its permission to its text.
LEMMA MicStep ==
  ASSUME RecorderInv, NEW s \in Mic,
         ToggleOn(s) \/ Granted(s) \/ Denied(s) \/ Silence(s) \/ Stopped(s) \/ Transcribed(s)
  PROVE  RecorderInv'
<1> DEFINE Flags == [open : BOOLEAN, listening : BOOLEAN, transcribing : BOOLEAN,
                     streaming : BOOLEAN, handsFree : BOOLEAN, timer : Nat]
<1>0. mic \in [Mic -> MicState] /\ ui \in Flags
  BY DEF RecorderInv
<1>1. CASE ToggleOn(s)
  <2>1. mic[s] = "free" /\ mic' = [mic EXCEPT ![s] = "asking"] /\ rec' = rec
        /\ ui' = [ui EXCEPT !.timer = ui.timer]
    BY <1>1 DEF ToggleOn, StartListening
  <2>2. ui' \in Flags /\ ui'.listening = ui.listening
    BY <1>0, <2>1
  <2>3. mic' \in [Mic -> MicState] /\ \A r \in Mic : mic[r] \in Recording => mic'[r] \in Recording
    BY <1>0, <2>1 DEF MicState, Recording
  <2> QED
    BY <2>1, <2>2, <2>3, OthersMove
<1>2. CASE Granted(s)
  <2>1. mic' = [mic EXCEPT ![s] = "on"] /\ rec' = s /\ ui' = [ui EXCEPT !.listening = TRUE]
    BY <1>2 DEF Granted
  <2>2. ui' \in Flags
    BY <1>0, <2>1
  <2>3. mic' \in [Mic -> MicState] /\ mic'[s] \in Recording
    BY <1>0, <2>1 DEF MicState, Recording
  <2> QED
    BY <2>1, <2>2, <2>3, MicAssumption DEF RecorderInv, ListeningIsReal
<1>3. CASE Denied(s)
  <2>1. mic' = [mic EXCEPT ![s] = "free"] /\ rec' = rec /\ ui' = [ui EXCEPT !.listening = FALSE]
    BY <1>3 DEF Denied
  <2>2. ui' \in Flags /\ ~ui'.listening
    BY <1>0, <2>1
  <2>3. mic' \in [Mic -> MicState]
    BY <1>0, <2>1 DEF MicState
  <2> QED
    BY <2>1, <2>2, <2>3, OthersMove
<1>4. CASE Silence(s)
  <2> DEFINE states == [mic EXCEPT ![s] = "spent"]
  <2>1. states \in [Mic -> MicState] /\ \A r \in Mic : mic[r] \in Recording => states[r] \in Recording
    BY <1>0 DEF MicState, Recording
  <2>2. FinishRecording(states)
    BY <1>4 DEF Silence
  <2> HIDE DEF states
  <2> QED
    BY <2>1, <2>2, FinishStep
<1>5. CASE Stopped(s)
  <2>1. /\ mic[s] \in {"stopping", "closing"} /\ rec' = rec
        /\ mic' = [mic EXCEPT ![s] = "transcribing"] \/ mic' = [mic EXCEPT ![s] = "free"]
        /\ ui' = [ui EXCEPT !.transcribing = TRUE] \/ ui' = ui
    BY <1>5 DEF Stopped
  <2>2. ui' \in Flags /\ ui'.listening = ui.listening
    BY <1>0, <2>1
  <2>3. mic' \in [Mic -> MicState] /\ \A r \in Mic : mic[r] \in Recording => mic'[r] \in Recording
    BY <1>0, <2>1 DEF MicState, Recording
  <2> QED
    BY <2>1, <2>2, <2>3, OthersMove
<1>6. CASE Transcribed(s)
  <2>1. PICK text \in BOOLEAN :
          ui' = [ui EXCEPT !.transcribing = FALSE, !.streaming = @ \/ text]
    BY <1>6 DEF Transcribed
  <2>2. ui' \in Flags /\ ui'.listening = ui.listening
    BY <1>0, <2>1
  <2>3. mic[s] = "transcribing" /\ mic' = [mic EXCEPT ![s] = "free"] /\ rec' = rec
    BY <1>6 DEF Transcribed
  <2>4. mic' \in [Mic -> MicState] /\ \A r \in Mic : mic[r] \in Recording => mic'[r] \in Recording
    BY <1>0, <2>3 DEF MicState, Recording
  <2> QED
    BY <2>2, <2>3, <2>4, OthersMove
<1> QED
  BY <1>1, <1>2, <1>3, <1>4, <1>5, <1>6

\* The dialogue itself: its buttons, the replies, and the timer of hands-free mode.
LEMMA FlagStep ==
  ASSUME RecorderInv,
         Close \/ Open \/ ToggleHandsFree \/ StreamStarts \/ StreamEnds \/ RelistenTick
  PROVE  RecorderInv'
<1> DEFINE Flags == [open : BOOLEAN, listening : BOOLEAN, transcribing : BOOLEAN,
                     streaming : BOOLEAN, handsFree : BOOLEAN, timer : Nat]
<1>0. mic \in [Mic -> MicState] /\ ui \in Flags /\ NoTimer \in Nat
  BY MicAssumption DEF RecorderInv, NoTimer
<1>1. CASE Close
  <2>1. /\ mic' = [s \in Mic |-> IF s = rec /\ mic[s] \in Recording THEN "closing" ELSE mic[s]]
        /\ ui' = [ui EXCEPT !.open = FALSE, !.listening = FALSE, !.transcribing = FALSE, !.timer = NoTimer]
        /\ rec' = rec
    BY <1>1 DEF Close
  <2>2. ui' \in Flags /\ ~ui'.listening
    BY <1>0, <2>1
  <2>3. mic' \in [Mic -> MicState]
    BY <1>0, <2>1 DEF MicState
  <2> QED
    BY <2>1, <2>2, <2>3, OthersMove
<1>2. ASSUME UNCHANGED <<mic, rec>>, ui' \in Flags, ui'.listening = ui.listening
      PROVE  RecorderInv'
  BY <1>0, <1>2, OthersMove
<1>3. CASE Open
  <2>1. UNCHANGED <<mic, rec>> /\ ui' \in Flags /\ ui'.listening = ui.listening
    BY <1>0, <1>3 DEF Open
  <2> QED
    BY <1>2, <2>1
<1>4. CASE ToggleHandsFree
  <2>1. UNCHANGED <<mic, rec>> /\ ui' \in Flags /\ ui'.listening = ui.listening
    BY <1>0, <1>4 DEF ToggleHandsFree
  <2> QED
    BY <1>2, <2>1
<1>5. CASE StreamStarts
  <2>1. UNCHANGED <<mic, rec>> /\ ui' \in Flags /\ ui'.listening = ui.listening
    BY <1>0, <1>5 DEF StreamStarts
  <2> QED
    BY <1>2, <2>1
<1>6. CASE StreamEnds
  <2>1. UNCHANGED <<mic, rec>> /\ ui' \in Flags /\ ui'.listening = ui.listening
    BY <1>0, <1>6 DEF StreamEnds
  <2> QED
    BY <1>2, <2>1
<1>7. CASE RelistenWaits
  <2>1. UNCHANGED <<mic, rec>> /\ ui' \in Flags /\ ui'.listening = ui.listening
    BY <1>0, <1>7 DEF RelistenWaits
  <2> QED
    BY <1>2, <2>1
<1>8. ASSUME NEW muted \in BOOLEAN, Relisten(muted)
      PROVE  RecorderInv'
  <2>1. CASE ui' = [ui EXCEPT !.timer = NoTimer] /\ UNCHANGED <<mic, rec>>
    <3>1. ui' \in Flags /\ ui'.listening = ui.listening
      BY <1>0, <2>1
    <3> QED
      BY <1>2, <2>1, <3>1
  <2>2. ASSUME NEW s \in Mic, StartListening(s, NoTimer)
        PROVE  RecorderInv'
    <3>1. mic[s] = "free" /\ mic' = [mic EXCEPT ![s] = "asking"] /\ rec' = rec
          /\ ui' = [ui EXCEPT !.timer = NoTimer]
      BY <2>2 DEF StartListening
    <3>2. ui' \in Flags /\ ui'.listening = ui.listening
      BY <1>0, <3>1
    <3>3. mic' \in [Mic -> MicState] /\ \A r \in Mic : mic[r] \in Recording => mic'[r] \in Recording
      BY <1>0, <3>1 DEF MicState, Recording
    <3> QED
      BY <3>1, <3>2, <3>3, OthersMove
  <2> QED
    BY <1>8, <2>1, <2>2 DEF Relisten
<1> QED
  BY <1>1, <1>3, <1>4, <1>5, <1>6, <1>7, <1>8 DEF RelistenTick

\* It holds of a dialogue that was just opened.
LEMMA RecorderStarts == RecorderInit => RecorderInv
<1> SUFFICES ASSUME RecorderInit
             PROVE  RecorderInv
  OBVIOUS
<1>1. NoTimer \in Nat /\ "free" \in MicState
  BY MicAssumption DEF NoTimer, MicState
<1> QED
  BY <1>1 DEF RecorderInit, RecorderInv, ListeningIsReal

\* Every step of the dialogue keeps it.
LEMMA RecorderSteps == RecorderInv /\ [RecorderNext]_recorderVars => RecorderInv'
<1> SUFFICES ASSUME RecorderInv, [RecorderNext]_recorderVars
             PROVE  RecorderInv'
  OBVIOUS
<1>1. CASE UNCHANGED recorderVars
  BY <1>1 DEF recorderVars, RecorderInv, ListeningIsReal
<1>2. CASE ToggleOff
  <2>1. mic \in [Mic -> MicState] /\ FinishRecording(mic)
    BY <1>2 DEF RecorderInv, ToggleOff
  <2> QED
    BY <2>1, FinishStep
<1>3. CASE RecorderNext /\ ~ToggleOff
  BY <1>3, MicStep, FlagStep DEF RecorderNext
<1> QED
  BY <1>1, <1>2, <1>3

(* The player *)

\* Sentences are taken in their order, and each has its sound once it is said.
InOrder(stages, sounds, count) ==
  /\ stages \in [Phrase -> Stage] /\ sounds \in [Phrase -> Blob] /\ count \in 0 .. MaxPhrases
  /\ \A p \in Phrase : stages[p] = "none" <=> p > count
  /\ \A p \in Phrase : p <= count => sounds[p] # "none"
  /\ \A p, q \in Phrase :
       p < q /\ stages[q] \in InPump \cup {"done"} => stages[p] \in {"done", "dropped"}

Silent(stages) == \A p \in Phrase : stages[p] \notin InPump

\* A sentence is in the hands of pump() only while pump() runs.
SpeechInv == InOrder(stage, blob, said) /\ (pumping \/ Silent(stage))

\* What pump() takes next is the earliest sentence that waits: those before it are over.
LEMMA PumpStep ==
  ASSUME NEW stages, NEW sounds, NEW count, NEW stopped,
         InOrder(stages, sounds, count), Silent(stages), Pump(stages, sounds, stopped)
  PROVE  InOrder(stage', sounds, count) /\ (pumping' \/ Silent(stage'))
<1> DEFINE queued == {p \in Phrase : stages[p] = "queued"}
           first == Min(queued)
<1>1. CASE queued # {} /\ ~stopped
  <2>1. stage' = [stages EXCEPT ![first] = Taken(sounds[first])] /\ pumping'
    BY <1>1 DEF Pump
  <2>2. queued \in SUBSET Nat
    BY DEF Phrase
  <2> HIDE DEF queued
  <2>3. first \in queued /\ \A p \in queued : first <= p
    BY <1>1, <2>2, LeastNatural DEF Min
  <2> HIDE DEF first
  <2>4. first \in Phrase /\ stages[first] = "queued"
    BY <2>3 DEF queued
  <2>5. \A p \in Phrase : p < first => stages[p] # "queued"
    BY <2>3, <2>4 DEF queued, Phrase
  <2>6. sounds[first] \in {"pending", "ok", "null"}
    BY <2>4, PhraseAssumption DEF InOrder, Phrase, Blob
  <2>7. Taken(sounds[first]) \in InPump /\ Taken(sounds[first]) \in Stage
    BY <2>6 DEF Taken, InPump, Stage
  <2>8. stage' \in [Phrase -> Stage] /\ stage'[first] \in InPump /\ stage'[first] # "none"
        /\ \A p \in Phrase : p # first => stage'[p] = stages[p]
    BY <2>1, <2>4, <2>7 DEF InOrder, InPump
  <2>9. ASSUME NEW p \in Phrase, p < first
        PROVE  stages[p] \in {"done", "dropped"}
    <3>1. stages[p] \in Stage /\ stages[p] # "none" /\ stages[p] # "queued" /\ stages[p] \notin InPump
      BY <2>4, <2>5, <2>9, PhraseAssumption DEF InOrder, Phrase, Silent
    <3> QED
      BY <3>1 DEF Stage
  <2>10. ASSUME NEW p \in Phrase, NEW q \in Phrase, p < q, stage'[q] \in InPump \cup {"done"}
         PROVE  stage'[p] \in {"done", "dropped"}
    <3>1. CASE q = first
      BY <2>8, <2>9, <2>10, <3>1 DEF Phrase
    <3>2. CASE q # first
      <4>1. stages[p] \in {"done", "dropped"}
        BY <2>8, <2>10, <3>2 DEF InOrder
      <4> QED
        BY <2>4, <2>8, <4>1
    <3> QED
      BY <3>1, <3>2
  <2>11. \A p \in Phrase : stage'[p] = "none" <=> p > count
    BY <2>4, <2>8 DEF InOrder
  <2> QED
    BY <2>1, <2>8, <2>10, <2>11 DEF InOrder
<1>2. CASE ~(queued # {} /\ ~stopped)
  BY <1>2 DEF Pump
<1> QED
  BY <1>1, <1>2

\* A sentence is said: it waits behind the others.
LEMMA EnqueueStep ==
  ASSUME SpeechInv, NEW stopped, Enqueue(stopped)
  PROVE  SpeechInv'
<1> DEFINE p == said + 1
           stages == [stage EXCEPT ![p] = "queued"]
           sounds == [blob EXCEPT ![p] = IF backend THEN "pending" ELSE "null"]
<1>1. said \in Nat /\ said < MaxPhrases /\ MaxPhrases \in Nat /\ p \in Phrase
      /\ said' = p /\ blob' = sounds
  BY PhraseAssumption DEF SpeechInv, InOrder, Enqueue, Phrase
<1>2. IF pumping THEN stage' = stages /\ pumping' = pumping ELSE Pump(stages, sounds, stopped)
  BY DEF Enqueue
<1>3. /\ stages \in [Phrase -> Stage] /\ stages[p] = "queued"
      /\ \A o \in Phrase : o # p => stages[o] = stage[o]
  BY <1>1 DEF SpeechInv, InOrder, Stage
<1>4. /\ sounds \in [Phrase -> Blob] /\ sounds[p] # "none"
      /\ \A o \in Phrase : o # p => sounds[o] = blob[o]
  BY <1>1 DEF SpeechInv, InOrder, Blob
<1>5. p = said + 1 /\ p \in 0 .. MaxPhrases
  BY <1>1
<1> HIDE DEF stages, sounds, p
<1>6. \A o \in Phrase : stages[o] = "none" <=> o > p
  <2> SUFFICES ASSUME NEW o \in Phrase
               PROVE  stages[o] = "none" <=> o > p
    OBVIOUS
  <2>1. stage[o] = "none" <=> o > said
    BY DEF SpeechInv, InOrder
  <2>2. o \in Nat /\ p \in Nat
    BY <1>1 DEF Phrase
  <2>3. o # p => (o > said <=> o > p)
    BY <1>1, <1>5, <2>2
  <2>4. ~(p > p)
    BY <2>2
  <2> QED
    BY <1>3, <2>1, <2>3, <2>4
<1>7. \A o \in Phrase : o <= p => sounds[o] # "none"
  <2> SUFFICES ASSUME NEW o \in Phrase, o <= p
               PROVE  sounds[o] # "none"
    OBVIOUS
  <2>1. o # p => o <= said
    BY <1>1, <1>5 DEF Phrase
  <2> QED
    BY <1>4, <2>1 DEF SpeechInv, InOrder
<1>8. ASSUME NEW o \in Phrase, NEW q \in Phrase, o < q, stages[q] \in InPump \cup {"done"}
      PROVE  stages[o] \in {"done", "dropped"}
  <2>1. q # p
    BY <1>3, <1>8 DEF InPump
  <2>2. stage[o] \in {"done", "dropped"}
    BY <1>3, <1>8, <2>1 DEF SpeechInv, InOrder
  <2>3. stage[p] = "none"
    BY <1>1, <1>5 DEF SpeechInv, InOrder
  <2>4. o # p
    BY <2>2, <2>3
  <2> QED
    BY <1>3, <2>2, <2>4
<1>9. InOrder(stages, sounds, p)
  BY <1>3, <1>4, <1>5, <1>6, <1>7, <1>8 DEF InOrder
<1>10. CASE pumping
  BY <1>1, <1>2, <1>9, <1>10 DEF SpeechInv
<1>11. CASE ~pumping
  <2>1. Silent(stages)
    BY <1>3, <1>11 DEF SpeechInv, Silent, InPump
  <2>2. Pump(stages, sounds, stopped)
    BY <1>2, <1>11
  <2>3. InOrder(stage', sounds, p) /\ (pumping' \/ Silent(stage'))
    BY <1>9, <2>1, <2>2, PumpStep
  <2> QED
    BY <1>1, <2>3 DEF SpeechInv
<1> QED
  BY <1>10, <1>11

\* Only one sentence is in the hands of pump(); the earlier ones are over, and no later
\* one was read.
LEMMA OneIsTaken ==
  ASSUME SpeechInv, NEW p \in Phrase, stage[p] \in InPump
  PROVE  /\ \A o \in Phrase : o < p => stage[o] \in {"done", "dropped"}
         /\ \A o \in Phrase : o > p => stage[o] \notin InPump \cup {"done"}
<1>1. stage[p] \notin {"done", "dropped"}
  BY DEF InPump
<1> QED
  BY <1>1 DEF SpeechInv, InOrder, Phrase

\* The sentence that was taken goes on, or is over.
LEMMA TakenMoves ==
  ASSUME SpeechInv, NEW p \in Phrase, stage[p] \in InPump,
         NEW to \in InPump \cup {"done", "dropped"}
  PROVE  /\ InOrder([stage EXCEPT ![p] = to], blob, said)
         /\ to \in {"done", "dropped"} => Silent([stage EXCEPT ![p] = to])
<1> DEFINE stages == [stage EXCEPT ![p] = to]
<1>1. /\ stages \in [Phrase -> Stage] /\ stages[p] = to
      /\ \A o \in Phrase : o # p => stages[o] = stage[o]
  BY DEF SpeechInv, InOrder, Stage
<1>2. to # "none" /\ stage[p] # "none"
  BY DEF InPump
<1>3. /\ \A o \in Phrase : o < p => stage[o] \in {"done", "dropped"}
      /\ \A o \in Phrase : o > p => stage[o] \notin InPump \cup {"done"}
  BY OneIsTaken
<1> HIDE DEF stages
<1>4. ASSUME NEW o \in Phrase, NEW q \in Phrase, o < q, stages[q] \in InPump \cup {"done"}
      PROVE  stages[o] \in {"done", "dropped"}
  <2>1. q = p \/ q < p \/ q > p
    BY DEF Phrase
  <2>2. ~(q > p)
    BY <1>1, <1>3, <1>4 DEF Phrase
  <2>3. o < p
    BY <1>4, <2>1, <2>2 DEF Phrase
  <2>4. o # p
    BY <2>3 DEF Phrase
  <2> QED
    BY <1>1, <1>3, <2>3, <2>4
<1>5. \A o \in Phrase : stages[o] = "none" <=> o > said
  BY <1>1, <1>2 DEF SpeechInv, InOrder
<1>6. InOrder(stages, blob, said)
  BY <1>1, <1>4, <1>5 DEF SpeechInv, InOrder
<1>7. ASSUME to \in {"done", "dropped"}
      PROVE  Silent(stages)
  <2>1. to \notin InPump
    BY <1>7 DEF InPump
  <2>2. ASSUME NEW o \in Phrase
        PROVE  stages[o] \notin InPump
    <3>1. o = p \/ o < p \/ o > p
      BY DEF Phrase
    <3> QED
      BY <1>1, <1>3, <2>1, <3>1 DEF InPump
  <2> QED
    BY <2>2 DEF Silent
<1> QED
  BY <1>6, <1>7 DEF stages

\* The user mutes: what waits is dropped, what sounds stays in the hands of pump().
LEMMA HushStep ==
  ASSUME SpeechInv, CancelSpeech
  PROVE  SpeechInv'
<1>1. stage' = [p \in Phrase |-> Hush(stage[p])] /\ UNCHANGED <<blob, said, pumping>>
  BY DEF CancelSpeech
<1>2. ASSUME NEW p \in Phrase
      PROVE  /\ stage'[p] \in Stage
             /\ stage'[p] = "none" <=> stage[p] = "none"
             /\ stage'[p] \in InPump <=> stage[p] \in InPump
             /\ stage'[p] = "done" <=> stage[p] = "done"
             /\ stage[p] = "dropped" => stage'[p] = "dropped"
  <2>1. stage'[p] = Hush(stage[p]) /\ stage[p] \in Stage
    BY <1>1 DEF SpeechInv, InOrder
  <2> QED
    BY <2>1 DEF Hush, Stage, InPump
<1>3. stage' \in [Phrase -> Stage]
  BY <1>1, <1>2
<1>4. InOrder(stage', blob, said)
  BY <1>2, <1>3 DEF SpeechInv, InOrder
<1>5. pumping \/ Silent(stage')
  BY <1>2 DEF SpeechInv, Silent
<1> QED
  BY <1>1, <1>4, <1>5 DEF SpeechInv

\* A sound comes or fails, begins and ends.
LEMMA SoundStep ==
  ASSUME SpeechInv, NEW p \in Phrase, SynthEnds(p) \/ PlayStarts(p) \/ SoundEnds(p)
  PROVE  SpeechInv'
<1>0. ASSUME Silent(stage)
      PROVE  stage[p] \notin InPump
  BY <1>0 DEF Silent
<1>1. CASE SynthEnds(p)
  <2>1. PICK sound \in {"ok", "null"} :
          /\ blob[p] = "pending" /\ blob' = [blob EXCEPT ![p] = sound] /\ said' = said
          /\ \/ UNCHANGED <<stage, pumping>>
             \/ /\ stage[p] = "waiting"
                /\ stage' = [stage EXCEPT ![p] = "dropped"] /\ pumping' = FALSE
             \/ /\ stage[p] = "waiting"
                /\ stage' = [stage EXCEPT ![p] = Taken(sound)] /\ UNCHANGED pumping
    BY <1>1 DEF SynthEnds
  <2>2. /\ blob' \in [Phrase -> Blob] /\ blob'[p] # "none"
        /\ \A o \in Phrase : o # p => blob'[o] = blob[o]
    BY <2>1 DEF SpeechInv, InOrder, Blob
  <2>3. ASSUME NEW stages, InOrder(stages, blob, said)
        PROVE  InOrder(stages, blob', said')
    BY <2>1, <2>2, <2>3 DEF InOrder
  <2>4. CASE UNCHANGED <<stage, pumping>>
    BY <2>3, <2>4 DEF SpeechInv
  <2>5. CASE stage[p] = "waiting" /\ stage' = [stage EXCEPT ![p] = "dropped"]
    <3>1. stage[p] \in InPump /\ "dropped" \in InPump \cup {"done", "dropped"}
      BY <2>5 DEF InPump
    <3>2. InOrder(stage', blob, said) /\ Silent(stage')
      BY <2>5, <3>1, TakenMoves
    <3> QED
      BY <2>3, <3>2 DEF SpeechInv
  <2>6. CASE stage[p] = "waiting" /\ stage' = [stage EXCEPT ![p] = Taken(sound)] /\ UNCHANGED pumping
    <3>1. stage[p] \in InPump /\ Taken(sound) \in InPump \cup {"done", "dropped"}
      BY <2>1, <2>6 DEF InPump, Taken
    <3>2. InOrder(stage', blob, said)
      BY <2>6, <3>1, TakenMoves
    <3>3. pumping
      BY <1>0, <3>1 DEF SpeechInv
    <3> QED
      BY <2>3, <2>6, <3>2, <3>3 DEF SpeechInv
  <2> QED
    BY <2>1, <2>4, <2>5, <2>6
<1>2. CASE PlayStarts(p)
  <2>1. stage[p] \in InPump /\ "playing" \in InPump \cup {"done", "dropped"}
        /\ stage' = [stage EXCEPT ![p] = "playing"] /\ UNCHANGED <<blob, said, pumping>>
    BY <1>2 DEF PlayStarts, InPump
  <2>2. InOrder(stage', blob, said)
    BY <2>1, TakenMoves
  <2>3. pumping
    BY <1>0, <2>1 DEF SpeechInv
  <2> QED
    BY <2>1, <2>2, <2>3 DEF SpeechInv
<1>3. CASE SoundEnds(p)
  <2>1. stage[p] \in InPump /\ "done" \in InPump \cup {"done", "dropped"}
        /\ Pump([stage EXCEPT ![p] = "done"], blob, cancelled) /\ UNCHANGED <<blob, said>>
    BY <1>3 DEF SoundEnds, InPump
  <2>2. InOrder([stage EXCEPT ![p] = "done"], blob, said) /\ Silent([stage EXCEPT ![p] = "done"])
    BY <2>1, TakenMoves
  <2>3. InOrder(stage', blob, said) /\ (pumping' \/ Silent(stage'))
    BY <2>1, <2>2, PumpStep
  <2> QED
    BY <2>1, <2>3 DEF SpeechInv
<1> QED
  BY <1>1, <1>2, <1>3

\* It holds before a word is said.
LEMMA SpeechStarts == VoiceInit => SpeechInv
<1> SUFFICES ASSUME VoiceInit
             PROVE  SpeechInv
  OBVIOUS
<1>1. /\ stage = [p \in Phrase |-> "none"] /\ blob = [p \in Phrase |-> "none"] /\ said = 0
      /\ "none" \in Stage /\ "none" \in Blob /\ 0 \in 0 .. MaxPhrases
  BY PhraseAssumption DEF VoiceInit, Stage, Blob
<1>2. \A p \in Phrase : p > said /\ ~(p <= said)
  BY <1>1, PhraseAssumption DEF Phrase
<1>3. "none" \notin InPump \cup {"done"}
  BY DEF InPump
<1> QED
  BY <1>1, <1>2, <1>3 DEF SpeechInv, InOrder, Silent

\* Every step of the player keeps it.
LEMMA SpeechSteps == SpeechInv /\ [VoiceNext]_voiceVars => SpeechInv'
<1> SUFFICES ASSUME SpeechInv, [VoiceNext]_voiceVars
             PROVE  SpeechInv'
  OBVIOUS
<1>1. CASE UNCHANGED <<stage, blob, said, pumping>>
  BY <1>1 DEF SpeechInv
<1>2. CASE UNCHANGED voiceVars \/ SpeakPart \/ Listen
  BY <1>1, <1>2 DEF voiceVars, SpeakPart, Listen
<1>3. CASE SpeakSentence
  BY <1>3, EnqueueStep DEF SpeakSentence
<1>4. CASE Flush
  BY <1>4, EnqueueStep DEF Flush
<1> QED
  BY <1>2, <1>3, <1>4, HushStep, SoundStep DEF VoiceNext

\* The voice dialogue stays sound: whatever the order of permissions, answers, silences and
\* buttons, sentences are read in their order, a dialogue that listens has a recorder
\* that records, and a model of the voice engine is loaded once and used under its lock.
THEOREM DialogueStaysSound ==
  VoiceInit /\ RecorderInit /\ EngineInit
    /\ [][VoiceNext]_voiceVars /\ [][RecorderNext]_recorderVars /\ [][EngineNext]_engineVars
    => []DialogueIsSound
<1>1. SpeechInv => ReadInSequence
  BY DEF SpeechInv, InOrder, ReadInSequence
<1>2. RecorderInv => ListeningIsReal
  BY DEF RecorderInv
<1>3. EngineInv => ModelsAreKept
  BY DEF EngineInv, ModelsAreKept
<1>4. VoiceInit /\ [][VoiceNext]_voiceVars => []SpeechInv
  BY SpeechStarts, SpeechSteps, PTL
<1>5. RecorderInit /\ [][RecorderNext]_recorderVars => []RecorderInv
  BY RecorderStarts, RecorderSteps, PTL
<1>6. EngineInit /\ [][EngineNext]_engineVars => []EngineInv
  BY EngineStarts, EngineSteps, PTL
<1> QED
  BY <1>1, <1>2, <1>3, <1>4, <1>5, <1>6, PTL DEF DialogueIsSound

-----------------------------------------------------------------------------

\* S in order.
Ascends(s, S) ==
  /\ s \in [1 .. Cardinality(S) -> S]
  /\ \A c \in S : \E i \in DOMAIN s : s[i] = c
  /\ \A i, j \in DOMAIN s : i < j => s[i] < s[j]

\* Finitely many numbers stand in order, each of them once.
LEMMA StandInOrder ==
  ASSUME NEW S \in SUBSET Nat, IsFiniteSet(S)
  PROVE  Ascends(Ascending(S), S)
<1> DEFINE n == Cardinality(S)
           Good(k) == \A U \in SUBSET Nat : IsFiniteSet(U) /\ Cardinality(U) = k => \E s : Ascends(s, U)
           T == {k \in 0 .. n : Good(k)}
<1>1. n \in Nat
  BY FS_CardinalityType
<1>2. Good(0)
  <2> SUFFICES ASSUME NEW U \in SUBSET Nat, IsFiniteSet(U), Cardinality(U) = 0
               PROVE  \E s : Ascends(s, U)
    OBVIOUS
  <2>1. U = {}
    BY FS_EmptySet
  <2>2. << >> \in [1 .. 0 -> U] /\ DOMAIN << >> = {}
    OBVIOUS
  <2>3. Ascends(<< >>, U)
    BY <2>1, <2>2 DEF Ascends
  <2> QED
    BY <2>3
<1>3. \A k \in 1 .. n : Good(k - 1) => Good(k)
  <2> SUFFICES ASSUME NEW k \in 1 .. n, Good(k - 1),
                      NEW U \in SUBSET Nat, IsFiniteSet(U), Cardinality(U) = k
               PROVE  \E s : Ascends(s, U)
    OBVIOUS
  <2>1. U # {}
    BY FS_EmptySet
  <2>2. PICK x \in U : \A y \in U : x <= y
    BY <2>1, LeastNatural
  <2> DEFINE W == U \ {x}
  <2>3. IsFiniteSet(W) /\ Cardinality(W) = k - 1
    BY FS_RemoveElement
  <2>4. PICK t : Ascends(t, W)
    BY <2>3
  <2>5. /\ t \in [1 .. k - 1 -> W] /\ \A c \in W : \E i \in 1 .. k - 1 : t[i] = c
        /\ \A i, j \in 1 .. k - 1 : i < j => t[i] < t[j]
    BY <2>3, <2>4 DEF Ascends
  <2> DEFINE s == [i \in 1 .. k |-> IF i = 1 THEN x ELSE t[i - 1]]
  <2>6. s \in [1 .. k -> U]
    BY <2>5
  <2>7. \A c \in U : \E i \in 1 .. k : s[i] = c
    <3> SUFFICES ASSUME NEW c \in U
                 PROVE  \E i \in 1 .. k : s[i] = c
      OBVIOUS
    <3>1. CASE c = x
      BY <3>1
    <3>2. CASE c # x
      <4>1. PICK i \in 1 .. k - 1 : t[i] = c
        BY <2>5, <3>2
      <4>2. i + 1 \in 1 .. k /\ s[i + 1] = c
        BY <4>1
      <4> QED
        BY <4>2
    <3> QED
      BY <3>1, <3>2
  <2>8. \A i, j \in 1 .. k : i < j => s[i] < s[j]
    <3> SUFFICES ASSUME NEW i \in 1 .. k, NEW j \in 1 .. k, i < j
                 PROVE  s[i] < s[j]
      OBVIOUS
    <3>1. j - 1 \in 1 .. k - 1 /\ s[j] = t[j - 1] /\ t[j - 1] \in W
      BY <2>5
    <3>2. CASE i = 1
      <4>1. x <= t[j - 1] /\ t[j - 1] # x /\ s[i] = x
        BY <3>1, <3>2, <2>2
      <4>2. x \in Nat /\ t[j - 1] \in Nat
        BY <3>1
      <4> QED
        BY <3>1, <4>1, <4>2
    <3>3. CASE i # 1
      BY <3>1, <3>3, <2>5
    <3> QED
      BY <3>2, <3>3
  <2>9. Ascends(s, U)
    <3> HIDE DEF s
    <3> QED
      BY <2>6, <2>7, <2>8 DEF Ascends
  <2> QED
    BY <2>9
<1> HIDE DEF Good
<1>4. 0 .. n \subseteq T
  <2>1. 0 \in T /\ \A k \in 1 .. n : k - 1 \in T => k \in T
    BY <1>1, <1>2, <1>3
  <2> HIDE DEF T
  <2> QED
    BY <1>1, <2>1, UpTo
<1>5. \E s : Ascends(s, S)
  BY <1>1, <1>4 DEF Good
<1> DEFINE P(s) ==
      /\ \A c \in S : \E i \in DOMAIN s : s[i] = c
      /\ \A i, j \in DOMAIN s : i < j => s[i] < s[j]
<1>6. \E s \in [1 .. n -> S] : P(s)
  BY <1>5 DEF Ascends
<1>7. Ascending(S) = CHOOSE s \in [1 .. n -> S] : P(s)
  BY DEF Ascending
<1> HIDE DEF P, n
<1>8. Ascending(S) \in [1 .. n -> S] /\ P(Ascending(S))
  BY <1>6, <1>7
<1> QED
  BY <1>8 DEF P, n, Ascends

\* The calls of finitely many pieces are finitely many.
LEMMA CallsFinite ==
  ASSUME NEW s \in Seq(Piece), NEW kinds
  PROVE  CallsIn(s, kinds) \in SUBSET Nat /\ IsFiniteSet(CallsIn(s, kinds))
<1> DEFINE D == {j \in DOMAIN s : s[j].kind \in kinds}
           C == CallsIn(s, kinds)
           f == [j \in D |-> s[j].call]
<1>1. D \subseteq 1 .. Len(s) /\ Len(s) \in Nat /\ \A j \in 1 .. Len(s) : s[j] \in Piece
  OBVIOUS
<1>2. IsFiniteSet(D)
  <2>1. 1 \in Int /\ Len(s) \in Int
    BY <1>1
  <2>2. IsFiniteSet(1 .. Len(s))
    BY <2>1, FS_Interval
  <2> QED
    BY <1>1, <2>2, FS_Subset
<1>3. C \in SUBSET Nat
  BY <1>1 DEF CallsIn, Piece
<1>4. f \in Surjection(D, C)
  <2>1. f \in [D -> C] /\ \A c \in C : \E j \in D : f[j] = c
    BY DEF CallsIn
  <2> HIDE DEF f, D, C
  <2> QED
    BY <2>1 DEF Surjection
<1> QED
  <2> HIDE DEF f, D, C
  <2>1. IsFiniteSet(C)
    BY <1>2, <1>4, FS_Surjection
  <2> QED
    BY <1>3, <2>1 DEF C

\* What Only makes of pieces.
LEMMA OnlyKeeps ==
  ASSUME NEW s \in Seq(Piece), NEW K
  PROVE  Only(s, K) = Spread(s, Keeping(Piece, K))
<1> DEFINE e == Keeping(Piece, K)
<1>1. \A i \in 1 .. Len(s) : s[i] \in Piece
  OBVIOUS
<1>2. \A i \in 1 .. Len(s) : e[s[i]] = IF s[i] \in K THEN << s[i] >> ELSE << >>
  BY <1>1 DEF Keeping
<1> HIDE DEF e
<1>3. [i \in 1 .. Len(s) |-> e[s[i]]] = [i \in 1 .. Len(s) |-> IF s[i] \in K THEN << s[i] >> ELSE << >>]
  BY <1>2
<1>4. Spread(s, e) = Only(s, K)
  BY <1>3 DEF Spread, Only
<1> QED
  BY <1>4 DEF e

\* What is kept are the members that are wanted.
LEMMA OnlyMembers ==
  ASSUME NEW s \in Seq(Piece), NEW K
  PROVE  /\ Only(s, K) \in Seq(Piece)
         /\ \A i \in DOMAIN Only(s, K) : Only(s, K)[i] \in K /\ \E j \in DOMAIN s : Only(s, K)[i] = s[j]
         /\ \A j \in DOMAIN s : s[j] \in K => \E i \in DOMAIN Only(s, K) : Only(s, K)[i] = s[j]
BY OnlyKeeps, KeepMembers

\* To keep twice is to keep once.
LEMMA OnlyTwice ==
  ASSUME NEW s \in Seq(Piece), NEW K, NEW L, L \subseteq K
  PROVE  Only(Only(s, K), L) = Only(s, L)
<1> DEFINE m == Only(s, K)
<1>1. m \in Seq(Piece)
  BY OnlyMembers
<1>2. m = Spread(s, Keeping(Piece, K))
  BY OnlyKeeps
<1> HIDE DEF m
<1>3. Only(m, L) = Spread(m, Keeping(Piece, L)) /\ Only(s, L) = Spread(s, Keeping(Piece, L))
  BY <1>1, OnlyKeeps
<1>4. Spread(Spread(s, Keeping(Piece, K)), Keeping(Piece, L)) = Spread(s, Keeping(Piece, L))
  BY KeepTwice
<1>5. Only(m, L) = Only(s, L)
  BY <1>2, <1>3, <1>4
<1> QED
  BY <1>5 DEF m

\* Pieces that come later are kept behind the others.
LEMMA OnlyConcat ==
  ASSUME NEW s \in Seq(Piece), NEW t \in Seq(Piece), NEW K
  PROVE  Only(s \o t, K) = Only(s, K) \o Only(t, K)
<1> DEFINE e == Keeping(Piece, K)
           both == s \o t
<1>1. Maps(e, Piece, Piece)
  BY KeepingMaps
<1>2. both \in Seq(Piece)
  OBVIOUS
<1>3. Only(s, K) = Spread(s, e) /\ Only(t, K) = Spread(t, e)
  BY OnlyKeeps
<1>4. Only(both, K) = Spread(both, e)
  <2> HIDE DEF both
  <2> QED
    BY <1>2, OnlyKeeps
<1> HIDE DEF e
<1>5. Spread(s \o t, e) = Spread(s, e) \o Spread(t, e)
  BY <1>1, SpreadConcat
<1> QED
  BY <1>3, <1>4, <1>5

\* The calls of pieces that follow each other.
LEMMA CallsConcat ==
  ASSUME NEW s \in Seq(Piece), NEW t \in Seq(Piece), NEW kinds
  PROVE  CallsIn(s \o t, kinds) = CallsIn(s, kinds) \cup CallsIn(t, kinds)
<1> DEFINE u == s \o t
<1>1. /\ \A i \in DOMAIN s : i \in DOMAIN u /\ u[i] = s[i]
      /\ \A i \in DOMAIN t : Len(s) + i \in DOMAIN u /\ u[Len(s) + i] = t[i]
      /\ \A i \in DOMAIN u : \/ i \in DOMAIN s /\ u[i] = s[i]
                             \/ i - Len(s) \in DOMAIN t /\ u[i] = t[i - Len(s)]
  OBVIOUS
<1> HIDE DEF u
<1>2. CallsIn(u, kinds) = CallsIn(s, kinds) \cup CallsIn(t, kinds)
  BY <1>1 DEF CallsIn
<1> QED
  BY <1>2 DEF u

\* The pieces of a call that has none are none.
LEMMA NoPieces ==
  ASSUME NEW s \in Seq(Piece), NEW kinds, NEW c, c \notin CallsIn(s, kinds)
  PROVE  PiecesOf(s, kinds, c) = << >>
<1> DEFINE K == [kind : kinds, call : {c}]
           m == Only(s, K)
<1>0. m = PiecesOf(s, kinds, c)
  BY DEF PiecesOf
<1> HIDE DEF K
<1>1. /\ m \in Seq(Piece)
      /\ \A i \in DOMAIN m : m[i] \in K /\ \E j \in DOMAIN s : m[i] = s[j]
  BY OnlyMembers
<1> HIDE DEF m
<1>2. ASSUME NEW i \in DOMAIN m PROVE FALSE
  <2>1. PICK j \in DOMAIN s : m[i] = s[j]
    BY <1>1
  <2>2. s[j].kind \in kinds /\ s[j].call = c
    BY <1>1, <2>1 DEF K
  <2> QED
    BY <2>2 DEF CallsIn
<1>3. m = << >>
  BY <1>1, <1>2
<1> QED
  BY <1>0, <1>3

-----------------------------------------------------------------------------

\* What a call was given, its pieces and no others, of those that came.
GatheredOf(entries, s) ==
  /\ DOMAIN entries = CallsIn(s, Structured)
  /\ entries = [c \in CallsIn(s, Structured) |-> PiecesOf(s, Structured, c)]

\* The pieces of a chunk go to the calls they belong to.
LEMMA Accumulates ==
  ASSUME NEW s \in Seq(Piece), NEW t \in Seq(Piece), GatheredOf(acc, s)
  PROVE  GatheredOf(Accumulate(t), s \o t)
<1> DEFINE C == CallsIn(s, Structured)
           E == CallsIn(t, Structured)
           P(c) == PiecesOf(s, Structured, c)
           Q(c) == PiecesOf(t, Structured, c)
<1>1. CallsIn(s \o t, Structured) = C \cup E
  BY CallsConcat
<1>2. \A c \in C \cup E : PiecesOf(s \o t, Structured, c) = P(c) \o Q(c)
  BY OnlyConcat DEF PiecesOf
<1>3. DOMAIN acc = C /\ \A c \in C : acc[c] = P(c)
  BY DEF GatheredOf
<1>4. \A c \in E \ C : P(c) = << >>
  BY NoPieces
<1>5. Accumulate(t) = [c \in C \cup E |-> (IF c \in C THEN acc[c] ELSE << >>) \o Q(c)]
  BY <1>3 DEF Accumulate
<1> HIDE DEF C, E, P, Q
<1>6. Accumulate(t) = [c \in C \cup E |-> P(c) \o Q(c)]
  BY <1>3, <1>4, <1>5
<1>7. Accumulate(t) = [c \in CallsIn(s \o t, Structured) |-> PiecesOf(s \o t, Structured, c)]
  BY <1>1, <1>2, <1>6
<1> QED
  BY <1>7 DEF GatheredOf

\* What the stream hands over at a finish_reason: each call that was gathered, once.
LEMMA HandsOver ==
  ASSUME NEW s \in Seq(Piece), NEW entries, GatheredOf(entries, s), NEW finish
  PROVE  LET calls == Calls(entries, finish) IN
         /\ calls \in Seq([call : Nat, whole : BOOLEAN])
         /\ finish \notin {"tool_calls", "stop"} => calls = << >>
         /\ finish \in {"tool_calls", "stop"} =>
              /\ {calls[i].call : i \in DOMAIN calls} = CallsIn(s, Structured)
              /\ \A i, j \in DOMAIN calls : i < j => calls[i].call < calls[j].call
              /\ s = script => \A i \in DOMAIN calls : calls[i].whole
<1> DEFINE calls == Calls(entries, finish)
           D == CallsIn(s, Structured)
           o == Ascending(D)
           n == Cardinality(D)
<1>1. CASE finish \notin {"tool_calls", "stop"}
  <2>1. calls = << >>
    BY <1>1 DEF Calls
  <2>2. << >> \in Seq([call : Nat, whole : BOOLEAN])
    OBVIOUS
  <2> HIDE DEF calls
  <2> QED
    BY <1>1, <2>1, <2>2 DEF calls
<1>2. CASE finish \in {"tool_calls", "stop"}
  <2>1. D \in SUBSET Nat /\ IsFiniteSet(D)
    BY CallsFinite
  <2>2. Ascends(o, D)
    <3> HIDE DEF D
    <3> QED
      BY <2>1, StandInOrder
  <2>3. n \in Nat
    BY <2>1, FS_CardinalityType
  <2>4. /\ o \in [1 .. n -> D] /\ DOMAIN o = 1 .. n /\ \A c \in D : \E i \in 1 .. n : o[i] = c
        /\ \A i, j \in 1 .. n : i < j => o[i] < o[j]
    BY <2>2 DEF Ascends
  <2>5. DOMAIN entries = D /\ \A c \in D : entries[c] = PiecesOf(s, Structured, c)
    BY DEF GatheredOf
  <2>6. calls = [i \in 1 .. n |-> [call |-> o[i], whole |-> Whole(entries[o[i]], Structured, o[i])]]
    BY <1>2, <2>4, <2>5 DEF Calls
  <2>7. s = script => \A c \in D : Whole(entries[c], Structured, c)
    <3> SUFFICES ASSUME s = script, NEW c \in D
                 PROVE  Whole(entries[c], Structured, c)
      OBVIOUS
    <3> DEFINE K == [kind : Structured, call : {c}]
    <3>1. K \subseteq K
      OBVIOUS
    <3> HIDE DEF K
    <3>2. Only(Only(s, K), K) = Only(s, K)
      BY <3>1, OnlyTwice
    <3> QED
      BY <2>5, <3>2 DEF Whole, PiecesOf, K
  <2>8. \A i \in 1 .. n : Whole(entries[o[i]], Structured, o[i]) \in BOOLEAN
    BY DEF Whole
  <2> HIDE DEF calls, o, n, D
  <2>9. /\ DOMAIN calls = 1 .. n
        /\ \A i \in 1 .. n :
             /\ calls[i] = [call |-> o[i], whole |-> Whole(entries[o[i]], Structured, o[i])]
             /\ calls[i].call = o[i] /\ calls[i].whole = Whole(entries[o[i]], Structured, o[i])
             /\ o[i] \in D
    BY <2>4, <2>6
  <2>10. calls \in [1 .. n -> [call : Nat, whole : BOOLEAN]]
    <3>1. ASSUME NEW i \in 1 .. n
          PROVE  calls[i] \in [call : Nat, whole : BOOLEAN]
      <4> DEFINE w == Whole(entries[o[i]], Structured, o[i])
      <4>1. w \in BOOLEAN /\ o[i] \in Nat /\ calls[i] = [call |-> o[i], whole |-> w]
        BY <2>1, <2>8, <2>9
      <4> HIDE DEF w
      <4> QED
        BY <4>1
    <3> QED
      BY <2>6, <2>9, <3>1
  <2>11. calls \in Seq([call : Nat, whole : BOOLEAN])
    <3> DEFINE R == [call : Nat, whole : BOOLEAN]
    <3>1. calls \in [1 .. n -> R]
      BY <2>10
    <3> HIDE DEF R
    <3>2. calls \in Seq(R)
      BY <2>3, <3>1
    <3> QED
      BY <3>2 DEF R
  <2>12. {calls[i].call : i \in DOMAIN calls} = D
    BY <2>4, <2>9
  <2>13. \A i, j \in DOMAIN calls : i < j => calls[i].call < calls[j].call
    BY <2>4, <2>9
  <2>14. s = script => \A i \in DOMAIN calls : calls[i].whole
    BY <2>7, <2>9
  <2> QED
    BY <1>2, <2>11, <2>12, <2>13, <2>14 DEF calls, D
<1> QED
  BY <1>1, <1>2

\* What came so far is where the loop has it.
Came == SubSeq(script, 1, sent)

StreamInv ==
  /\ script \in Script /\ sent \in 0 .. Len(script)
  /\ counters \in [usage : BOOLEAN, finish : Finish \cup {"none"}]
  /\ reply = "reading" =>
       /\ GatheredOf(acc, Came) /\ content = Only(Came, Shown)
       /\ taken = Calls(acc, counters.finish)
       /\ server = "sending" => counters.finish = "none" /\ ~counters.usage
       /\ server # "sending" => counters.finish # "none"
       /\ counters.finish \in {"tool_calls", "stop"} => sent = Len(script)
  /\ CallsAreWhole

\* The calls written into a text are found in what the loop kept of it.
LEMMA WrittenFound ==
  ASSUME NEW s \in Seq(Piece), Sorted(s)
  PROVE  LET m == Only(s, Shown) IN
         /\ m \in Seq(Piece)
         /\ CallsIn(m, {"written"}) = CallsIn(s, {"written"})
         /\ \A c : PiecesOf(m, {"written"}, c) = PiecesOf(s, {"written"}, c) \/ c \notin Nat
         /\ \A i \in DOMAIN m : m[i] \in Shown /\ \E j \in DOMAIN s : m[i] = s[j]
<1> DEFINE m == Only(s, Shown)
<1>1. /\ m \in Seq(Piece)
      /\ \A i \in DOMAIN m : m[i] \in Shown /\ \E j \in DOMAIN s : m[i] = s[j]
      /\ \A j \in DOMAIN s : s[j] \in Shown => \E i \in DOMAIN m : m[i] = s[j]
  BY OnlyMembers
<1>2. \A c \in Nat : PiecesOf(m, {"written"}, c) = PiecesOf(s, {"written"}, c)
  <2> SUFFICES ASSUME NEW c \in Nat
               PROVE  PiecesOf(m, {"written"}, c) = PiecesOf(s, {"written"}, c)
    OBVIOUS
  <2> DEFINE L == [kind : {"written"}, call : {c}]
  <2>1. L \subseteq Shown
    BY DEF Shown
  <2> HIDE DEF L
  <2>2. Only(Only(s, Shown), L) = Only(s, L)
    BY <2>1, OnlyTwice
  <2> QED
    BY <2>2 DEF PiecesOf, L
<1> HIDE DEF m
<1>3. \A j \in DOMAIN s : s[j].kind = "written" => s[j] \in Shown
  <2>1. \A j \in DOMAIN s : s[j] \in Piece
    OBVIOUS
  <2> QED
    BY <2>1 DEF Shown, Piece
<1>4. CallsIn(m, {"written"}) = CallsIn(s, {"written"})
  BY <1>1, <1>3 DEF CallsIn
<1> QED
  BY <1>1, <1>2, <1>4 DEF m

\* Nothing came yet.
LEMMA StreamBegins == StreamInit => StreamInv
<1> SUFFICES ASSUME StreamInit PROVE StreamInv
  OBVIOUS
<1> USE DEF StreamInit
<1>1. script \in Seq(Piece)
  BY ScriptAssumption
<1>2. Came = << >> /\ Len(script) \in Nat
  BY <1>1 DEF Came
<1>3. CallsIn(<< >>, Structured) = {}
  BY DEF CallsIn
<1>4. GatheredOf(acc, Came)
  BY <1>2, <1>3 DEF GatheredOf
<1>5. Only(<< >>, Shown) = << >>
  <2>1. [i \in 1 .. Len(<< >>) |-> IF << >>[i] \in Shown THEN << << >>[i] >> ELSE << >>] = << >>
    OBVIOUS
  <2> QED
    BY <2>1, FlattenNone DEF Only
<1>6. taken = Calls(acc, counters.finish)
  BY DEF Calls
<1> QED
  BY <1>2, <1>4, <1>5, <1>6 DEF StreamInv, CallsAreWhole, Finish

\* A chunk comes, alone or with the finish_reason.
LEMMA ChunkKeeps == ASSUME StreamInv, Chunk PROVE StreamInv'
<1> USE DEF StreamInv
<1>1. /\ reply = "reading" /\ server = "sending" /\ reply' = "reading" /\ script' = script
      /\ script \in Seq(Piece)
  BY ScriptAssumption DEF Chunk, Reading
<1>2. PICK n \in 0 .. MaxPieces, finish \in Finish \cup {"none"} :
        /\ sent + n <= Len(script) /\ (n > 0 \/ finish # "none")
        /\ finish \in {"tool_calls", "stop"} => sent + n = Len(script)
        /\ sent' = sent + n
        /\ server' = IF finish = "none" THEN server ELSE "finished"
        /\ Normalize(SubSeq(script, sent + 1, sent + n), finish)
  BY DEF Chunk
<1> DEFINE t == SubSeq(script, sent + 1, sent + n)
<1>3. /\ sent' \in 0 .. Len(script) /\ n \in Nat /\ sent \in Nat
      /\ Came \in Seq(Piece) /\ t \in Seq(Piece)
      /\ Came \o t = SubSeq(script, 1, sent + n)
  <2>1. n \in Nat /\ sent \in Nat /\ Len(script) \in Nat /\ sent' \in 0 .. Len(script)
    BY <1>1, <1>2, ScriptAssumption
  <2>2. Came \in Seq(Piece) /\ t \in Seq(Piece)
    BY <1>1, <1>2, <2>1 DEF Came
  <2>3. Came \o t = SubSeq(script, 1, sent + n)
    BY <1>1, <1>2, <2>1 DEF Came
  <2> QED
    BY <2>1, <2>2, <2>3
<1>4. Came' = Came \o t
  BY <1>1, <1>2, <1>3 DEF Came
<1>5. /\ acc' = Accumulate(t)
      /\ taken' = taken \o Calls(acc', finish)
      /\ content' = content \o Only(t, Shown)
      /\ counters' = [counters EXCEPT !.finish = IF finish = "none" THEN @ ELSE finish]
  BY <1>2 DEF Normalize
<1> HIDE DEF t
<1>6. GatheredOf(acc', Came')
  BY <1>1, <1>3, <1>4, <1>5, Accumulates
<1>7. content' = Only(Came', Shown)
  <2> DEFINE c == Came
  <2>1. c \in Seq(Piece) /\ Came' = c \o t /\ content' = Only(c, Shown) \o Only(t, Shown)
    BY <1>1, <1>3, <1>4, <1>5
  <2> HIDE DEF c
  <2>2. Only(c \o t, Shown) = Only(c, Shown) \o Only(t, Shown)
    BY <2>1, <1>3, OnlyConcat
  <2> QED
    BY <2>1, <2>2
<1>8. counters' = [usage |-> FALSE, finish |-> finish]
  BY <1>1, <1>5
<1>9. taken = << >>
  BY <1>1 DEF Calls
<1>10. taken' = Calls(acc', finish)
  <2> DEFINE calls == Calls(acc', finish)
  <2>1. Came' \in Seq(Piece)
    <3> DEFINE c == Came
    <3>1. c \in Seq(Piece) /\ t \in Seq(Piece)
      BY <1>3
    <3> HIDE DEF c
    <3>2. c \o t \in Seq(Piece)
      BY <3>1
    <3> QED
      BY <3>2, <1>4 DEF c
  <2>2. calls \in Seq([call : Nat, whole : BOOLEAN])
    BY <2>1, <1>6, HandsOver
  <2>3. taken' = << >> \o calls
    BY <1>5, <1>9
  <2> HIDE DEF calls
  <2>4. taken' = calls
    BY <2>2, <2>3
  <2> QED
    BY <2>4 DEF calls
<1>11. Calls(acc', finish) = Calls(acc, counters.finish)'
  BY <1>1, <1>8 DEF Calls, Whole
<1>12. /\ counters' \in [usage : BOOLEAN, finish : Finish \cup {"none"}]
       /\ counters'.finish = finish /\ ~counters'.usage
  BY <1>8
<1>13. CallsAreWhole'
  BY <1>1 DEF CallsAreWhole
<1>14. /\ server' = "sending" => finish = "none"
       /\ server' # "sending" => finish # "none"
  BY <1>1, <1>2
<1> QED
  BY <1>1, <1>2, <1>3, <1>6, <1>7, <1>10, <1>11, <1>12, <1>13, <1>14 DEF GatheredOf

\* The counters come.
LEMMA UsageKeeps == ASSUME StreamInv, Usage PROVE StreamInv'
<1> USE DEF StreamInv
<1>1. /\ reply = "reading" /\ server = "finished" /\ server' = "counted"
      /\ counters' = [counters EXCEPT !.usage = TRUE]
      /\ UNCHANGED <<script, sent, acc, taken, content, reply>>
  BY DEF Usage, Reading
<1>2. counters' \in [usage : BOOLEAN, finish : Finish \cup {"none"}] /\ counters'.finish = counters.finish
  BY <1>1
<1>3. Calls(acc, counters.finish)' = Calls(acc, counters.finish)
  BY <1>1, <1>2 DEF Calls, Whole
<1>4. Came' = Came
  BY <1>1 DEF Came
<1>5. CallsAreWhole'
  BY <1>1 DEF CallsAreWhole
<1> QED
  BY <1>1, <1>2, <1>3, <1>4, <1>5

\* Of a broken answer nothing is run.
LEMMA BrokenKeeps == ASSUME StreamInv, Broken PROVE StreamInv'
<1>1. reply' = "failed" /\ UNCHANGED <<script, sent, counters>>
  BY DEF Broken
<1> QED
  BY <1>1 DEF StreamInv, CallsAreWhole

\* The answer is over: the calls are run, those of the text when there are no others.
LEMMA ExhaustedKeeps == ASSUME StreamInv, Exhausted PROVE StreamInv'
<1> USE DEF StreamInv
<1> DEFINE W == WrittenCalls
           o == Ascending(W)
           C == CallsIn(script, Structured)
<1>1. /\ reply = "reading" /\ reply' = "answered"
      /\ IF taken = << >> /\ W # {}
         THEN /\ taken' = [i \in DOMAIN o |-> [call |-> o[i], whole |-> TRUE]]
              /\ content' = Only(content, [kind : PieceKind, call : Nat \ W])
         ELSE UNCHANGED <<taken, content>>
      /\ counters' = [counters EXCEPT !.finish = IF @ = "none" THEN "stop" ELSE @]
      /\ UNCHANGED <<script, sent, acc>>
  BY DEF Exhausted, Reading
<1>2. script \in Seq(Piece) /\ Sorted(script)
  BY ScriptAssumption
<1>3. Came \in Seq(Piece) /\ \A i \in DOMAIN Came : i \in DOMAIN script /\ Came[i] = script[i]
  BY <1>2 DEF Came
<1>4. Sorted(Came)
  BY <1>2, <1>3 DEF Sorted
<1>5. sent = Len(script) => Came = script
  BY <1>2 DEF Came
<1>6. /\ content \in Seq(Piece)
      /\ CallsIn(content, {"written"}) = CallsIn(Came, {"written"})
      /\ \A c \in Nat : PiecesOf(content, {"written"}, c) = PiecesOf(Came, {"written"}, c)
      /\ \A i \in DOMAIN content : content[i] \in Shown /\ \E j \in DOMAIN Came : content[i] = Came[j]
  BY <1>1, <1>3, <1>4, WrittenFound
<1>7. /\ taken \in Seq([call : Nat, whole : BOOLEAN])
      /\ counters.finish \notin {"tool_calls", "stop"} => taken = << >>
      /\ counters.finish \in {"tool_calls", "stop"} =>
           /\ {taken[i].call : i \in DOMAIN taken} = CallsIn(Came, Structured)
           /\ \A i, j \in DOMAIN taken : i < j => taken[i].call < taken[j].call
           /\ Came = script => \A i \in DOMAIN taken : taken[i].whole
  <2> DEFINE f == counters.finish
             c == Came
  <2>1. taken = Calls(acc, f) /\ c \in Seq(Piece) /\ GatheredOf(acc, c)
    BY <1>1, <1>3
  <2> HIDE DEF f, c
  <2>2. /\ taken \in Seq([call : Nat, whole : BOOLEAN])
        /\ f \notin {"tool_calls", "stop"} => taken = << >>
        /\ f \in {"tool_calls", "stop"} =>
             /\ {taken[i].call : i \in DOMAIN taken} = CallsIn(c, Structured)
             /\ \A i, j \in DOMAIN taken : i < j => taken[i].call < taken[j].call
             /\ c = script => \A i \in DOMAIN taken : taken[i].whole
    <3> DEFINE k == Calls(acc, f)
    <3>1. /\ k \in Seq([call : Nat, whole : BOOLEAN])
          /\ f \notin {"tool_calls", "stop"} => k = << >>
          /\ f \in {"tool_calls", "stop"} =>
               /\ {k[i].call : i \in DOMAIN k} = CallsIn(c, Structured)
               /\ \A i, j \in DOMAIN k : i < j => k[i].call < k[j].call
               /\ c = script => \A i \in DOMAIN k : k[i].whole
      BY <2>1, HandsOver
    <3>2. taken = k
      BY <2>1
    <3> HIDE DEF k
    <3> QED
      BY <3>1, <3>2
  <2> QED
    BY <2>2 DEF f, c
<1>8. /\ counters' \in [usage : BOOLEAN, finish : Finish \cup {"none"}]
      /\ counters'.usage = counters.usage
      /\ counters.usage => counters'.finish = counters.finish
  BY <1>1 DEF Finish
<1>9. /\ W \subseteq CallsIn(Came, {"written"})
      /\ W \in SUBSET Nat /\ IsFiniteSet(W)
      /\ sent = Len(script) => W = CallsIn(script, {"written"})
  <2>1. CallsIn(Came, {"written"}) \in SUBSET Nat /\ IsFiniteSet(CallsIn(Came, {"written"}))
    BY <1>3, CallsFinite
  <2>2. W = {c \in CallsIn(Came, {"written"}) : Whole(content, {"written"}, c)}
    BY <1>6 DEF WrittenCalls
  <2>3. IsFiniteSet(W)
    BY <2>1, <2>2, FS_Subset
  <2>4. sent = Len(script) => \A c \in CallsIn(Came, {"written"}) : Whole(content, {"written"}, c)
    BY <1>5, <1>6, <2>1 DEF Whole
  <2> HIDE DEF W
  <2> QED
    BY <1>5, <2>1, <2>2, <2>3, <2>4
<1>10. counters.finish \in {"tool_calls", "stop"} => Came = script
  BY <1>1, <1>5
<1>11. counters'.finish \in {"tool_calls", "stop"} /\ sent' = Len(script)' /\ counters'.usage =>
         counters.finish \in {"tool_calls", "stop"} /\ sent = Len(script)
  <2>1. script' = script /\ sent' = sent
    BY <1>1
  <2> QED
    BY <1>8, <2>1
<1> DEFINE Answered(tk, ct) ==
             /\ \A i, j \in DOMAIN tk : i < j => tk[i].call < tk[j].call
             /\ \A i \in DOMAIN tk : tk[i].whole
             /\ counters.finish \in {"tool_calls", "stop"} /\ sent = Len(script) =>
                  {tk[i].call : i \in DOMAIN tk} = IF C # {} THEN C ELSE CallsIn(script, {"written"})
             /\ \A i \in DOMAIN tk, j \in DOMAIN ct : ct[j].call # tk[i].call
<1>12. CASE taken = << >> /\ W # {}
  <2>1. Ascends(o, W)
    BY <1>9, StandInOrder
  <2>2. Cardinality(W) \in Nat
    BY <1>9, FS_CardinalityType
  <2> DEFINE n == Cardinality(W)
             K == [kind : PieceKind, call : Nat \ W]
             tk == [i \in DOMAIN o |-> [call |-> o[i], whole |-> TRUE]]
             ct == Only(content, K)
  <2>3. /\ o \in [1 .. n -> W] /\ DOMAIN o = 1 .. n /\ \A c \in W : \E i \in 1 .. n : o[i] = c
        /\ \A i, j \in 1 .. n : i < j => o[i] < o[j]
    BY <2>1 DEF Ascends
  <2>4. taken' = tk /\ content' = ct
    BY <1>1, <1>12
  <2>5. \A j \in DOMAIN ct : ct[j] \in K
    <3> HIDE DEF K
    <3> QED
      BY <1>6, OnlyMembers
  <2>6. \A j \in DOMAIN ct : ct[j].call \notin W
    BY <2>5
  <2> HIDE DEF ct, W, o
  <2>7. DOMAIN tk = 1 .. n /\ \A i \in 1 .. n : tk[i].call = o[i] /\ tk[i].whole = TRUE /\ o[i] \in W
    BY <2>3
  <2> HIDE DEF tk
  <2>8. \A i, j \in DOMAIN tk : i < j => tk[i].call < tk[j].call
    BY <2>3, <2>7
  <2>9. {tk[i].call : i \in DOMAIN tk} = W
    BY <2>3, <2>7
  <2>10. counters.finish \in {"tool_calls", "stop"} /\ sent = Len(script) =>
           C = {} /\ W = CallsIn(script, {"written"})
    BY <1>5, <1>7, <1>9, <1>12
  <2>11. \A i \in DOMAIN tk, j \in DOMAIN ct : ct[j].call # tk[i].call
    BY <2>6, <2>7
  <2>12. Answered(tk, ct)
    <3> HIDE DEF C
    <3> QED
      BY <2>7, <2>8, <2>9, <2>10, <2>11
  <2> QED
    <3> HIDE DEF Answered
    <3>1. Answered(taken', content')
      BY <2>4, <2>12
    <3> QED
      BY <3>1, <1>1, <1>8, <1>11 DEF Answered, CallsAreWhole
<1>13. CASE ~(taken = << >> /\ W # {})
  <2>1. taken' = taken /\ content' = content
    BY <1>1, <1>13
  <2>2. ASSUME taken = << >> PROVE Answered(taken, content)
    <3>1. DOMAIN taken = {}
      BY <2>2
    <3>2. {taken[i].call : i \in DOMAIN taken} = {}
      BY <3>1
    <3>3. counters.finish \in {"tool_calls", "stop"} /\ sent = Len(script) =>
            C = {} /\ CallsIn(script, {"written"}) = {}
      BY <2>2, <3>2, <1>5, <1>7, <1>9, <1>13
    <3> HIDE DEF W, C
    <3> QED
      BY <3>1, <3>2, <3>3
  <2>3. ASSUME taken # << >> PROVE Answered(taken, content)
    <3>1. counters.finish \in {"tool_calls", "stop"} /\ Came = script
      BY <2>3, <1>7, <1>10
    <3>2. /\ {taken[i].call : i \in DOMAIN taken} = C
          /\ \A i, j \in DOMAIN taken : i < j => taken[i].call < taken[j].call
          /\ \A i \in DOMAIN taken : taken[i].whole
      BY <3>1, <1>7
    <3>3. C # {}
      <4>1. 1 \in DOMAIN taken
        BY <2>3, <1>7
      <4>2. taken[1].call \in {taken[i].call : i \in DOMAIN taken}
        BY <4>1
      <4> QED
        BY <3>2, <4>2
    <3>4. ASSUME NEW i \in DOMAIN taken, NEW j \in DOMAIN content
          PROVE  content[j].call # taken[i].call
      <4>1. PICK a \in DOMAIN script : script[a].kind \in Structured /\ script[a].call = taken[i].call
        <5>1. taken[i].call \in C
          BY <3>2
        <5> QED
          BY <5>1 DEF CallsIn
      <4>2. PICK b \in DOMAIN script : content[j] = script[b] /\ script[b].kind \in {"text", "written"}
        <5>1. PICK b \in DOMAIN Came : content[j] = Came[b]
          BY <1>6
        <5>2. content[j] \in Shown
          BY <1>6
        <5> QED
          BY <3>1, <5>1, <5>2 DEF Shown
      <4>3. script[a].kind # "text" /\ script[a].kind # "written"
        BY <4>1 DEF Structured
      <4> SUFFICES ASSUME script[b].call = script[a].call PROVE FALSE
        BY <4>1, <4>2
      <4>4. script[b].kind = "written" <=> script[a].kind = "written"
        BY <1>2 DEF Sorted
      <4>5. script[b].kind = "text" <=> script[a].kind = "text"
        BY <1>2 DEF Sorted
      <4> QED
        BY <4>2, <4>3, <4>4, <4>5
    <3> HIDE DEF C
    <3> QED
      BY <3>1, <3>2, <3>3, <3>4
  <2>4. Answered(taken, content)
    BY <2>2, <2>3
  <2> HIDE DEF Answered
  <2>5. Answered(taken', content')
    BY <2>1, <2>4
  <2> QED
    BY <2>5, <1>1, <1>8, <1>11 DEF Answered, CallsAreWhole
<1>14. CallsAreWhole'
  BY <1>12, <1>13
<1> QED
  BY <1>1, <1>8, <1>14

\* However an answer is cut into chunks, and whenever it stops: the calls that the loop
\* runs are whole, in order and none is missing or shown as text (_normalize_chunk,
\* salvage_tool_calls).
THEOREM AnswersAreWhole == StreamSpec => []CallsAreWhole
<1>1. StreamInit => StreamInv
  BY StreamBegins
<1>2. StreamInv /\ [StreamNext]_streamVars => StreamInv'
  <2> SUFFICES ASSUME StreamInv, [StreamNext]_streamVars PROVE StreamInv'
    OBVIOUS
  <2>1. CASE Chunk
    BY <2>1, ChunkKeeps
  <2>2. CASE Usage
    BY <2>2, UsageKeeps
  <2>3. CASE Exhausted
    BY <2>3, ExhaustedKeeps
  <2>4. CASE Broken
    BY <2>4, BrokenKeeps
  <2>5. CASE UNCHANGED streamVars
    <3>1. UNCHANGED <<script, sent, server, acc, taken, content, counters, reply>>
      BY <2>5 DEF streamVars
    <3>2. Calls(acc, counters.finish)' = Calls(acc, counters.finish) /\ Came' = Came
      BY <3>1 DEF Calls, Whole, Came
    <3>3. CallsAreWhole' = CallsAreWhole
      BY <3>1 DEF CallsAreWhole
    <3> QED
      BY <3>1, <3>2, <3>3 DEF StreamInv, GatheredOf
  <2> QED
    BY <2>1, <2>2, <2>3, <2>4, <2>5 DEF StreamNext
<1>3. StreamInv => CallsAreWhole
  BY DEF StreamInv
<1> QED
  BY <1>1, <1>2, <1>3, PTL DEF StreamSpec

=============================================================================
