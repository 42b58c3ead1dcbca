---------------------------- MODULE SequenceFacts ----------------------------
(***************************************************************************)
(* Facts about what is computed along a sequence, for sequences of any     *)
(* length.  The induction is over a set of numbers: the least one at which *)
(* something fails.                                                        *)
(***************************************************************************)
EXTENDS Naturals, Sequences, SequencesExt, SequenceTheorems, WellFoundedInduction, TLAPS

\* A set of natural numbers that is not empty has a least one.
LEMMA LeastNatural ==
  ASSUME NEW T \in SUBSET Nat, T # {}
  PROVE  \E x \in T : \A y \in T : x <= y
<1> DEFINE R == OpToRel(<, Nat)
<1>1. IsWellFoundedOn(R, Nat)
  BY NatLessThanWellFounded
<1>2. \A x, y \in Nat : <<y, x>> \in R <=> y < x
  BY DEF OpToRel
<1> HIDE DEF R
<1>3. PICK x \in T : \A y \in T : <<y, x>> \notin R
  BY <1>1, WFMin
<1>4. \A y \in T : ~(y < x)
  BY <1>2, <1>3
<1> QED
  BY <1>4

\* A set of numbers up to n that has 0, and with each number the next one, has all of them.
LEMMA UpTo ==
  ASSUME NEW n \in Nat, NEW T, 0 \in T, \A i \in 1 .. n : i - 1 \in T => i \in T
  PROVE  0 .. n \subseteq T
<1> SUFFICES ASSUME ~(0 .. n \subseteq T)
             PROVE  FALSE
  OBVIOUS
<1> DEFINE F == (0 .. n) \ T
<1>1. F \in SUBSET Nat /\ F # {}
  OBVIOUS
<1>2. PICK x \in F : \A y \in F : x <= y
  BY <1>1, LeastNatural
<1>3. x \in 1 .. n
  BY <1>2
<1>4. x - 1 \notin F
  BY <1>2, <1>3
<1> QED
  BY <1>2, <1>3, <1>4

\* A prefix is the shorter one with the next member, and the last prefix is the whole.
LEMMA PrefixGrows ==
  ASSUME NEW V, NEW s \in Seq(V)
  PROVE  /\ SubSeq(s, 1, 0) = << >> /\ SubSeq(s, 1, Len(s)) = s
         /\ \A k \in 1 .. Len(s) :
              /\ s[k] \in V /\ SubSeq(s, 1, k - 1) \in Seq(V)
              /\ SubSeq(s, 1, k) = Append(SubSeq(s, 1, k - 1), s[k])
<1>1. SubSeq(s, 1, 0) = << >> /\ SubSeq(s, 1, Len(s)) = s
  OBVIOUS
<1> SUFFICES ASSUME NEW k \in 1 .. Len(s)
             PROVE  /\ s[k] \in V /\ SubSeq(s, 1, k - 1) \in Seq(V)
                    /\ SubSeq(s, 1, k) = Append(SubSeq(s, 1, k - 1), s[k])
  BY <1>1
<1>2. s[k] \in V /\ SubSeq(s, 1, k - 1) \in Seq(V)
  OBVIOUS
<1>3. SubSeq(s, 1, k) = Append(SubSeq(s, 1, k - 1), s[k])
  OBVIOUS
<1> QED
  BY <1>2, <1>3

\* A head that goes from one sequence to the end of another leaves both, put together, the same.
LEMMA PassedOn ==
  ASSUME NEW V, NEW done \in Seq(V), NEW todo \in Seq(V), todo # << >>
  PROVE  /\ Append(done, Head(todo)) \in Seq(V) /\ Tail(todo) \in Seq(V)
         /\ Append(done, Head(todo)) \o Tail(todo) = done \o todo
<1> DEFINE h == << Head(todo) >>
           t == Tail(todo)
<1>1. h \in Seq(V) /\ t \in Seq(V) /\ Append(done, Head(todo)) = done \o h /\ h \o t = todo
  OBVIOUS
<1>2. Append(done, Head(todo)) \in Seq(V)
  OBVIOUS
<1> HIDE DEF h, t
<1>3. (done \o h) \o t = done \o (h \o t)
  <2>1. done \in Seq(V) /\ h \in Seq(V) /\ t \in Seq(V)
    BY <1>1
  <2> QED
    BY <2>1, ConcatAssociative, SMTT(30)
<1> QED
  BY <1>1, <1>2, <1>3 DEF t

\* What f says is computed from base in n steps, each from the one before.
Computes(f, n, base, step) == f[0] = base /\ \A i \in 1 .. n : f[i] = step[i][f[i - 1]]

\* A value that is computed step by step exists.
LEMMA Iterated ==
  ASSUME NEW S, NEW n \in Nat, NEW base \in S, NEW step \in [1 .. n -> [S -> S]]
  PROVE  \E f \in [0 .. n -> S] : Computes(f, n, base, step)
<1> USE DEF Computes
<1> DEFINE T == {k \in 0 .. n : \E f \in [0 .. k -> S] : Computes(f, k, base, step)}
<1>1. 0 \in T
  <2> DEFINE f == [i \in 0 .. 0 |-> base]
  <2>1. f \in [0 .. 0 -> S] /\ f[0] = base
    OBVIOUS
  <2> HIDE DEF f
  <2>2. \E g \in [0 .. 0 -> S] : g[0] = base
    BY <2>1
  <2>3. 0 \in 0 .. n /\ 1 .. 0 = {}
    OBVIOUS
  <2> QED
    BY <2>2, <2>3
<1>2. ASSUME NEW i \in 1 .. n, i - 1 \in T
      PROVE  i \in T
  <2>1. PICK f \in [0 .. i - 1 -> S] : Computes(f, i - 1, base, step)
    BY <1>2
  <2> DEFINE g == [j \in 0 .. i |-> IF j = i THEN step[i][f[i - 1]] ELSE f[j]]
  <2>2. i \in Nat /\ i - 1 \in 0 .. i - 1 /\ i \in 0 .. n
    OBVIOUS
  <2>3. f[i - 1] \in S /\ step[i] \in [S -> S]
    BY <2>1, <2>2
  <2>4. g \in [0 .. i -> S]
    BY <2>1, <2>2, <2>3
  <2>5. g[0] = base
    BY <2>1, <2>2
  <2>6. ASSUME NEW j \in 1 .. i
        PROVE  g[j] = step[j][g[j - 1]]
    <3>1. j \in 0 .. i /\ j - 1 \in 0 .. i /\ j - 1 # i
      BY <2>2
    <3>2. g[j - 1] = f[j - 1]
      BY <3>1
    <3>3. CASE j = i
      BY <3>1, <3>2, <3>3
    <3>4. CASE j # i
      <4>1. j \in 1 .. i - 1
        BY <2>2, <3>4
      <4>2. g[j] = f[j] /\ f[j] = step[j][f[j - 1]]
        BY <2>1, <3>1, <3>4, <4>1
      <4> QED
        BY <3>2, <4>2
    <3> QED
      BY <3>3, <3>4
  <2> HIDE DEF g
  <2> QED
    BY <2>2, <2>4, <2>5, <2>6
<1>3. n \in T
  <2>1. \A i \in 1 .. n : i - 1 \in T => i \in T
    BY <1>2
  <2> HIDE DEF T
  <2>2. 0 .. n \subseteq T
    BY <1>1, <2>1, UpTo
  <2> QED
    BY <2>2
<1> QED
  BY <1>3

-----------------------------------------------------------------------------

\* What FlattenSeq computes: the pieces one after the other.
LEMMA Flattens ==
  ASSUME NEW V, NEW s \in Seq(Seq(V))
  PROVE  \E f \in [0 .. Len(s) -> Seq(V)] :
           /\ f[0] = << >> /\ \A i \in 1 .. Len(s) : f[i] = f[i - 1] \o s[i]
           /\ FlattenSeq(s) = f[Len(s)]
<1> DEFINE Q == Seq(V)
           n == Len(s)
           step == [i \in 1 .. n |-> [t \in Q |-> t \o s[i]]]
<1>1. n \in Nat /\ << >> \in Q /\ \A i \in 1 .. n : s[i] \in Q
  OBVIOUS
<1>2. \A t, u \in Q : t \o u \in Q /\ << >> \o t = t
  OBVIOUS
<1>3. n = 0 => FlattenSeq(s) = << >>
  BY DEF FlattenSeq
<1> DEFINE Eq(g) == g = [i \in 1 .. n |-> IF i = 1 THEN s[i] ELSE g[i - 1] \o s[i]]
           flat == CHOOSE h : Eq(h)
<1>4. n # 0 => FlattenSeq(s) = flat[n]
  BY DEF FlattenSeq
<1> HIDE DEF Q, n
<1>5. step \in [1 .. n -> [Q -> Q]]
  BY <1>1, <1>2
<1>6. \E f \in [0 .. n -> Q] : f[0] = << >> /\ \A i \in 1 .. n : f[i] = step[i][f[i - 1]]
  <2> DEFINE e == << >>
  <2>1. e \in Q /\ n \in Nat
    BY <1>1
  <2> HIDE DEF step, e
  <2>2. \E f \in [0 .. n -> Q] : Computes(f, n, e, step)
    BY <1>5, <2>1, Iterated
  <2> QED
    BY <2>2 DEF e, Computes
<1>7. PICK f \in [0 .. n -> Q] : f[0] = << >> /\ \A i \in 1 .. n : f[i] = step[i][f[i - 1]]
  BY <1>6
<1>8. ASSUME NEW i \in 1 .. n
      PROVE  f[i] = f[i - 1] \o s[i] /\ f[i] \in Q /\ f[i - 1] \in Q
  <2>1. i - 1 \in 0 .. n /\ i \in 0 .. n
    BY <1>1
  <2>2. f[i - 1] \in Q /\ f[i] \in Q
    BY <2>1
  <2>3. step[i][f[i - 1]] = f[i - 1] \o s[i]
    BY <2>2
  <2> QED
    BY <1>7, <2>2, <2>3
<1> HIDE DEF step
<1>9. n # 0 => 1 \in 1 .. n /\ f[1] = s[1]
  <2> SUFFICES ASSUME n # 0
               PROVE  1 \in 1 .. n /\ f[1] = s[1]
    OBVIOUS
  <2>1. 1 \in 1 .. n
    BY <1>1
  <2>2. f[1] = f[1 - 1] \o s[1]
    BY <1>8, <2>1
  <2>3. 1 - 1 = 0 /\ s[1] \in Q
    BY <1>1, <2>1
  <2>4. f[1] = << >> \o s[1]
    BY <1>7, <2>2, <2>3
  <2> QED
    BY <1>2, <2>1, <2>3, <2>4
<1>10. ASSUME n # 0
      PROVE  flat[n] = f[n]
  <2> DEFINE h0 == [i \in 1 .. n |-> f[i]]
  <2>1. ASSUME NEW i \in 1 .. n
        PROVE  h0[i] = IF i = 1 THEN s[i] ELSE h0[i - 1] \o s[i]
    <3>1. CASE i = 1
      BY <1>10, <1>9, <3>1
    <3>2. CASE i # 1
      <4>1. i - 1 \in 1 .. n
        BY <1>1, <3>2
      <4> QED
        BY <1>8, <3>2, <4>1
    <3> QED
      BY <3>1, <3>2
  <2>2. Eq(h0)
    BY <2>1
  <2>3. Eq(flat)
    BY <2>2
  <2> HIDE DEF flat
  <2>4. \A i \in 1 .. n : flat[i] = IF i = 1 THEN s[i] ELSE flat[i - 1] \o s[i]
    BY <2>3
  <2> DEFINE T == {i \in 0 .. n : i > 0 => flat[i] = f[i]}
  <2>5. ASSUME NEW i \in 1 .. n, i - 1 \in T
        PROVE  i \in T
    <3>1. CASE i = 1
      <4>1. flat[1] = s[1] /\ 1 \in 0 .. n
        BY <1>1, <1>10, <1>9, <2>4
      <4> QED
        BY <1>10, <1>9, <3>1, <4>1
    <3>2. CASE i # 1
      <4>1. i \in 0 .. n /\ i > 0 /\ i - 1 > 0
        BY <1>1, <3>2
      <4>2. flat[i - 1] = f[i - 1]
        BY <2>5, <4>1
      <4>3. flat[i] = flat[i - 1] \o s[i]
        BY <2>4, <3>2
      <4> QED
        BY <1>8, <4>1, <4>2, <4>3
    <3> QED
      BY <3>1, <3>2
  <2>6. 0 \in T /\ \A i \in 1 .. n : i - 1 \in T => i \in T
    BY <1>1, <2>5
  <2>7. 0 .. n \subseteq T
    <3> HIDE DEF T
    <3> QED
      BY <1>1, <2>6, UpTo
  <2> QED
    BY <1>1, <1>10, <2>7
<1>11. FlattenSeq(s) = f[n]
  <2> HIDE DEF flat
  <2> QED
    BY <1>3, <1>4, <1>7, <1>10
<1> QED
  BY <1>7, <1>8, <1>11 DEF Q, n

\* What f says grows by the pieces of s, up to the k-th.
Grows(f, s, k) == \A i \in 1 .. k : f[i] = f[i - 1] \o s[i]

\* What grows by the same pieces is the same.
LEMMA SameSteps ==
  ASSUME NEW k \in Nat, NEW s, NEW f, NEW g,
         f[0] = g[0], Grows(f, s, k), Grows(g, s, k)
  PROVE  f[k] = g[k]
<1> USE DEF Grows
<1> DEFINE T == {i \in 0 .. k : f[i] = g[i]}
<1>1. 0 \in T
  OBVIOUS
<1>2. ASSUME NEW i \in 1 .. k, i - 1 \in T
      PROVE  i \in T
  <2>1. f[i] = f[i - 1] \o s[i] /\ g[i] = g[i - 1] \o s[i] /\ f[i - 1] = g[i - 1]
    BY <1>2
  <2>2. f[i] = g[i]
    BY <2>1
  <2> QED
    BY <2>2
<1>3. 0 .. k \subseteq T
  <2>1. \A i \in 1 .. k : i - 1 \in T => i \in T
    BY <1>2
  <2> HIDE DEF T
  <2> QED
    BY <1>1, <2>1, UpTo
<1> QED
  BY <1>3

\* Nothing flattens to nothing.
LEMMA FlattenNone == FlattenSeq(<< >>) = << >>
BY DEF FlattenSeq

\* One more piece comes at the end.
LEMMA FlattenAppend ==
  ASSUME NEW V, NEW s \in Seq(Seq(V)), NEW x \in Seq(V)
  PROVE  /\ FlattenSeq(s) \in Seq(V)
         /\ FlattenSeq(Append(s, x)) = FlattenSeq(s) \o x
<1> DEFINE Q == Seq(V)
           t == Append(s, x)
           k == Len(s)
<1>1. /\ t \in Seq(Q) /\ Len(t) = k + 1 /\ k \in Nat /\ t[k + 1] = x
      /\ \A i \in 1 .. k : s[i] = t[i]
  OBVIOUS
<1>2. PICK f \in [0 .. k -> Q] :
        /\ f[0] = << >> /\ \A i \in 1 .. k : f[i] = f[i - 1] \o s[i]
        /\ FlattenSeq(s) = f[k]
  BY Flattens
<1> HIDE DEF t
<1>3. PICK g \in [0 .. k + 1 -> Q] :
        /\ g[0] = << >> /\ \A i \in 1 .. k + 1 : g[i] = g[i - 1] \o t[i]
        /\ FlattenSeq(t) = g[k + 1]
  <2>1. \E g \in [0 .. Len(t) -> Q] :
          /\ g[0] = << >> /\ \A i \in 1 .. Len(t) : g[i] = g[i - 1] \o t[i]
          /\ FlattenSeq(t) = g[Len(t)]
    BY <1>1, Flattens
  <2> QED
    BY <1>1, <2>1
<1> HIDE DEF k, Q
<1>4. f[k] = g[k]
  <2>1. Grows(g, s, k)
    <3> SUFFICES ASSUME NEW i \in 1 .. k
                 PROVE  g[i] = g[i - 1] \o s[i]
      BY DEF Grows
    <3>1. i \in 1 .. k + 1
      BY <1>1
    <3> QED
      BY <1>1, <1>3, <3>1
  <2>2. f[0] = g[0] /\ Grows(f, s, k) /\ k \in Nat
    BY <1>1, <1>2, <1>3 DEF Grows
  <2> QED
    BY <2>1, <2>2, SameSteps
<1>5. g[k + 1] = g[k] \o x
  <2>1. k + 1 \in 1 .. k + 1 /\ (k + 1) - 1 = k
    BY <1>1
  <2>2. g[k + 1] = g[(k + 1) - 1] \o t[k + 1]
    BY <1>3, <2>1
  <2> QED
    BY <1>1, <2>1, <2>2
<1>6. f[k] \in Q
  BY <1>1
<1> QED
  BY <1>2, <1>3, <1>4, <1>5, <1>6 DEF t, Q

\* A single piece flattens to itself.
LEMMA FlattenOne ==
  ASSUME NEW V, NEW x \in Seq(V)
  PROVE  FlattenSeq(<< x >>) = x
<1>1. << >> \in Seq(Seq(V)) /\ Append(<< >>, x) = << x >> /\ << >> \o x = x
  OBVIOUS
<1> QED
  BY <1>1, FlattenNone, FlattenAppend

\* The pieces of two sequences, one after the other.
LEMMA FlattenConcat ==
  ASSUME NEW V, NEW s \in Seq(Seq(V)), NEW t \in Seq(Seq(V))
  PROVE  FlattenSeq(s \o t) = FlattenSeq(s) \o FlattenSeq(t)
<1> DEFINE Q == Seq(V)
           n == Len(t)
           At(k) == SubSeq(t, 1, k)
           T == {k \in 0 .. n : FlattenSeq(s \o At(k)) = FlattenSeq(s) \o FlattenSeq(At(k))}
<1>1. n \in Nat /\ At(n) = t /\ At(0) = << >> /\ s \o << >> = s
  OBVIOUS
<1>2. FlattenSeq(s) \in Seq(V)
  <2>1. << >> \in Seq(V)
    OBVIOUS
  <2> QED
    BY <2>1, FlattenAppend
<1>3. 0 \in T
  <2>1. FlattenSeq(s) \o << >> = FlattenSeq(s)
    BY <1>2
  <2>2. FlattenSeq(s \o At(0)) = FlattenSeq(s) /\ FlattenSeq(At(0)) = << >>
    BY <1>1, FlattenNone
  <2>3. FlattenSeq(s \o At(0)) = FlattenSeq(s) \o FlattenSeq(At(0))
    BY <2>1, <2>2
  <2> QED
    BY <1>1, <2>3
<1>4. ASSUME NEW k \in 1 .. n, k - 1 \in T
      PROVE  k \in T
  <2> DEFINE u == At(k - 1)
  <2>1. u \in Seq(Q) /\ t[k] \in Q /\ At(k) = Append(u, t[k])
    OBVIOUS
  <2>2. FlattenSeq(s \o u) = FlattenSeq(s) \o FlattenSeq(u) /\ k \in 0 .. n
    BY <1>4
  <2> HIDE DEF u, At
  <2>3. s \o At(k) = Append(s \o u, t[k]) /\ s \o u \in Seq(Q)
    BY <2>1
  <2>4. FlattenSeq(s \o At(k)) = FlattenSeq(s \o u) \o t[k]
    BY <2>1, <2>3, FlattenAppend
  <2>5. FlattenSeq(At(k)) = FlattenSeq(u) \o t[k] /\ FlattenSeq(u) \in Seq(V)
    BY <2>1, FlattenAppend
  <2>6. (FlattenSeq(s) \o FlattenSeq(u)) \o t[k] = FlattenSeq(s) \o (FlattenSeq(u) \o t[k])
    <3> DEFINE a == FlattenSeq(s)
               b == FlattenSeq(u)
               c == t[k]
    <3>1. a \in Seq(V) /\ b \in Seq(V) /\ c \in Seq(V)
      BY <1>2, <2>1, <2>5
    <3> HIDE DEF a, b, c
    <3>2. (a \o b) \o c = a \o (b \o c)
      BY <3>1, ConcatAssociative, SMTT(30)
    <3> QED
      BY <3>2 DEF a, b, c
  <2>7. FlattenSeq(s \o At(k)) = FlattenSeq(s) \o FlattenSeq(At(k))
    BY <2>2, <2>4, <2>5, <2>6
  <2> QED
    BY <2>2, <2>7
<1>5. 0 .. n \subseteq T
  <2>1. \A k \in 1 .. n : k - 1 \in T => k \in T
    BY <1>4
  <2> HIDE DEF T, n
  <2> QED
    BY <1>1, <1>3, <2>1, UpTo
<1>6. n \in T
  <2> HIDE DEF T, n
  <2> QED
    BY <1>1, <1>5
<1> QED
  BY <1>1, <1>6

\* The last piece, replaced by another.
LEMMA FlattenLast ==
  ASSUME NEW V, NEW s \in Seq(Seq(V)), s # << >>, NEW y \in Seq(V)
  PROVE  /\ Front(s) \in Seq(Seq(V)) /\ Last(s) \in Seq(V)
         /\ [s EXCEPT ![Len(s)] = y] \in Seq(Seq(V))
         /\ FlattenSeq(s) = FlattenSeq(Front(s)) \o Last(s)
         /\ FlattenSeq([s EXCEPT ![Len(s)] = y]) = FlattenSeq(Front(s)) \o y
<1> DEFINE Q == Seq(V)
           n == Len(s)
           u == SubSeq(s, 1, n - 1)
           z == s[n]
           r == [s EXCEPT ![n] = y]
<1>1. Front(s) = u /\ Last(s) = z
  BY DEF Front, Last
<1>2. s \in Seq(Q) /\ y \in Q
  OBVIOUS
<1>3. n \in 1 .. Len(s) /\ n \in Nat
  OBVIOUS
<1> HIDE DEF Q
<1>4. u \in Seq(Q) /\ z \in Q /\ s = Append(u, z)
  <2>1. SubSeq(s, 1, n) = s /\ s[n] \in Q /\ SubSeq(s, 1, n - 1) \in Seq(Q)
        /\ SubSeq(s, 1, n) = Append(SubSeq(s, 1, n - 1), s[n])
    BY <1>2, <1>3, PrefixGrows
  <2> QED
    BY <2>1
<1>5. r \in Seq(Q) /\ Len(r) = n /\ r[n] = y
  BY <1>2, <1>3
<1>6. r = Append(u, y)
  <2>1. \A i \in 1 .. n - 1 : r[i] = s[i]
    BY <1>2, <1>3
  <2> DEFINE a == Append(u, y)
  <2> HIDE DEF r, u, z
  <2>2. Len(u) \in Nat /\ n = Len(u) + 1 /\ \A i \in 1 .. n - 1 : s[i] = u[i]
    <3>1. Len(u) \in Nat /\ Len(s) = Len(u) + 1 /\ \A i \in 1 .. Len(u) : s[i] = u[i]
      BY <1>4, AppendProperties
    <3> QED
      BY <3>1
  <2> HIDE DEF n
  <2>3. a \in Seq(Q) /\ Len(a) = n /\ a[n] = y /\ \A i \in 1 .. n - 1 : a[i] = s[i]
    BY <1>2, <1>3, <1>4, <2>2, AppendProperties
  <2> HIDE DEF a
  <2>4. \A i \in 1 .. n : r[i] = a[i]
    <3>1. \A i \in 1 .. n : i = n \/ i \in 1 .. n - 1
      BY <1>3
    <3> QED
      BY <1>5, <2>1, <2>3, <3>1
  <2>5. r = a
    BY <1>5, <2>3, <2>4, SeqEqual
  <2> QED
    BY <2>5 DEF a
<1> HIDE DEF u, z, r, n
<1>7. FlattenSeq(s) = FlattenSeq(u) \o z
  BY <1>2, <1>4, FlattenAppend DEF Q
<1>8. FlattenSeq(r) = FlattenSeq(u) \o y
  BY <1>2, <1>4, <1>6, FlattenAppend DEF Q
<1> QED
  BY <1>1, <1>4, <1>5, <1>7, <1>8 DEF r, n, Q

-----------------------------------------------------------------------------

\* e makes a sequence of W of each member of V.
Maps(e, V, W) == e \in [V -> Seq(W)]

\* Each member of s becomes what e makes of it.
Spread(s, e) == FlattenSeq([i \in 1 .. Len(s) |-> e[s[i]]])

LEMMA SpreadNone == ASSUME NEW e PROVE Spread(<< >>, e) = << >>
<1>1. [i \in 1 .. Len(<< >>) |-> e[<< >>[i]]] = << >>
  OBVIOUS
<1> QED
  BY <1>1, FlattenNone DEF Spread

\* One more member brings what e makes of it.
LEMMA SpreadAppend ==
  ASSUME NEW V, NEW W, NEW e, Maps(e, V, W), NEW s \in Seq(V), NEW x \in V
  PROVE  /\ Spread(s, e) \in Seq(W)
         /\ Spread(Append(s, x), e) = Spread(s, e) \o e[x]
<1> DEFINE Q == Seq(W)
           a == [i \in 1 .. Len(s) |-> e[s[i]]]
           t == Append(s, x)
           b == [i \in 1 .. Len(t) |-> e[t[i]]]
<1>1. \A v \in V : e[v] \in Q
  BY DEF Maps
<1> HIDE DEF Q
<1>2. a \in Seq(Q)
  BY <1>1
<1>3. e[x] \in Q
  BY <1>1
<1>4. t \in Seq(V) /\ Len(t) = Len(s) + 1 /\ t[Len(s) + 1] = x /\ \A i \in 1 .. Len(s) : t[i] = s[i]
  OBVIOUS
<1>5. b = Append(a, e[x])
  BY <1>2, <1>3, <1>4
<1> HIDE DEF a, b
<1>6. FlattenSeq(a) \in Q /\ FlattenSeq(Append(a, e[x])) = FlattenSeq(a) \o e[x]
  BY <1>2, <1>3, FlattenAppend DEF Q
<1> QED
  BY <1>5, <1>6 DEF Q, a, b, Spread

\* What comes of two sequences comes one after the other.
LEMMA SpreadConcat ==
  ASSUME NEW V, NEW W, NEW e, Maps(e, V, W), NEW s \in Seq(V), NEW t \in Seq(V)
  PROVE  Spread(s \o t, e) = Spread(s, e) \o Spread(t, e)
<1> DEFINE Q == Seq(W)
           a == [i \in 1 .. Len(s) |-> e[s[i]]]
           b == [i \in 1 .. Len(t) |-> e[t[i]]]
           st == s \o t
           c == [i \in 1 .. Len(st) |-> e[st[i]]]
<1>1. \A v \in V : e[v] \in Q
  BY DEF Maps
<1> HIDE DEF Q
<1>2. a \in Seq(Q) /\ b \in Seq(Q)
  BY <1>1
<1>3. st \in Seq(V) /\ Len(st) = Len(s) + Len(t)
  OBVIOUS
<1>4. \A i \in 1 .. Len(st) : st[i] = IF i <= Len(s) THEN s[i] ELSE t[i - Len(s)]
  OBVIOUS
<1> HIDE DEF st
<1>5. c = a \o b
  <2>1. c \in Seq(Q)
    BY <1>1, <1>3
  <2>2. Len(c) = Len(s) + Len(t) /\ Len(a \o b) = Len(s) + Len(t) /\ a \o b \in Seq(Q)
    BY <1>2, <1>3
  <2>3. ASSUME NEW i \in 1 .. Len(c)
        PROVE  c[i] = (a \o b)[i]
    <3>1. i \in 1 .. Len(st) /\ Len(a) = Len(s) /\ Len(b) = Len(t) /\ c[i] = e[st[i]]
      BY <1>3
    <3>2. CASE i <= Len(s)
      <4>1. c[i] = e[s[i]] /\ i \in 1 .. Len(s)
        BY <1>4, <3>1, <3>2
      <4>2. a[i] = e[s[i]]
        BY <4>1
      <4> HIDE DEF a, b, c
      <4>3. (a \o b)[i] = a[i]
        BY <1>2, <3>1, <4>1
      <4> QED
        BY <4>1, <4>2, <4>3
    <3>3. CASE ~(i <= Len(s))
      <4>1. c[i] = e[t[i - Len(s)]] /\ i - Len(s) \in 1 .. Len(t) /\ Len(s) \in Nat
        BY <1>3, <1>4, <3>1, <3>3
      <4>2. b[i - Len(s)] = e[t[i - Len(s)]]
        BY <4>1
      <4> HIDE DEF a, b, c
      <4>3. (a \o b)[i] = b[i - Len(a)]
        BY <1>2, <3>1, <4>1
      <4> QED
        BY <3>1, <4>1, <4>2, <4>3
    <3> QED
      BY <3>2, <3>3
  <2> HIDE DEF a, b, c
  <2>4. \A i \in 1 .. Len(c) : c[i] = (a \o b)[i]
    BY <2>3
  <2> DEFINE d == a \o b
  <2>5. d \in Seq(Q) /\ Len(d) = Len(c) /\ \A i \in 1 .. Len(c) : c[i] = d[i]
    BY <2>2, <2>4
  <2> HIDE DEF d
  <2>6. c = d
    BY <2>1, <2>5
  <2> QED
    BY <2>6 DEF d
<1> HIDE DEF a, b, c
<1>6. FlattenSeq(a \o b) = FlattenSeq(a) \o FlattenSeq(b)
  BY <1>2, FlattenConcat DEF Q
<1> QED
  BY <1>5, <1>6 DEF a, b, c, st, Spread

\* A single member.
LEMMA SpreadOne ==
  ASSUME NEW V, NEW W, NEW e, Maps(e, V, W), NEW x \in V
  PROVE  Spread(<< x >>, e) = e[x]
<1>1. Append(<< >>, x) = << x >> /\ e[x] \in Seq(W)
  BY DEF Maps
<1>2. Spread(Append(<< >>, x), e) = Spread(<< >>, e) \o e[x]
  <2> DEFINE none == << >>
  <2>1. none \in Seq(V)
    OBVIOUS
  <2> HIDE DEF none
  <2>2. Spread(Append(none, x), e) = Spread(none, e) \o e[x]
    BY <2>1, SpreadAppend
  <2> QED
    BY <2>2 DEF none
<1>3. Spread(<< x >>, e) = << >> \o e[x]
  BY <1>1, <1>2, SpreadNone
<1> QED
  BY <1>1, <1>3

\* Where e leaves what it makes alone, it changes nothing the second time.
LEMMA SpreadTwice ==
  ASSUME NEW V, NEW e, Maps(e, V, V), \A x \in V : Spread(e[x], e) = e[x],
         NEW s \in Seq(V)
  PROVE  Spread(Spread(s, e), e) = Spread(s, e)
<1> DEFINE n == Len(s)
           At(k) == SubSeq(s, 1, k)
           T == {k \in 0 .. n : Spread(Spread(At(k), e), e) = Spread(At(k), e)}
<1>1. n \in Nat /\ At(n) = s /\ At(0) = << >>
  OBVIOUS
<1>2. 0 \in T
  <2>1. Spread(Spread(At(0), e), e) = Spread(At(0), e)
    BY <1>1, SpreadNone
  <2> HIDE DEF At
  <2> QED
    BY <1>1, <2>1
<1>3. ASSUME NEW k \in 1 .. n, k - 1 \in T
      PROVE  k \in T
  <2> DEFINE u == At(k - 1)
             x == s[k]
  <2>1. u \in Seq(V) /\ x \in V /\ At(k) = Append(u, x) /\ k \in 0 .. n
    BY PrefixGrows
  <2>2. Spread(Spread(u, e), e) = Spread(u, e)
    BY <1>3
  <2> HIDE DEF u, x, At
  <2>3. Spread(u, e) \in Seq(V) /\ Spread(At(k), e) = Spread(u, e) \o e[x]
    BY <2>1, SpreadAppend
  <2>4. e[x] \in Seq(V) /\ Spread(e[x], e) = e[x]
    BY <2>1 DEF Maps
  <2>5. Spread(Spread(u, e) \o e[x], e) = Spread(Spread(u, e), e) \o Spread(e[x], e)
    <3> DEFINE a == Spread(u, e)
               b == e[x]
    <3>1. a \in Seq(V) /\ b \in Seq(V)
      BY <2>3, <2>4
    <3> HIDE DEF a, b
    <3>2. Spread(a \o b, e) = Spread(a, e) \o Spread(b, e)
      BY <3>1, SpreadConcat
    <3> QED
      BY <3>2 DEF a, b
  <2>6. Spread(Spread(At(k), e), e) = Spread(At(k), e)
    BY <2>2, <2>3, <2>4, <2>5
  <2> QED
    BY <2>1, <2>6
<1>4. 0 .. n \subseteq T
  <2>1. \A k \in 1 .. n : k - 1 \in T => k \in T
    BY <1>3
  <2> HIDE DEF T, n
  <2> QED
    BY <1>1, <1>2, <2>1, UpTo
<1>5. n \in T
  <2> HIDE DEF T, n
  <2> QED
    BY <1>1, <1>4
<1> QED
  BY <1>1, <1>5

\* What is kept of a sequence.
Keeping(V, K) == [v \in V |-> IF v \in K THEN << v >> ELSE << >>]

\* It makes a sequence of each member.
LEMMA KeepingMaps ==
  ASSUME NEW V, NEW K
  PROVE  Maps(Keeping(V, K), V, V)
<1>1. \A v \in V : << v >> \in Seq(V) /\ << >> \in Seq(V)
  OBVIOUS
<1> QED
  BY <1>1 DEF Maps, Keeping

\* The members that are kept are those of the sequence that are wanted.
LEMMA KeepMembers ==
  ASSUME NEW V, NEW K, NEW s \in Seq(V)
  PROVE  LET k == Spread(s, Keeping(V, K)) IN
         /\ k \in Seq(V)
         /\ \A i \in DOMAIN k : k[i] \in K /\ \E j \in DOMAIN s : k[i] = s[j]
         /\ \A j \in DOMAIN s : s[j] \in K => \E i \in DOMAIN k : k[i] = s[j]
<1> DEFINE e == Keeping(V, K)
           n == Len(s)
           At(k) == SubSeq(s, 1, k)
           Kept(k) == Spread(At(k), e)
           Good(k) ==
             /\ Kept(k) \in Seq(V)
             /\ \A i \in 1 .. Len(Kept(k)) :
                  Kept(k)[i] \in K /\ \E j \in 1 .. k : Kept(k)[i] = s[j]
             /\ \A j \in 1 .. k : s[j] \in K => \E i \in 1 .. Len(Kept(k)) : Kept(k)[i] = s[j]
           T == {k \in 0 .. n : Good(k)}
<1>1. n \in Nat /\ At(n) = s /\ At(0) = << >>
  OBVIOUS
<1>2. Maps(e, V, V)
  BY KeepingMaps
<1>3. 0 \in T
  <2>1. Kept(0) = << >>
    BY <1>1, SpreadNone
  <2>2. << >> \in Seq(V) /\ Len(<< >>) = 0 /\ 1 .. 0 = {}
    OBVIOUS
  <2> HIDE DEF Kept
  <2>3. Good(0)
    BY <2>1, <2>2
  <2> HIDE DEF Good
  <2> QED
    BY <1>1, <2>3
<1>4. \A k \in 1 .. n : k - 1 \in T => k \in T
  <2> SUFFICES ASSUME NEW k \in 1 .. n, k - 1 \in T
               PROVE  Good(k)
    <3> HIDE DEF Good
    <3> QED
      BY <1>1
  <2>1. At(k) = Append(At(k - 1), s[k]) /\ s[k] \in V /\ At(k - 1) \in Seq(V)
    BY PrefixGrows
  <2>2. e[s[k]] = IF s[k] \in K THEN << s[k] >> ELSE << >>
    BY <2>1 DEF Keeping
  <2> HIDE DEF e, At
  <2>3. Kept(k) = Kept(k - 1) \o e[s[k]]
    <3> DEFINE u == At(k - 1)
               y == s[k]
    <3>1. u \in Seq(V) /\ y \in V
      BY <2>1
    <3> HIDE DEF u, y
    <3>2. Spread(Append(u, y), e) = Spread(u, e) \o e[y]
      BY <1>2, <3>1, SpreadAppend
    <3> QED
      BY <3>2, <2>1 DEF u, y
  <2>4. Good(k - 1) /\ Kept(k - 1) \in Seq(V)
    OBVIOUS
  <2> DEFINE a == Kept(k - 1)
             b == Kept(k)
             x == s[k]
  <2>5. CASE x \in K
    <3>1. b = Append(a, x) /\ a \in Seq(V)
      <4>1. b = a \o << x >>
        BY <2>2, <2>3, <2>5
      <4> HIDE DEF a, b
      <4> QED
        BY <4>1, <2>1, <2>4 DEF a
    <3>2. \A i \in 1 .. Len(a) : a[i] \in K /\ \E j \in 1 .. k - 1 : a[i] = s[j]
      BY <2>4
    <3>3. \A j \in 1 .. k - 1 : s[j] \in K => \E i \in 1 .. Len(a) : a[i] = s[j]
      BY <2>4
    <3> HIDE DEF a, b, Kept
    <3>4. /\ b \in Seq(V) /\ Len(b) = Len(a) + 1 /\ b[Len(a) + 1] = x /\ Len(a) \in Nat
          /\ \A i \in 1 .. Len(a) : b[i] = a[i]
      BY <3>1, <2>1
    <3>5. \A i \in 1 .. Len(b) : b[i] \in K /\ \E j \in 1 .. k : b[i] = s[j]
      <4> SUFFICES ASSUME NEW i \in 1 .. Len(b)
                   PROVE  b[i] \in K /\ \E j \in 1 .. k : b[i] = s[j]
        OBVIOUS
      <4>1. CASE i = Len(a) + 1
        <5>1. b[i] = s[k] /\ b[i] \in K
          BY <4>1, <3>4, <2>5
        <5> QED
          BY <5>1
      <4>2. CASE i \in 1 .. Len(a)
        BY <4>2, <3>4, <3>2
      <4> QED
        BY <4>1, <4>2, <3>4
    <3>6. \A j \in 1 .. k : s[j] \in K => \E i \in 1 .. Len(b) : b[i] = s[j]
      <4> SUFFICES ASSUME NEW j \in 1 .. k, s[j] \in K
                   PROVE  \E i \in 1 .. Len(b) : b[i] = s[j]
        OBVIOUS
      <4>1. CASE j = k
        BY <4>1, <3>4
      <4>2. CASE j \in 1 .. k - 1
        BY <4>2, <3>4, <3>3
      <4> QED
        BY <4>1, <4>2
    <3>7. Kept(k) \in Seq(V)
      BY <3>4 DEF b
    <3> QED
      BY <3>5, <3>6, <3>7 DEF b
  <2>6. CASE x \notin K
    <3>1. b = a
      <4>1. b = a \o << >>
        BY <2>2, <2>3, <2>6
      <4> HIDE DEF a, b
      <4> QED
        BY <4>1, <2>4 DEF a
    <3>2. \A j \in 1 .. k : s[j] \in K => j \in 1 .. k - 1
      BY <2>6
    <3>3. Kept(k) = Kept(k - 1)
      BY <3>1
    <3> HIDE DEF a, b, Kept
    <3>4. \A i \in 1 .. Len(Kept(k)) : Kept(k)[i] \in K /\ \E j \in 1 .. k : Kept(k)[i] = s[j]
      BY <3>3, <2>4
    <3>5. \A j \in 1 .. k : s[j] \in K => \E i \in 1 .. Len(Kept(k)) : Kept(k)[i] = s[j]
      BY <3>3, <3>2, <2>4
    <3> QED
      BY <3>3, <3>4, <3>5, <2>4
  <2> QED
    BY <2>5, <2>6
<1> HIDE DEF Good
<1>5. 0 .. n \subseteq T
  <2> HIDE DEF T
  <2> QED
    BY <1>1, <1>3, <1>4, UpTo
<1>6. Good(n)
  BY <1>1, <1>5
<1>7. Kept(n) = Spread(s, Keeping(V, K))
  BY <1>1
<1> DEFINE m == Spread(s, Keeping(V, K))
<1> HIDE DEF Kept
<1>8. /\ m \in Seq(V)
      /\ \A i \in 1 .. Len(m) : m[i] \in K /\ \E j \in 1 .. n : m[i] = s[j]
      /\ \A j \in 1 .. n : s[j] \in K => \E i \in 1 .. Len(m) : m[i] = s[j]
  BY <1>6, <1>7 DEF Good
<1> HIDE DEF m
<1>9. DOMAIN m = 1 .. Len(m) /\ DOMAIN s = 1 .. n
  BY <1>8
<1> QED
  BY <1>8, <1>9 DEF m

\* What is kept of what is kept is kept, when no less was kept before.
LEMMA KeepTwice ==
  ASSUME NEW V, NEW K, NEW L, L \subseteq K, NEW s \in Seq(V)
  PROVE  Spread(Spread(s, Keeping(V, K)), Keeping(V, L)) = Spread(s, Keeping(V, L))
<1> DEFINE e == Keeping(V, K)
           f == Keeping(V, L)
           n == Len(s)
           At(k) == SubSeq(s, 1, k)
           T == {k \in 0 .. n : Spread(Spread(At(k), e), f) = Spread(At(k), f)}
<1>1. n \in Nat /\ At(n) = s /\ At(0) = << >>
  OBVIOUS
<1>2. Maps(e, V, V) /\ Maps(f, V, V)
  BY KeepingMaps
<1>3. 0 \in T
  <2>1. Spread(Spread(At(0), e), f) = Spread(At(0), f)
    BY <1>1, SpreadNone
  <2> HIDE DEF At, e, f
  <2> QED
    BY <1>1, <2>1
<1>4. \A k \in 1 .. n : k - 1 \in T => k \in T
  <2> SUFFICES ASSUME NEW k \in 1 .. n, k - 1 \in T
               PROVE  Spread(Spread(At(k), e), f) = Spread(At(k), f)
    BY <1>1
  <2> DEFINE u == At(k - 1)
             x == s[k]
  <2>1. At(k) = Append(u, x) /\ x \in V /\ u \in Seq(V)
    BY PrefixGrows
  <2>2. /\ e[x] = IF x \in K THEN << x >> ELSE << >>
        /\ f[x] = IF x \in L THEN << x >> ELSE << >>
    BY <2>1 DEF Keeping
  <2>3. Spread(Spread(u, e), f) = Spread(u, f)
    OBVIOUS
  <2> HIDE DEF e, f, At, u, x, T
  <2>4. /\ Spread(u, e) \in Seq(V) /\ Spread(At(k), e) = Spread(u, e) \o e[x]
        /\ Spread(u, f) \in Seq(V) /\ Spread(At(k), f) = Spread(u, f) \o f[x]
    <3>0. u \in Seq(V) /\ x \in V
      BY <2>1
    <3>a. Maps(e, V, V)
      BY <1>2
    <3>b. Maps(f, V, V)
      BY <1>2
    <3>1. Spread(u, e) \in Seq(V) /\ Spread(Append(u, x), e) = Spread(u, e) \o e[x]
      BY <3>0, <3>a, SpreadAppend
    <3>2. Spread(u, f) \in Seq(V) /\ Spread(Append(u, x), f) = Spread(u, f) \o f[x]
      BY <3>0, <3>b, SpreadAppend
    <3> QED
      BY <2>1, <3>1, <3>2
  <2>5. e[x] \in Seq(V)
    BY <1>2, <2>1 DEF Maps
  <2> DEFINE a == Spread(u, e)
  <2>6. Spread(a \o e[x], f) = Spread(a, f) \o Spread(e[x], f)
    <3> HIDE DEF a
    <3>1. a \in Seq(V)
      BY <2>4 DEF a
    <3>0. Maps(f, V, V)
      BY <1>2
    <3> DEFINE b == e[x]
    <3>2. b \in Seq(V)
      BY <2>5
    <3> HIDE DEF b
    <3>3. Spread(a \o b, f) = Spread(a, f) \o Spread(b, f)
      BY <3>0, <3>1, <3>2, SpreadConcat
    <3> QED
      BY <3>3 DEF b
  <2>7. Spread(e[x], f) = f[x]
    <3>1. CASE x \in K
      <4>1. Spread(<< x >>, f) = f[x]
        BY <1>2, <2>1, SpreadOne
      <4> QED
        BY <4>1, <3>1, <2>2
    <3>2. CASE x \notin K
      <4>1. e[x] = << >> /\ f[x] = << >>
        BY <3>2, <2>2
      <4> QED
        BY <4>1, SpreadNone
    <3> QED
      BY <3>1, <3>2
  <2> QED
    BY <2>3, <2>4, <2>6, <2>7
<1> HIDE DEF e, f
<1>5. 0 .. n \subseteq T
  <2> HIDE DEF T
  <2> QED
    BY <1>1, <1>3, <1>4, UpTo
<1>6. Spread(Spread(At(n), e), f) = Spread(At(n), f)
  BY <1>1, <1>5
<1> QED
  BY <1>1, <1>6 DEF e, f

\* What comes of pieces put together is what comes of each, put together.
LEMMA SpreadFlatten ==
  ASSUME NEW V, NEW W, NEW e, Maps(e, V, W), NEW s \in Seq(Seq(V))
  PROVE  Spread(FlattenSeq(s), e) = FlattenSeq([i \in 1 .. Len(s) |-> Spread(s[i], e)])
<1> DEFINE n == Len(s)
           At(k) == SubSeq(s, 1, k)
           Each(k) == [i \in 1 .. k |-> Spread(s[i], e)]
           T == {k \in 0 .. n : Spread(FlattenSeq(At(k)), e) = FlattenSeq(Each(k))}
<1>0. n \in Nat /\ \A i \in 1 .. n : s[i] \in Seq(V) /\ Spread(s[i], e) \in Seq(W)
  <2>1. \A i \in 1 .. n : s[i] \in Seq(V)
    OBVIOUS
  <2>2. ASSUME NEW x \in Seq(V)
        PROVE  Spread(x, e) \in Seq(W)
    <3>1. CASE x = << >>
      <4>1. Spread(x, e) = << >>
        BY <3>1, SpreadNone
      <4>2. << >> \in Seq(W)
        OBVIOUS
      <4> QED
        BY <4>1, <4>2
    <3>2. CASE x # << >>
      <4>1. x[1] \in V
        BY <3>2
      <4> DEFINE y == x[1]
      <4>2. y \in V
        BY <4>1
      <4> HIDE DEF y
      <4> QED
        BY <4>2, SpreadAppend
    <3> QED
      BY <3>1, <3>2
  <2> QED
    BY <2>1, <2>2
<1>1. At(0) = << >> /\ At(n) = s /\ Each(0) = << >>
  BY PrefixGrows
<1>2. 0 \in T
  <2>1. FlattenSeq(At(0)) = << >> /\ FlattenSeq(Each(0)) = << >>
    BY <1>1, FlattenNone
  <2> QED
    BY <1>0, <2>1, SpreadNone
<1>3. ASSUME NEW k \in 1 .. n, k - 1 \in T
      PROVE  k \in T
  <2> DEFINE x == s[k]
             p == At(k - 1)
             f == FlattenSeq(p)
             y == Spread(x, e)
             a == Each(k - 1)
  <2>1. x \in Seq(V) /\ p \in Seq(Seq(V)) /\ At(k) = Append(p, x)
    BY PrefixGrows
  <2>2. y \in Seq(W) /\ a \in Seq(Seq(W))
    <3>1. k - 1 \in Nat /\ \A i \in 1 .. k - 1 : i \in 1 .. n
      BY <1>0
    <3> QED
      BY <1>0, <3>1
  <2>3. Each(k) = Append(a, y)
    <3>1. k - 1 \in Nat
      OBVIOUS
    <3>2. Len(a) = k - 1
      BY <3>1
    <3> QED
      BY <3>1, <3>2
  <2>4. Spread(f, e) = FlattenSeq(a)
    BY <1>3
  <2> HIDE DEF x, p, y, a
  <2>5. f \in Seq(V) /\ FlattenSeq(At(k)) = f \o x
    <3> HIDE DEF At
    <3> QED
      BY <2>1, FlattenAppend
  <2>6. FlattenSeq(Each(k)) = FlattenSeq(a) \o y
    <3> HIDE DEF Each
    <3> QED
      BY <2>2, <2>3, FlattenAppend
  <2> HIDE DEF f
  <2>a. f \in Seq(V)
    BY <2>5
  <2>b. x \in Seq(V)
    BY <2>1
  <2>7. Spread(f \o x, e) = Spread(f, e) \o Spread(x, e)
    BY <2>a, <2>b, SpreadConcat
  <2>8. Spread(FlattenSeq(At(k)), e) = FlattenSeq(Each(k))
    <3> HIDE DEF At, Each
    <3> QED
      BY <2>4, <2>5, <2>6, <2>7 DEF y
  <2>9. k \in 0 .. n
    OBVIOUS
  <2> HIDE DEF At, Each
  <2> QED
    BY <2>8, <2>9
<1>4. n \in T
  <2>1. \A k \in 1 .. n : k - 1 \in T => k \in T
    BY <1>3
  <2> HIDE DEF T
  <2>2. 0 .. n \subseteq T
    BY <1>0, <1>2, <2>1, UpTo
  <2>3. n \in 0 .. n
    BY <1>0
  <2> QED
    BY <2>2, <2>3
<1> QED
  BY <1>1, <1>4

=============================================================================
