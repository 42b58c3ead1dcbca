----------------------------- MODULE NodesProofs -----------------------------
(***************************************************************************)
(* What the backend knows of its nodes, for any number of nodes, requests, *)
(* polls and measurements.                                                 *)
(***************************************************************************)
EXTENDS NodeRegistry, NodeMetrics, NodeRouter, SequenceTheorems, WellFoundedInduction, FiniteSetTheorems, TLAPS

(***************************************************************************)
(* MetricsAreWhole.  Measurements arrive within a minute of theirs, so the *)
(* minute that is averaged is complete; what a partition that is dropped   *)
(* held is older than every range that the charts offer.                   *)
(***************************************************************************)

MetricsInv ==
  /\ now \in Nat /\ flying \subseteq {now - 1, now}
  /\ raw \in [Minute -> Nat] /\ agg \in [Minute -> Nat]
  /\ ever \in [Table -> SUBSET Minute]
  /\ \A t \in Minute : agg[t] > 0 => t <= now - 2 /\ (raw[t] > 0 => agg[t] = raw[t])
  /\ \A t \in ever["raw"] : raw[t] > 0 \/ Day(t) < Day(now) - 1
  /\ \A t \in ever["1min"] : agg[t] > 0 \/ Day(t) < Day(now) - RetentionDays

\* The constants are positive.
LEMMA Positive ==
  /\ Horizon \in Nat /\ MinutesPerHour \in Nat /\ MinutesPerDay \in Nat /\ RetentionDays \in Nat
  /\ MinutesPerDay > 0 /\ RetentionDays > 0
BY MetricsAssumption

\* What a division says of its quotient.
LEMMA Quotient ==
  ASSUME NEW a \in Nat, NEW b \in Nat, b > 0
  PROVE  /\ a \div b \in Nat
         /\ (a \div b) * b <= a /\ a < (a \div b) * b + b
BY SMT

\* A number less than another is so as a multiple.
LEMMA Multiples ==
  ASSUME NEW d \in Int, NEW e \in Int, NEW b \in Nat, d < e
  PROVE  d * b + b <= e * b
<1>1. (e - d - 1) * b >= 0
  <2>1. e - d - 1 \in Nat
    OBVIOUS
  <2> QED
    BY <2>1, SMT
<1>2. (e - d - 1) * b = e * b - d * b - b
  BY SMT
<1> QED
  BY <1>1, <1>2

\* Minutes that are k days apart at most are so in days.
LEMMA DaysApart ==
  ASSUME NEW t \in Nat, NEW u \in Nat, NEW k \in Nat, t > u - k * MinutesPerDay
  PROVE  Day(t) >= Day(u) - k
<1> DEFINE d == t \div MinutesPerDay
           q == u \div MinutesPerDay
<1>1. d \in Nat /\ t < d * MinutesPerDay + MinutesPerDay
  BY Quotient, Positive
<1>2. q \in Nat /\ q * MinutesPerDay <= u
  BY Quotient, Positive
<1> HIDE DEF d, q
<1>3. ASSUME d < q - k
      PROVE  FALSE
  <2>1. d * MinutesPerDay + MinutesPerDay <= (q - k) * MinutesPerDay
    BY <1>1, <1>2, <1>3, Multiples, Positive
  <2>2. (q - k) * MinutesPerDay = q * MinutesPerDay - k * MinutesPerDay
    BY <1>2, Positive, SMT
  <2>3. d * MinutesPerDay \in Int /\ q * MinutesPerDay \in Int /\ k * MinutesPerDay \in Int
    BY <1>1, <1>2, Positive, SMT
  <2> DEFINE x == d * MinutesPerDay
             y == q * MinutesPerDay
             z == k * MinutesPerDay
  <2>4. x \in Int /\ y \in Int /\ z \in Int /\ x + MinutesPerDay <= y - z
        /\ t < x + MinutesPerDay /\ y <= u /\ t > u - z
    BY <1>1, <1>2, <2>1, <2>2, <2>3
  <2> HIDE DEF x, y, z
  <2> QED
    BY <2>4, Positive
<1> QED
  BY <1>1, <1>2, <1>3 DEF d, q, Day

\* Days do not go back.
LEMMA DaysRise ==
  ASSUME NEW t \in Nat
  PROVE  Day(t) \in Nat /\ Day(t + 1) \in Nat /\ Day(t) <= Day(t + 1)
<1>1. t + 1 > t - 0 * MinutesPerDay
  BY Positive, SMT
<1>2. Day(t + 1) >= Day(t) - 0
  BY <1>1, DaysApart
<1>3. Day(t) \in Nat /\ Day(t + 1) \in Nat
  BY Quotient, Positive DEF Day
<1> QED
  BY <1>2, <1>3

\* A heartbeat measures, and its row arrives or not.
LEMMA MeasureStep ==
  ASSUME MetricsInv, MeasureStart \/ \E t \in Minute : MeasureInsert(t)
  PROVE  MetricsInv'
<1>1. CASE MeasureStart
  BY <1>1 DEF MetricsInv, MeasureStart, Minute, Table
<1>2. ASSUME NEW m \in Minute, MeasureInsert(m)
      PROVE  MetricsInv'
  <2>1. m \in flying /\ flying' = flying \ {m} /\ UNCHANGED <<now, agg>>
    BY <1>2 DEF MeasureInsert
  <2>2. agg[m] = 0
    BY <2>1 DEF MetricsInv, Minute
  <2>3. CASE UNCHANGED <<raw, ever>>
    BY <2>1, <2>3 DEF MetricsInv
  <2>4. CASE raw' = [raw EXCEPT ![m] = @ + 1] /\ ever' = [ever EXCEPT !["raw"] = @ \cup {m}]
    <3>1. /\ raw' \in [Minute -> Nat] /\ raw'[m] > 0
          /\ \A t \in Minute : t # m => raw'[t] = raw[t]
      BY <2>4 DEF MetricsInv
    <3>2. /\ ever' \in [Table -> SUBSET Minute] /\ ever'["1min"] = ever["1min"]
          /\ ever'["raw"] = ever["raw"] \cup {m}
      BY <2>4 DEF MetricsInv, Table
    <3>3. \A t \in Minute : agg[t] > 0 => t <= now - 2 /\ (raw'[t] > 0 => agg[t] = raw'[t])
      BY <2>2, <3>1 DEF MetricsInv
    <3>4. \A t \in ever'["raw"] : raw'[t] > 0 \/ Day(t) < Day(now) - 1
      BY <3>1, <3>2 DEF MetricsInv, Table
    <3> QED
      BY <2>1, <3>1, <3>2, <3>3, <3>4 DEF MetricsInv, Day
  <2> QED
    BY <1>2, <2>3, <2>4 DEF MeasureInsert
<1> QED
  BY <1>1, <1>2

\* The minute before the last is averaged.
LEMMA RollupStep ==
  ASSUME MetricsInv, Rollup
  PROVE  MetricsInv'
<1> DEFINE m == now - 2
<1>1. /\ m \in Minute /\ raw[m] > 0 /\ agg[m] = 0
      /\ agg' = [agg EXCEPT ![m] = raw[m]] /\ ever' = [ever EXCEPT !["1min"] = @ \cup {m}]
      /\ UNCHANGED <<now, flying, raw>>
  BY DEF Rollup, RolledMinute
<1>2. /\ agg' \in [Minute -> Nat] /\ agg'[m] = raw[m]
      /\ \A t \in Minute : t # m => agg'[t] = agg[t]
  BY <1>1 DEF MetricsInv
<1>3. /\ ever' \in [Table -> SUBSET Minute] /\ ever'["raw"] = ever["raw"]
      /\ ever'["1min"] = ever["1min"] \cup {m}
  BY <1>1 DEF MetricsInv, Table
<1>4. m <= now - 2
  BY DEF MetricsInv
<1> HIDE DEF m
<1>5. \A t \in Minute : agg'[t] > 0 => t <= now - 2 /\ (raw[t] > 0 => agg'[t] = raw[t])
  BY <1>1, <1>2, <1>4 DEF MetricsInv
<1>6. \A t \in ever'["1min"] : agg'[t] > 0 \/ Day(t) < Day(now) - RetentionDays
  BY <1>1, <1>2, <1>3 DEF MetricsInv, Table
<1> QED
  BY <1>1, <1>2, <1>3, <1>5, <1>6 DEF MetricsInv, Day

\* Old partitions are dropped.
LEMMA PurgeStep ==
  ASSUME MetricsInv, Purge
  PROVE  MetricsInv'
<1> DEFINE dropped(kind) == {d \in parts[kind] : d < Cutoff(kind)}
<1>1. /\ raw' = [t \in Minute |-> IF Day(t) \in dropped("raw") THEN 0 ELSE raw[t]]
      /\ agg' = [t \in Minute |-> IF Day(t) \in dropped("1min") THEN 0 ELSE agg[t]]
      /\ UNCHANGED <<now, flying, ever>>
  BY DEF Purge
<1>2. \A d \in dropped("raw") : d < Day(now) - 1
  BY DEF Cutoff
<1>3. \A d \in dropped("1min") : d < Day(now) - RetentionDays
  BY DEF Cutoff
<1> HIDE DEF dropped
<1>4. \A t \in Minute : raw'[t] \in {0, raw[t]} /\ agg'[t] \in {0, agg[t]}
  BY <1>1
<1>5. raw' \in [Minute -> Nat] /\ agg' \in [Minute -> Nat]
  BY <1>1 DEF MetricsInv
<1>6. \A t \in Minute : agg'[t] > 0 => t <= now - 2 /\ (raw'[t] > 0 => agg'[t] = raw'[t])
  BY <1>4 DEF MetricsInv
<1>7. \A t \in ever["raw"] : raw'[t] > 0 \/ Day(t) < Day(now) - 1
  BY <1>1, <1>2 DEF MetricsInv, Table
<1>8. \A t \in ever["1min"] : agg'[t] > 0 \/ Day(t) < Day(now) - RetentionDays
  BY <1>1, <1>3 DEF MetricsInv, Table
<1> QED
  BY <1>1, <1>5, <1>6, <1>7, <1>8 DEF MetricsInv, Day

\* A minute goes by: what was measured in it has one more to arrive.
LEMMA MinuteStep ==
  ASSUME MetricsInv, Minutes
  PROVE  MetricsInv'
<1>1. now' = now + 1 /\ (\A t \in flying : t = now) /\ UNCHANGED <<flying, raw, agg, ever>>
      /\ now \in Nat /\ RetentionDays \in Nat
  BY Positive DEF MetricsInv, Minutes
<1>2. Day(now) \in Nat /\ Day(now + 1) \in Nat /\ Day(now) <= Day(now + 1)
  BY <1>1, DaysRise
<1>3. \A t \in Minute : Day(t) \in Int
  BY Quotient, Positive DEF Day, Minute
<1>4. \A t \in ever["raw"] : raw[t] > 0 \/ Day(t) < Day(now + 1) - 1
  BY <1>2, <1>3 DEF MetricsInv, Table
<1>5. \A t \in ever["1min"] : agg[t] > 0 \/ Day(t) < Day(now + 1) - RetentionDays
  BY <1>1, <1>2, <1>3 DEF MetricsInv, Table
<1>6. \A t \in Minute : agg[t] > 0 => t <= (now + 1) - 2 /\ (raw[t] > 0 => agg[t] = raw[t])
  BY <1>1 DEF MetricsInv, Minute
<1>7. flying \subseteq {(now + 1) - 1, now + 1}
  BY <1>1
<1> QED
  BY <1>1, <1>4, <1>5, <1>6, <1>7 DEF MetricsInv, Day

\* Every step of the tasks and the heartbeats keeps the invariant, which holds at first.
LEMMA MetricsInvariant == MetricsSpec => []MetricsInv
<1>1. MetricsInit => MetricsInv
  <2> SUFFICES ASSUME MetricsInit
               PROVE  MetricsInv
    OBVIOUS
  <2> QED
    BY Positive DEF MetricsInit, MetricsInv, Minute, Table
<1>2. MetricsInv /\ [MetricsNext]_metricsVars => MetricsInv'
  <2> SUFFICES ASSUME MetricsInv, [MetricsNext]_metricsVars
               PROVE  MetricsInv'
    OBVIOUS
  <2>1. CASE UNCHANGED <<now, flying, raw, agg, ever>>
    BY <2>1 DEF MetricsInv, Day
  <2>2. CASE UNCHANGED metricsVars \/ CreatePartitions
    BY <2>1, <2>2 DEF metricsVars, CreatePartitions
  <2> QED
    BY <2>2, MeasureStep, RollupStep, PurgeStep, MinuteStep DEF MetricsNext
<1> QED
  BY <1>1, <1>2, PTL DEF MetricsSpec

\* What was inserted is found, as far back as the charts go.
LEMMA WindowsStay == MetricsInv => WindowsAreKept
<1> SUFFICES ASSUME MetricsInv
             PROVE  WindowsAreKept
  OBVIOUS
<1>1. ASSUME NEW t \in ever["raw"], t > now - MinutesPerDay
      PROVE  t \in Window(MinutesPerDay)
  <2>1. t \in Minute /\ t \in Nat /\ now \in Nat
    BY DEF MetricsInv, Table, Minute
  <2>2. t > now - 1 * MinutesPerDay
    BY <1>1, Positive
  <2>3. Day(t) >= Day(now) - 1
    BY <2>1, <2>2, DaysApart
  <2>4. Day(t) \in Nat /\ Day(now) \in Nat
    BY <2>1, DaysRise
  <2>5. raw[t] > 0
    BY <2>3, <2>4 DEF MetricsInv
  <2> QED
    BY <1>1, <2>1, <2>5, Positive DEF Window, SourceOf, Rows
<1>2. ASSUME NEW t \in ever["1min"], t > now - RetentionDays * MinutesPerDay
      PROVE  t \in Rows("1min")
  <2>1. t \in Minute /\ t \in Nat /\ now \in Nat /\ RetentionDays \in Nat
    BY Positive DEF MetricsInv, Table, Minute
  <2>2. Day(t) >= Day(now) - RetentionDays
    BY <1>2, <2>1, DaysApart
  <2>3. Day(t) \in Nat /\ Day(now) \in Nat
    BY <2>1, DaysRise
  <2>4. agg[t] > 0
    BY <2>1, <2>2, <2>3 DEF MetricsInv
  <2> QED
    BY <2>1, <2>4 DEF Rows
<1> QED
  BY <1>1, <1>2 DEF WindowsAreKept

\* The points of a chart of n rows, at most one more than asked for.
Spread(points, n, most) ==
  /\ points[1] = 1 /\ points[Len(points)] = n /\ Len(points) <= 1 + most
  /\ \A i, j \in 1 .. (Len(points) - 1) :
       i < j =>
         /\ points[i + 1] - points[i] > 0
         /\ points[i + 1] - points[i] >= points[j + 1] - points[j]
         /\ j < Len(points) - 1 => points[i + 1] - points[i] = points[j + 1] - points[j]

\* A quotient that is rounded up.
LEMMA RoundedUp ==
  ASSUME NEW n \in Nat, n > 0, NEW b \in Nat, b > 0, NEW q, q = (n + b - 1) \div b
  PROVE  q \in Nat /\ q > 0 /\ n <= q * b /\ q * b < n + b
<1>1. n + b - 1 \in Nat
  OBVIOUS
<1>2. q \in Nat /\ q * b <= n + b - 1 /\ n + b - 1 < q * b + b
  BY <1>1, Quotient
<1>3. q * b \in Int
  BY <1>2, SMT
<1>4. q # 0
  BY <1>2, SMT
<1> DEFINE x == q * b
<1>5. x \in Int /\ x <= n + b - 1 /\ n + b - 1 < x + b
  BY <1>2, <1>3
<1> HIDE DEF x
<1>6. n <= x /\ x < n + b
  BY <1>5
<1> QED
  BY <1>2, <1>4, <1>6 DEF x

\* A sequence of numbers given by a function.
LEMMA Listed ==
  ASSUME NEW k \in Nat, NEW s, s \in [1 .. k -> Nat]
  PROVE  s \in Seq(Nat) /\ Len(s) = k
<1>1. s \in Seq(Nat)
  BY SeqDef
<1>2. DOMAIN s = 1 .. k /\ DOMAIN s = 1 .. Len(s) /\ Len(s) \in Nat
  BY <1>1, LenProperties
<1> QED
  BY <1>1, <1>2

\* Points a step apart, and the last one.
LEMMA Evenly ==
  ASSUME NEW n \in Nat, NEW most \in Nat, NEW step \in Nat, step > 0, NEW k \in Nat, k > 0, k <= most,
         NEW taken \in Seq(Nat), Len(taken) = k, taken[1] = 1,
         \A i \in 1 .. k : i < k => taken[i + 1] - taken[i] = step,
         taken[k] <= n, n - taken[k] < step
  PROVE  Spread(IF taken[k] = n THEN taken ELSE Append(taken, n), n, most)
<1>1. CASE taken[k] = n
  <2>1. \A i \in 1 .. (k - 1) : i \in 1 .. k /\ i < k
    OBVIOUS
  <2>2. \A i \in 1 .. (k - 1) : taken[i + 1] - taken[i] = step
    BY <2>1
  <2>3. ASSUME NEW i \in 1 .. (k - 1), NEW j \in 1 .. (k - 1)
        PROVE  /\ taken[i + 1] - taken[i] > 0
               /\ taken[i + 1] - taken[i] >= taken[j + 1] - taken[j]
               /\ taken[i + 1] - taken[i] = taken[j + 1] - taken[j]
    <3> DEFINE x == taken[i + 1] - taken[i]
               y == taken[j + 1] - taken[j]
    <3>1. x = step /\ y = step
      BY <2>2
    <3> HIDE DEF x, y
    <3>2. x > 0 /\ x >= y /\ x = y
      BY <3>1
    <3> QED
      BY <3>2 DEF x, y
  <2>4. taken[1] = 1 /\ taken[Len(taken)] = n /\ Len(taken) <= 1 + most
    BY <1>1
  <2>5. Spread(taken, n, most)
    BY <2>3, <2>4 DEF Spread
  <2> QED
    BY <1>1, <2>5
<1>2. CASE taken[k] # n
  <2> DEFINE points == Append(taken, n)
  <2>1. /\ Len(points) = k + 1 /\ points[k + 1] = n
        /\ \A i \in 1 .. k : points[i] = taken[i]
    OBVIOUS
  <2> HIDE DEF points
  <2>2. k \in 1 .. k /\ 1 \in 1 .. k /\ taken[k] \in Nat
    BY ElementOfSeq
  <2>3. ASSUME NEW i \in 1 .. k
        PROVE  /\ i < k => points[i + 1] - points[i] = step
               /\ i = k => points[i + 1] - points[i] <= step /\ points[i + 1] - points[i] > 0
    <3>1. CASE i < k
      <4>1. i + 1 \in 1 .. k /\ taken[i + 1] - taken[i] = step
        BY <3>1
      <4> QED
        BY <2>1, <3>1, <4>1
    <3>2. CASE i = k
      BY <1>2, <2>1, <2>2, <3>2
    <3> QED
      BY <3>1, <3>2
  <2>4. ASSUME NEW i \in 1 .. k, NEW j \in 1 .. k, i < j
        PROVE  /\ points[i + 1] - points[i] > 0
               /\ points[i + 1] - points[i] >= points[j + 1] - points[j]
               /\ j < k => points[i + 1] - points[i] = points[j + 1] - points[j]
    <3>1. points[i + 1] - points[i] = step
      BY <2>3, <2>4
    <3>2. CASE j < k
      <4>1. points[j + 1] - points[j] = step
        BY <2>3, <3>2
      <4> QED
        BY <3>1, <4>1
    <3>3. CASE j = k
      <4>1. points[j + 1] - points[j] <= step
        BY <2>3, <3>3
      <4> QED
        BY <3>1, <3>3, <4>1
    <3> QED
      BY <3>2, <3>3
  <2>5. 1 .. (Len(points) - 1) = 1 .. k /\ Len(points) - 1 = k
    BY <2>1
  <2>6. points[1] = 1 /\ points[Len(points)] = n /\ Len(points) <= 1 + most
    BY <2>1, <2>2
  <2> QED
    BY <1>2, <2>4, <2>5, <2>6 DEF Spread, points
<1> QED
  BY <1>1, <1>2

\* A row of each step, and the last one.
LEMMA Taken ==
  ASSUME NEW n \in Nat, NEW most \in Nat, NEW step \in Nat, step > 0, NEW k \in Nat, k > 0, k <= most,
         NEW taken, taken \in [1 .. k -> Nat], \A i \in 1 .. k : taken[i] = 1 + (i - 1) * step,
         n <= k * step, k * step < n + step
  PROVE  Spread(IF taken[k] = n THEN taken ELSE Append(taken, n), n, most)
<1>1. taken \in Seq(Nat) /\ Len(taken) = k
  BY Listed
<1>2. taken[1] = 1
  <2>1. 1 \in 1 .. k /\ (1 - 1) * step = 0
    BY SMT
  <2> QED
    BY <2>1
<1>3. ASSUME NEW i \in 1 .. k, i < k
      PROVE  taken[i + 1] - taken[i] = step
  <2>1. i + 1 \in 1 .. k /\ i \in 1 .. k
    BY <1>3
  <2>2. taken[i + 1] = 1 + (i + 1 - 1) * step /\ taken[i] = 1 + (i - 1) * step
    BY <2>1
  <2>3. i \in Int
    BY <2>1
  <2>4. (i + 1 - 1) * step = (i - 1) * step + step
    BY <2>3, SMT
  <2>5. (i - 1) * step \in Int
    BY <2>3, SMT
  <2> QED
    BY <2>2, <2>4, <2>5
<1>4. taken[k] <= n /\ n - taken[k] < step
  <2> DEFINE x == k * step
             y == (k - 1) * step
  <2>1. x \in Int /\ y \in Int /\ y = x - step
    BY SMT
  <2>2. k \in 1 .. k
    OBVIOUS
  <2>3. taken[k] = 1 + y /\ n <= x /\ x < n + step
    BY <2>2
  <2> HIDE DEF x, y
  <2> QED
    BY <2>1, <2>3
<1> QED
  BY <1>1, <1>2, <1>3, <1>4, Evenly

\* A chart of any number of rows, with any limit, is spread over all of them.
LEMMA ChartsSpan ==
  ASSUME NEW n \in Nat, n > 0, NEW limit \in Nat
  PROVE  Spread(Strided([i \in 1 .. n |-> i], limit), n, IF limit > 1 THEN limit ELSE 1)
<1> DEFINE rows == [i \in 1 .. n |-> i]
           target == IF limit > 1 THEN limit ELSE 1
           step == Step(Len(rows), target)
           k == (Len(rows) + step - 1) \div step
           taken == [i \in 1 .. k |-> rows[1 + (i - 1) * step]]
<1>1. rows \in [1 .. n -> Nat] /\ \A i \in 1 .. n : rows[i] = i
  OBVIOUS
<1>2. rows \in Seq(Nat) /\ Len(rows) = n
  BY <1>1, Listed
<1>3. target \in Nat /\ target > 0
  OBVIOUS
<1>4. Strided(rows, limit) =
        IF Len(rows) <= target THEN rows
        ELSE IF taken[Len(taken)] = rows[Len(rows)] THEN taken ELSE Append(taken, rows[Len(rows)])
  BY DEF Strided
<1>5. step = (n + target - 1) \div target /\ k = (n + step - 1) \div step
  BY <1>2 DEF Step
<1> HIDE DEF target, step, k
<1>6. step \in Nat /\ step > 0 /\ n <= step * target
  BY <1>3, <1>5, RoundedUp
<1>7. k \in Nat /\ k > 0 /\ n <= k * step /\ k * step < n + step
  BY <1>5, <1>6, RoundedUp
<1>8. CASE n <= target
  <2>1. Strided(rows, limit) = rows
    BY <1>2, <1>4, <1>8
  <2>2. Spread(rows, n, target)
    BY <1>1, <1>2, <1>3, <1>8 DEF Spread
  <2> QED
    BY <2>1, <2>2 DEF target
<1>9. CASE n > target
  <2>1. k <= target
    <3>1. ASSUME target < k
          PROVE  FALSE
      <4> DEFINE x == target * step
                 y == k * step
      <4>1. x + step <= y
        BY <1>3, <1>6, <1>7, <3>1, Multiples
      <4>2. x \in Int /\ y \in Int /\ n <= x /\ y < n + step
        BY <1>3, <1>6, <1>7, SMT
      <4> HIDE DEF x, y
      <4> QED
        BY <1>6, <4>1, <4>2
    <3> QED
      BY <1>3, <1>7, <3>1
  <2>2. ASSUME NEW i \in 1 .. k
        PROVE  1 + (i - 1) * step \in 1 .. n
    <3> DEFINE x == (i - 1) * step
               y == k * step
               z == i * step
    <3>1. x \in Int /\ y \in Int /\ z \in Int /\ x = z - step /\ x >= 0
      BY <1>6, <1>7, SMT
    <3>2. z <= y
      <4>1. i < k => z + step <= y
        BY <1>6, <1>7, Multiples
      <4>2. i = k => z = y
        OBVIOUS
      <4>3. i < k \/ i = k
        BY <1>7
      <4> HIDE DEF z, y
      <4> QED
        BY <1>6, <3>1, <4>1, <4>2, <4>3
    <3>3. y < n + step
      BY <1>7
    <3> HIDE DEF x, y, z
    <3>4. 1 + x \in 1 .. n
      BY <1>6, <3>1, <3>2, <3>3
    <3> QED
      BY <3>4 DEF x
  <2> HIDE DEF rows
  <2>3. taken \in [1 .. k -> Nat] /\ \A i \in 1 .. k : taken[i] = 1 + (i - 1) * step
    BY <1>1, <2>2
  <2> HIDE DEF taken
  <2>4. Len(taken) = k
    BY <1>7, <2>3, Listed
  <2>5. rows[n] = n /\ ~(n <= target)
    BY <1>1, <1>3, <1>9
  <2>6. Strided(rows, limit) = IF taken[k] = n THEN taken ELSE Append(taken, n)
    BY <1>2, <1>4, <2>4, <2>5
  <2>7. Spread(IF taken[k] = n THEN taken ELSE Append(taken, n), n, target)
    BY <1>3, <1>6, <1>7, <2>1, <2>3, Taken
  <2>8. Spread(Strided(rows, limit), n, target)
    BY <2>6, <2>7
  <2> QED
    BY <2>8 DEF rows, target
<1> QED
  BY <1>3, <1>8, <1>9

\* Every chart of the rows so far.
LEMMA SeriesStay == MetricsInv => SeriesSpans
<1> SUFFICES ASSUME MetricsInv, NEW n \in 1 .. now, NEW limit \in 0 .. now
             PROVE  LET rows == [i \in 1 .. n |-> i]
                        points == Strided(rows, limit)
                    IN /\ points[1] = 1 /\ points[Len(points)] = n
                       /\ Len(points) <= 1 + (IF limit > 1 THEN limit ELSE 1)
                       /\ \A i, j \in 1 .. (Len(points) - 1) :
                            LET gap(k) == points[k + 1] - points[k]
                            IN i < j => gap(i) > 0 /\ gap(i) >= gap(j) /\ (j < Len(points) - 1 => gap(i) = gap(j))
  BY DEF SeriesSpans
<1>1. n \in Nat /\ n > 0 /\ limit \in Nat
  BY DEF MetricsInv
<1>2. Spread(Strided([i \in 1 .. n |-> i], limit), n, IF limit > 1 THEN limit ELSE 1)
  BY <1>1, ChartsSpan
<1> QED
  BY <1>2 DEF Spread

\* The charts find every row of the ranges they offer and span them evenly, and a minute
\* that was averaged was complete, for days and minutes of any length, any retention
\* and any number of measurements.
THEOREM MetricsStayWhole == MetricsSpec => []MetricsAreWhole
<1>1. MetricsInv => AggregatesAreWhole
  BY DEF MetricsInv, AggregatesAreWhole
<1>2. MetricsInv => MetricsAreWhole
  BY <1>1, WindowsStay, SeriesStay DEF MetricsAreWhole, ChartsAreWhole
<1> QED
  BY <1>2, MetricsInvariant, PTL

-----------------------------------------------------------------------------

(***************************************************************************)
(* ModelsAreReported.  What a request adds and removes was decided from    *)
(* the models that it read; they are still there when it commits, as it    *)
(* has the row of the node locked from before it read them, and nobody     *)
(* else writes a row that is locked.                                       *)
(***************************************************************************)

BeatRec == [pc : {"idle", "read", "locked", "stored"}, name : Name \cup {Nobody}, id : Id,
            online : BOOLEAN, models : SUBSET Reported, known : SUBSET Reported, age : Age]
CycleRec == [pc : {"idle", "next", "probing", "flushing", "closing"}, todo : SUBSET Name,
             cur : Name \cup {Nobody}, waited : 0 .. ProbeTime, work : [Name -> Work]]
AdminRec == [pc : {"idle", "probed", "read", "deleting"}, name : Name \cup {Nobody}, id : Id]

\* A poll is never known to have waited longer than it may, with a clock or without.
RegistryTyped ==
  /\ world \in Worlds
  /\ row \in [Name -> Row]
  /\ last \in [Name -> SUBSET Reported]
  /\ lock \in [Name -> RegistryActor \cup {Nobody}] /\ mlock \in [Name -> RegistryActor \cup {Nobody}]
  /\ beat \in [Beat -> BeatRec]
  /\ cycle \in [Cycle -> CycleRec]
  /\ admin \in [Admin -> AdminRec]
  /\ since \in 0 .. Period

\* A heartbeat that holds its row knows the models of it.
BeatSound(h, b, locks, rows) ==
  /\ h.pc # "idle" => h.name \in Name
  /\ h.pc = "locked" => locks[h.name] = b /\ h.known = rows[h.name].models

\* A poll holds the rows of the hosts that answered, but the one it is about to write;
\* it has nothing to write of those that it did not ask.
CycleSound(k, c, locks, rows) ==
  /\ k.pc \in {"probing", "flushing"} => k.cur \in Name
  /\ \A n \in Name :
       k.work[n].answer = "heard" /\ ~(k.pc = "flushing" /\ k.cur = n) =>
         locks[n] = c /\ k.work[n].known = rows[n].models
  /\ \A n \in Name : k.work[n].answer = "none" => k.work[n].known = {} /\ k.work[n].found = {}
  /\ k.pc = "flushing" => k.work[k.cur].answer = "heard"

AdminSound(a) == a.pc # "idle" => a.name \in Name

RegistryInv ==
  /\ RegistryTyped
  /\ ModelsAreReported
  /\ \A b \in Beat : BeatSound(beat[b], b, lock, row)
  /\ \A c \in Cycle : CycleSound(cycle[c], c, lock, row)
  /\ \A a \in Admin : AdminSound(admin[a])

\* The empty records, and ages.
LEMMA RegistryConstants ==
  /\ 0 \in Id /\ 0 \in Age /\ Never \in Age /\ 0 \in 0 .. Period /\ 0 \in 0 .. ProbeTime
  /\ NoRow \in Row /\ NoBeat \in BeatRec /\ NoWork \in Work /\ NoCycle \in CycleRec /\ NoAdmin \in AdminRec
  /\ \A age \in Age : Older(age) \in Age
<1>1. Never \in Nat /\ MaxId \in Nat /\ Period \in Nat /\ ProbeTime \in Nat
  BY TimeAssumption DEF Never
<1>2. 0 \in Id /\ 0 \in Age /\ Never \in Age /\ 0 \in 0 .. Period /\ 0 \in 0 .. ProbeTime
  BY <1>1 DEF Id, Age
<1>3. NoRow \in Row
  BY <1>2 DEF NoRow, Row
<1>4. NoBeat \in BeatRec
  BY <1>2 DEF NoBeat, BeatRec
<1>5. NoWork \in Work
  BY <1>2 DEF NoWork, Work
<1>6. NoCycle \in CycleRec
  BY <1>2, <1>5 DEF NoCycle, CycleRec
<1>7. NoAdmin \in AdminRec
  BY <1>2 DEF NoAdmin, AdminRec
<1>8. \A age \in Age : Older(age) \in Age
  BY <1>1 DEF Age, Older
<1> QED
  BY <1>2, <1>3, <1>4, <1>5, <1>6, <1>7, <1>8

\* What the world may do is about names and models there are.
LEMMA WorldIsKnown ==
  ASSUME RegistryTyped
  PROVE  world.names \subseteq Name /\ world.models \subseteq Reported
BY WorldAssumption DEF RegistryTyped

\* Who holds no row that x writes keeps what it knows.
LEMMA OthersKeep ==
  ASSUME RegistryInv, RegistryTyped', ModelsAreReported', NEW x,
         \A n \in Name : lock[n] \notin {Nobody, x} =>
           lock'[n] = lock[n] /\ row'[n].models = row[n].models,
         \A b \in Beat : b # x => beat'[b] = beat[b],
         \A c \in Cycle : c # x => cycle'[c] = cycle[c],
         \A a \in Admin : a # x => admin'[a] = admin[a],
         x \in Beat => BeatSound(beat'[x], x, lock', row'),
         x \in Cycle => CycleSound(cycle'[x], x, lock', row'),
         x \in Admin => AdminSound(admin'[x])
  PROVE  RegistryInv'
<1>1. ASSUME NEW b \in Beat
      PROVE  BeatSound(beat'[b], b, lock', row')
  <2>1. CASE b # x
    <3>1. beat'[b] = beat[b] /\ BeatSound(beat[b], b, lock, row) /\ b # Nobody
      BY <2>1, ActorAssumption DEF RegistryInv
    <3> QED
      BY <2>1, <3>1 DEF BeatSound
  <2> QED
    BY <2>1
<1>2. ASSUME NEW c \in Cycle
      PROVE  CycleSound(cycle'[c], c, lock', row')
  <2>1. CASE c # x
    <3>1. cycle'[c] = cycle[c] /\ CycleSound(cycle[c], c, lock, row) /\ c # Nobody
      BY <2>1, ActorAssumption DEF RegistryInv
    <3> QED
      BY <2>1, <3>1 DEF CycleSound
  <2> QED
    BY <2>1
<1>3. ASSUME NEW a \in Admin
      PROVE  AdminSound(admin'[a])
  BY DEF RegistryInv
<1> QED
  BY <1>1, <1>2, <1>3 DEF RegistryInv

\* A heartbeat looks its row up.
LEMMA BeatReadStep ==
  ASSUME RegistryInv, NEW b \in Beat, NEW n \in Name, BeatRead(b, n)
  PROVE  RegistryInv'
<1> USE RegistryConstants
<1>1. PICK ms \in SUBSET world.models :
        beat' = [beat EXCEPT ![b] = [pc |-> "read", name |-> n, id |-> row[n].id, online |-> row[n].online,
                                     models |-> ms, known |-> {}, age |-> 0]]
  BY DEF BeatRead
<1>2. UNCHANGED <<world, row, last, lock, mlock, cycle, admin, since>>
  BY DEF BeatRead
<1> DEFINE r == [pc |-> "read", name |-> n, id |-> row[n].id, online |-> row[n].online,
                 models |-> ms, known |-> {}, age |-> 0]
<1>3. r \in BeatRec /\ r.pc = "read" /\ r.name = n
  BY WorldIsKnown DEF RegistryInv, RegistryTyped, Row, BeatRec
<1> HIDE DEF r
<1>4. beat' \in [Beat -> BeatRec] /\ beat'[b] = r /\ \A o \in Beat : o # b => beat'[o] = beat[o]
  BY <1>1, <1>3 DEF r, RegistryInv, RegistryTyped
<1>5. RegistryTyped' /\ ModelsAreReported'
  BY <1>2, <1>4 DEF RegistryInv, RegistryTyped, ModelsAreReported
<1>6. BeatSound(beat'[b], b, lock', row')
  BY <1>3, <1>4 DEF BeatSound
<1>7. b \notin Cycle /\ b \notin Admin
  BY ActorAssumption
<1> QED
  BY <1>2, <1>4, <1>5, <1>6, <1>7, OthersKeep

\* It writes its row, and reads its models behind the lock.
LEMMA BeatFlushStep ==
  ASSUME RegistryInv, NEW b \in Beat, BeatFlush(b)
  PROVE  RegistryInv'
<1> USE RegistryConstants
<1> DEFINE n == beat[b].name
           h == beat[b]
           x == [h EXCEPT !.pc = "locked"]
           r == [x EXCEPT !.known = row[n].models]
<1>0. h \in BeatRec /\ h.pc = "read" /\ n \in Name /\ lock[n] = Nobody
      /\ UNCHANGED <<world, row, last, mlock, cycle, admin, since>>
  BY DEF RegistryInv, RegistryTyped, BeatSound, BeatFlush
<1>1. b \notin Cycle /\ b \notin Admin /\ b # Nobody /\ b \in RegistryActor
  BY ActorAssumption DEF RegistryActor
<1>2. CASE lock' = [lock EXCEPT ![n] = b] /\ beat' = [beat EXCEPT ![b].pc = "locked", ![b].known = row[n].models]
  <2>1. x \in BeatRec /\ x.pc = "locked" /\ x.name = n
    BY <1>0 DEF BeatRec
  <2>2. beat' = [beat EXCEPT ![b] = r]
    BY <1>2 DEF RegistryInv, RegistryTyped
  <2> HIDE DEF x
  <2>3. row[n].models \in SUBSET Reported
    BY <1>0 DEF RegistryInv, RegistryTyped, Row
  <2>4. r \in BeatRec /\ r.pc = "locked" /\ r.name = n /\ r.known = row[n].models
    BY <2>1, <2>3 DEF BeatRec
  <2> HIDE DEF r, n, h
  <2>5. beat' \in [Beat -> BeatRec] /\ beat'[b] = r /\ \A o \in Beat : o # b => beat'[o] = beat[o]
    BY <2>2, <2>4 DEF RegistryInv, RegistryTyped
  <2>6. lock' \in [Name -> RegistryActor \cup {Nobody}] /\ lock'[n] = b
        /\ \A o \in Name : o # n => lock'[o] = lock[o]
    BY <1>0, <1>1, <1>2 DEF RegistryInv, RegistryTyped
  <2>7. RegistryTyped' /\ ModelsAreReported'
    BY <1>0, <2>5, <2>6 DEF RegistryInv, RegistryTyped, ModelsAreReported
  <2>8. BeatSound(beat'[b], b, lock', row')
    BY <1>0, <2>4, <2>5, <2>6 DEF BeatSound
  <2>9. \A o \in Name : lock[o] \notin {Nobody, b} => lock'[o] = lock[o] /\ row'[o].models = row[o].models
    BY <1>0, <2>6
  <2> QED
    BY <1>0, <1>1, <2>5, <2>7, <2>8, <2>9, OthersKeep
<1>3. CASE lock' = lock /\ BeatEnds(b)
  <2>1. beat' \in [Beat -> BeatRec] /\ beat'[b] = NoBeat /\ \A o \in Beat : o # b => beat'[o] = beat[o]
    BY <1>3 DEF BeatEnds, RegistryInv, RegistryTyped
  <2>2. BeatSound(beat'[b], b, lock', row')
    BY <2>1 DEF BeatSound, NoBeat
  <2>3. RegistryTyped' /\ ModelsAreReported'
    BY <1>0, <1>3, <2>1 DEF RegistryInv, RegistryTyped, ModelsAreReported
  <2> QED
    BY <1>0, <1>1, <1>3, <2>1, <2>2, <2>3, OthersKeep
<1> QED
  BY <1>2, <1>3 DEF BeatFlush

\* Models that are written by comparison with those that are there.
LEMMA UpsertIsExact ==
  ASSUME NEW models, NEW found
  PROVE  Upserted(models, models, found) = found
BY DEF Upserted

\* It commits: the models of the row are those of the report.
LEMMA BeatCommitStep ==
  ASSUME RegistryInv, NEW b \in Beat, BeatCommit(b)
  PROVE  RegistryInv'
<1> USE RegistryConstants
<1> DEFINE n == beat[b].name
           h == beat[b]
<1>0. h \in BeatRec /\ h.pc = "locked" /\ n \in Name /\ lock[n] = b /\ h.known = row[n].models
      /\ UNCHANGED <<world, mlock, cycle, admin, since>> /\ lock' = Unlocked(lock, b)
      /\ last' = [last EXCEPT ![n] = h.models] /\ row[n] \in Row
  BY DEF RegistryInv, RegistryTyped, BeatSound, BeatCommit
<1>1. b \notin Cycle /\ b \notin Admin /\ b # Nobody /\ b \in RegistryActor
  BY ActorAssumption DEF RegistryActor
<1>2. PICK id \in (IF h.id = 0 THEN NewIds(n) ELSE {h.id}) :
        /\ row' = [row EXCEPT ![n] =
             [id |-> id, direct |-> FALSE, online |-> Written(row[n].online, h.online, TRUE), age |-> h.age,
              models |-> Upserted(row[n].models, h.known, h.models)]]
        /\ beat' = [beat EXCEPT ![b].pc = "stored", ![b].id = id]
  BY DEF BeatCommit
<1>3. id \in Id
  <2>1. NewIds(n) \subseteq 1 .. MaxId
    BY DEF NewIds
  <2>2. 1 .. MaxId \subseteq Id
    BY TimeAssumption DEF Id
  <2>3. h.id \in Id
    BY <1>0 DEF BeatRec
  <2> QED
    BY <2>1, <2>2, <2>3
<1> DEFINE x == [h EXCEPT !.pc = "stored"]
           r == [x EXCEPT !.id = id]
           w == [id |-> id, direct |-> FALSE, online |-> Written(row[n].online, h.online, TRUE), age |-> h.age,
                 models |-> Upserted(row[n].models, h.known, h.models)]
<1>4. x \in BeatRec /\ x.pc = "stored" /\ x.name = n
  BY <1>0 DEF BeatRec
<1>5. beat' = [beat EXCEPT ![b] = r]
  BY <1>2 DEF RegistryInv, RegistryTyped
<1> HIDE DEF x
<1>6. r \in BeatRec /\ r.pc = "stored" /\ r.name = n
  BY <1>3, <1>4 DEF BeatRec
<1>7. w.models = h.models
  BY <1>0, UpsertIsExact
<1>8. w \in Row
  <2>1. Written(row[n].online, h.online, TRUE) \in BOOLEAN /\ h.age \in Age /\ h.models \in SUBSET Reported
    BY <1>0 DEF Row, BeatRec, Written
  <2>2. Upserted(row[n].models, h.known, h.models) \in SUBSET Reported
    BY <1>7, <2>1
  <2> QED
    BY <1>3, <2>1, <2>2 DEF Row
<1>8a. h.models \in SUBSET Reported
  BY <1>0 DEF BeatRec
<1>8b. row' = [row EXCEPT ![n] = w]
  BY <1>2
<1> HIDE DEF r, w, n, h
<1>9. beat' \in [Beat -> BeatRec] /\ beat'[b] = r /\ \A o \in Beat : o # b => beat'[o] = beat[o]
  BY <1>5, <1>6 DEF RegistryInv, RegistryTyped
<1>10. row' \in [Name -> Row] /\ row'[n] = w /\ \A o \in Name : o # n => row'[o] = row[o]
  BY <1>0, <1>8, <1>8b DEF RegistryInv, RegistryTyped
<1>11. last' \in [Name -> SUBSET Reported] /\ last'[n] = h.models /\ \A o \in Name : o # n => last'[o] = last[o]
  BY <1>0, <1>8a DEF RegistryInv, RegistryTyped
<1>12. lock' \in [Name -> RegistryActor \cup {Nobody}]
       /\ \A o \in Name : lock[o] # b => lock'[o] = lock[o]
  BY <1>0 DEF RegistryInv, RegistryTyped, Unlocked
<1>13. RegistryTyped'
  BY <1>0, <1>9, <1>10, <1>11, <1>12 DEF RegistryInv, RegistryTyped
<1>14. ModelsAreReported'
  BY <1>7, <1>10, <1>11 DEF RegistryInv, ModelsAreReported
<1>15. BeatSound(beat'[b], b, lock', row')
  BY <1>0, <1>6, <1>9 DEF BeatSound
<1>16. \A o \in Name : lock[o] \notin {Nobody, b} => lock'[o] = lock[o] /\ row'[o].models = row[o].models
  BY <1>0, <1>10, <1>12
<1> QED
  BY <1>0, <1>1, <1>9, <1>13, <1>14, <1>15, <1>16, OthersKeep

\* Its measurement ends it.
LEMMA BeatMetricStep ==
  ASSUME RegistryInv, NEW b \in Beat, BeatMetric(b)
  PROVE  RegistryInv'
<1>1. UNCHANGED <<world, row, last, lock, mlock, cycle, admin, since>>
  BY DEF BeatMetric
<1>2. beat' \in [Beat -> BeatRec] /\ beat'[b] = NoBeat /\ \A o \in Beat : o # b => beat'[o] = beat[o]
  BY RegistryConstants DEF BeatMetric, BeatEnds, RegistryInv, RegistryTyped
<1>3. BeatSound(beat'[b], b, lock', row')
  BY <1>2 DEF BeatSound, NoBeat
<1>4. RegistryTyped' /\ ModelsAreReported'
  BY <1>1, <1>2 DEF RegistryInv, RegistryTyped, ModelsAreReported
<1>5. b \notin Cycle /\ b \notin Admin
  BY ActorAssumption
<1> QED
  BY <1>1, <1>2, <1>3, <1>4, <1>5, OthersKeep

\* A user's request writes no row that is locked, and gives a row its models with what is
\* remembered of them.
LEMMA AdminMoves ==
  ASSUME RegistryInv, NEW a \in Admin, NEW r \in AdminRec, AdminSound(r),
         admin' = [admin EXCEPT ![a] = r],
         row' \in [Name -> Row], last' \in [Name -> SUBSET Reported],
         mlock' \in [Name -> RegistryActor \cup {Nobody}],
         \A n \in Name : \/ row'[n] = row[n] /\ last'[n] = last[n]
                         \/ lock[n] = Nobody /\ row'[n].models = last'[n],
         UNCHANGED <<world, lock, beat, cycle, since>>
  PROVE  RegistryInv'
<1>1. admin' \in [Admin -> AdminRec] /\ admin'[a] = r /\ \A o \in Admin : o # a => admin'[o] = admin[o]
  BY DEF RegistryInv, RegistryTyped
<1>2. RegistryTyped'
  BY <1>1 DEF RegistryInv, RegistryTyped
<1>3. ModelsAreReported'
  BY DEF RegistryInv, ModelsAreReported
<1>4. a \notin Cycle /\ a \notin Beat
  BY ActorAssumption
<1>5. \A n \in Name : lock[n] \notin {Nobody, a} => lock'[n] = lock[n] /\ row'[n].models = row[n].models
  OBVIOUS
<1> QED
  BY <1>1, <1>2, <1>3, <1>4, <1>5, OthersKeep

\* Requests that only read.
LEMMA AdminReadStep ==
  ASSUME RegistryInv, NEW a \in Admin, NEW n \in Name, CreateRead(a, n) \/ DeleteRead(a, n)
  PROVE  RegistryInv'
<1>1. PICK r \in {[pc |-> "probed", name |-> n, id |-> 0], [pc |-> "read", name |-> n, id |-> row[n].id]} :
        admin' = [admin EXCEPT ![a] = r]
  BY DEF CreateRead, DeleteRead
<1>2. row[n].id \in Id /\ 0 \in Id
  BY RegistryConstants DEF RegistryInv, RegistryTyped, Row
<1>3. r \in AdminRec /\ AdminSound(r)
  BY <1>1, <1>2 DEF AdminRec, AdminSound
<1>4. UNCHANGED <<world, row, last, lock, mlock, beat, cycle, since>>
  BY DEF CreateRead, DeleteRead
<1> QED
  BY <1>1, <1>3, <1>4, AdminMoves DEF RegistryInv, RegistryTyped

\* A node is created with the models it reported, or refused.
LEMMA CreateInsertStep ==
  ASSUME RegistryInv, NEW a \in Admin, CreateInsert(a)
  PROVE  RegistryInv'
<1> DEFINE n == admin[a].name
<1>1. /\ n \in Name /\ lock[n] = Nobody /\ admin' = [admin EXCEPT ![a] = NoAdmin]
      /\ UNCHANGED <<world, lock, mlock, beat, cycle, since>>
  BY DEF CreateInsert, RegistryInv, AdminSound
<1>2. NoAdmin \in AdminRec /\ AdminSound(NoAdmin)
  BY RegistryConstants DEF AdminSound, NoAdmin
<1>3. CASE UNCHANGED <<row, last>>
  BY <1>1, <1>2, <1>3, AdminMoves DEF RegistryInv, RegistryTyped
<1>4. ASSUME NEW id \in NewIds(n), NEW ms \in SUBSET world.models, NEW reached \in BOOLEAN,
             row' = [row EXCEPT ![n] = [id |-> id, direct |-> TRUE, online |-> reached,
                                        age |-> IF reached THEN 0 ELSE Never, models |-> ms]],
             last' = [last EXCEPT ![n] = ms]
      PROVE  RegistryInv'
  <2> DEFINE w == [id |-> id, direct |-> TRUE, online |-> reached,
                   age |-> IF reached THEN 0 ELSE Never, models |-> ms]
  <2>1. id \in Id
    <3>1. NewIds(n) \subseteq 1 .. MaxId
      BY DEF NewIds
    <3>2. 1 .. MaxId \subseteq Id
      BY TimeAssumption DEF Id
    <3> QED
      BY <3>1, <3>2
  <2>2. ms \in SUBSET Reported
    BY WorldIsKnown DEF RegistryInv
  <2>3. w \in Row /\ w.models = ms
    BY <2>1, <2>2, RegistryConstants DEF Row
  <2>4. row' = [row EXCEPT ![n] = w]
    BY <1>4
  <2> HIDE DEF w, n
  <2>5. row' \in [Name -> Row] /\ row'[n] = w /\ \A o \in Name : o # n => row'[o] = row[o]
    BY <1>1, <2>3, <2>4 DEF RegistryInv, RegistryTyped
  <2>6. last' \in [Name -> SUBSET Reported] /\ last'[n] = ms /\ \A o \in Name : o # n => last'[o] = last[o]
    BY <1>1, <1>4, <2>2 DEF RegistryInv, RegistryTyped
  <2>7. \A o \in Name : \/ row'[o] = row[o] /\ last'[o] = last[o]
                        \/ lock[o] = Nobody /\ row'[o].models = last'[o]
    BY <1>1, <2>3, <2>5, <2>6
  <2>8. mlock' \in [Name -> RegistryActor \cup {Nobody}]
    BY <1>1 DEF RegistryInv, RegistryTyped
  <2> QED
    BY <1>1, <1>2, <2>5, <2>6, <2>7, <2>8, AdminMoves
<1> QED
  BY <1>3, <1>4 DEF CreateInsert

\* A deletion takes the models first, then the row, which nobody else has locked.
LEMMA DeleteStep ==
  ASSUME RegistryInv, NEW a \in Admin, DeleteModels(a) \/ DeleteNode(a)
  PROVE  RegistryInv'
<1> DEFINE n == admin[a].name
<1>0. a \in RegistryActor /\ admin[a] \in AdminRec
  BY DEF RegistryActor, RegistryInv, RegistryTyped
<1>1. CASE DeleteModels(a)
  <2> DEFINE r == [admin[a] EXCEPT !.pc = "deleting"]
  <2>1. /\ n \in Name /\ admin' = [admin EXCEPT ![a] = r]
        /\ mlock' \in {[mlock EXCEPT ![n] = a], mlock}
        /\ UNCHANGED <<world, row, last, lock, beat, cycle, since>>
    BY <1>1 DEF DeleteModels, RegistryInv, RegistryTyped, AdminSound
  <2>2. r \in AdminRec /\ AdminSound(r)
    BY <1>0, <2>1 DEF AdminRec, AdminSound
  <2> HIDE DEF r
  <2>3. mlock' \in [Name -> RegistryActor \cup {Nobody}]
    BY <1>0, <2>1 DEF RegistryInv, RegistryTyped
  <2> QED
    BY <2>1, <2>2, <2>3, AdminMoves DEF RegistryInv, RegistryTyped
<1>2. CASE DeleteNode(a)
  <2>1. /\ n \in Name /\ lock[n] = Nobody /\ admin' = [admin EXCEPT ![a] = NoAdmin]
        /\ mlock' = Unlocked(mlock, a)
        /\ \/ row' = [row EXCEPT ![n] = NoRow] /\ last' = [last EXCEPT ![n] = {}]
           \/ UNCHANGED <<row, last>>
        /\ UNCHANGED <<world, lock, beat, cycle, since>>
    BY <1>2 DEF DeleteNode, RegistryInv, AdminSound
  <2> HIDE DEF n
  <2>2. NoAdmin \in AdminRec /\ AdminSound(NoAdmin)
    BY RegistryConstants DEF AdminSound, NoAdmin
  <2>3. mlock' \in [Name -> RegistryActor \cup {Nobody}]
    BY <2>1 DEF RegistryInv, RegistryTyped, Unlocked
  <2>4. CASE UNCHANGED <<row, last>>
    BY <2>1, <2>2, <2>3, <2>4, AdminMoves DEF RegistryInv, RegistryTyped
  <2>5. CASE row' = [row EXCEPT ![n] = NoRow] /\ last' = [last EXCEPT ![n] = {}]
    <3>1. row' \in [Name -> Row] /\ row'[n] = NoRow /\ \A o \in Name : o # n => row'[o] = row[o]
      BY <2>1, <2>5, RegistryConstants DEF RegistryInv, RegistryTyped
    <3>2. last' \in [Name -> SUBSET Reported] /\ last'[n] = {} /\ \A o \in Name : o # n => last'[o] = last[o]
      BY <2>1, <2>5 DEF RegistryInv, RegistryTyped
    <3>3. NoRow.models = {}
      BY DEF NoRow
    <3>4. \A o \in Name : \/ row'[o] = row[o] /\ last'[o] = last[o]
                          \/ lock[o] = Nobody /\ row'[o].models = last'[o]
      BY <2>1, <3>1, <3>2, <3>3
    <3> QED
      BY <2>1, <2>2, <2>3, <3>1, <3>2, <3>4, AdminMoves
  <2> QED
    BY <2>1, <2>4, <2>5
<1> QED
  BY <1>1, <1>2

\* A poll goes on, and touches no row.
LEMMA CycleMoves ==
  ASSUME RegistryInv, NEW c \in Cycle, NEW k \in CycleRec, CycleSound(k, c, lock, row),
         cycle' = [cycle EXCEPT ![c] = k], since' \in 0 .. Period,
         UNCHANGED <<world, row, last, lock, mlock, beat, admin>>
  PROVE  RegistryInv'
<1>1. cycle' \in [Cycle -> CycleRec] /\ cycle'[c] = k /\ \A o \in Cycle : o # c => cycle'[o] = cycle[o]
  BY DEF RegistryInv, RegistryTyped
<1>2. RegistryTyped' /\ ModelsAreReported'
  BY <1>1 DEF RegistryInv, RegistryTyped, ModelsAreReported
<1>3. c \notin Admin /\ c \notin Beat
  BY ActorAssumption
<1>4. CycleSound(cycle'[c], c, lock', row')
  BY <1>1
<1> QED
  BY <1>1, <1>2, <1>3, <1>4, OthersKeep

\* A poll begins: it has heard nobody.
LEMMA CycleStartStep ==
  ASSUME RegistryInv, NEW c \in Cycle, CycleStart(c)
  PROVE  RegistryInv'
<1> DEFINE direct == {n \in Name : row[n].id # 0 /\ row[n].direct}
           work == [n \in Name |-> IF n \in direct THEN [NoWork EXCEPT !.id = row[n].id, !.online = row[n].online]
                                    ELSE NoWork]
           k == [pc |-> "next", todo |-> direct, cur |-> Nobody, waited |-> 0, work |-> work]
<1>1. ASSUME NEW n \in Name
      PROVE  work[n] \in Work /\ work[n].answer = "none" /\ work[n].known = {} /\ work[n].found = {}
  <2> DEFINE x == [NoWork EXCEPT !.id = row[n].id]
             y == [x EXCEPT !.online = row[n].online]
  <2>1. row[n].id \in Id /\ row[n].online \in BOOLEAN
    BY DEF RegistryInv, RegistryTyped, Row
  <2>2. x \in Work /\ x.answer = "none" /\ x.known = {} /\ x.found = {}
    BY <2>1, RegistryConstants DEF Work, NoWork
  <2> HIDE DEF x
  <2>3. y \in Work /\ y.answer = "none" /\ y.known = {} /\ y.found = {}
    BY <2>1, <2>2 DEF Work
  <2>4. NoWork \in Work /\ NoWork.answer = "none" /\ NoWork.known = {} /\ NoWork.found = {}
    BY RegistryConstants DEF NoWork
  <2>5. work[n] = IF n \in direct THEN y ELSE NoWork
    BY DEF x
  <2> QED
    BY <2>3, <2>4, <2>5
<1>2. work \in [Name -> Work]
  BY <1>1
<1>3. k \in CycleRec
  BY <1>2, RegistryConstants DEF CycleRec
<1>4. CycleSound(k, c, lock, row)
  BY <1>1 DEF CycleSound
<1>5. cycle' = [cycle EXCEPT ![c] = k] /\ since' = 0
      /\ UNCHANGED <<world, row, last, lock, mlock, beat, admin>>
  BY DEF CycleStart
<1> HIDE DEF k
<1> QED
  BY <1>3, <1>4, <1>5, RegistryConstants, CycleMoves

\* A poll asks a host, which answers or not; or it closes.
LEMMA CycleAskStep ==
  ASSUME RegistryInv, NEW c \in Cycle, CycleProbe(c) \/ CycleHeard(c) \/ CycleSilent(c) \/ CycleClose(c)
  PROVE  RegistryInv'
<1> DEFINE old == cycle[c]
<1>0. /\ old \in CycleRec /\ CycleSound(old, c, lock, row) /\ since \in 0 .. Period
      /\ UNCHANGED <<world, row, last, lock, mlock, beat, admin, since>>
      /\ old.work \in [Name -> Work] /\ old.todo \in SUBSET Name /\ old.cur \in Name \cup {Nobody}
  BY DEF RegistryInv, RegistryTyped, CycleRec, CycleProbe, CycleHeard, CycleSilent, CycleClose
<1>1. ASSUME NEW k \in CycleRec, CycleSound(k, c, lock, row), cycle' = [cycle EXCEPT ![c] = k]
      PROVE  RegistryInv'
  BY <1>0, <1>1, CycleMoves
<1>2. ASSUME NEW n \in old.todo, old.pc = "next",
             cycle' = [cycle EXCEPT ![c] = [pc |-> "probing", todo |-> old.todo \ {n}, cur |-> n, waited |-> 0,
                                            work |-> [old.work EXCEPT ![n].age = 0]]]
      PROVE  RegistryInv'
  <2> DEFINE w == [old.work EXCEPT ![n].age = 0]
             k == [pc |-> "probing", todo |-> old.todo \ {n}, cur |-> n, waited |-> 0, work |-> w]
  <2>1. n \in Name
    BY <1>0, <1>2
  <2>2. w \in [Name -> Work]
        /\ \A o \in Name : /\ w[o].answer = old.work[o].answer
                           /\ w[o].known = old.work[o].known /\ w[o].found = old.work[o].found
    BY <1>0, <2>1, RegistryConstants DEF Work
  <2> HIDE DEF w
  <2>3. k \in CycleRec /\ k.pc = "probing" /\ k.cur = n /\ k.work = w
    BY <1>0, <2>1, <2>2, RegistryConstants DEF CycleRec
  <2>4. CycleSound(k, c, lock, row)
    BY <1>0, <1>2, <2>1, <2>2, <2>3 DEF CycleSound
  <2> QED
    BY <1>1, <1>2, <2>3, <2>4 DEF w
<1>3. ASSUME NEW answer \in {"heard", "silent"}, NEW found \in SUBSET Reported, NEW pc \in {"flushing", "next"},
             answer = "heard" <=> pc = "flushing", old.pc = "probing", Answered(c, answer, found, pc)
      PROVE  RegistryInv'
  <2> DEFINE n == old.cur
             x == [old.work[n] EXCEPT !.answer = answer]
             y == [x EXCEPT !.found = found]
             w == [old.work EXCEPT ![n] = y]
             k == [pc |-> pc, todo |-> old.todo, cur |-> n, waited |-> 0, work |-> w]
  <2>1. n \in Name
    BY <1>0, <1>3 DEF CycleSound
  <2>2. x \in Work /\ x.answer = answer
    BY <1>0, <1>3, <2>1 DEF Work
  <2>3. [old.work EXCEPT ![n].answer = answer, ![n].found = found] = w
    BY <1>0, <2>1
  <2>4. cycle' = [cycle EXCEPT ![c] = [pc |-> pc, todo |-> old.todo, cur |-> n, waited |-> 0,
                    work |-> [old.work EXCEPT ![n].answer = answer, ![n].found = found]]]
    BY <1>3 DEF Answered, RegistryInv, RegistryTyped
  <2>5. cycle' = [cycle EXCEPT ![c] = k]
    BY <2>3, <2>4
  <2> HIDE DEF x
  <2>6. y \in Work /\ y.answer = answer
    BY <1>3, <2>2 DEF Work
  <2> HIDE DEF y, n, old
  <2>7. w \in [Name -> Work] /\ w[n].answer = answer /\ \A o \in Name : o # n => w[o] = old.work[o]
    BY <1>0, <2>1, <2>6
  <2> HIDE DEF w
  <2>8. k \in CycleRec /\ k.pc = pc /\ k.cur = n /\ k.work = w
    BY <1>0, <1>3, <2>1, <2>7, RegistryConstants DEF CycleRec
  <2> HIDE DEF k
  <2>9. CycleSound(k, c, lock, row)
    <3>1. ASSUME NEW o \in Name, k.work[o].answer = "heard", ~(k.pc = "flushing" /\ k.cur = o)
          PROVE  lock[o] = c /\ k.work[o].known = row[o].models
      <4>1. o # n
        BY <1>3, <2>7, <2>8, <3>1
      <4> QED
        BY <1>0, <1>3, <2>7, <2>8, <3>1, <4>1 DEF CycleSound
    <3>2. ASSUME NEW o \in Name, k.work[o].answer = "none"
          PROVE  k.work[o].known = {} /\ k.work[o].found = {}
      <4>1. o # n
        BY <1>3, <2>7, <2>8, <3>2
      <4> QED
        BY <1>0, <2>7, <2>8, <3>2, <4>1 DEF CycleSound
    <3> QED
      BY <1>3, <2>1, <2>7, <2>8, <3>1, <3>2 DEF CycleSound
  <2> QED
    BY <1>1, <2>5, <2>8, <2>9
<1>4. CASE CycleProbe(c)
  <2>1. old.pc = "next" /\ \E n \in old.todo :
          cycle' = [cycle EXCEPT ![c] = [pc |-> "probing", todo |-> old.todo \ {n}, cur |-> n, waited |-> 0,
                                         work |-> [old.work EXCEPT ![n].age = 0]]]
    BY <1>4 DEF CycleProbe, RegistryInv, RegistryTyped
  <2> QED
    BY <1>2, <2>1
<1>5. CASE CycleHeard(c)
  <2>1. old.pc = "probing" /\ \E ms \in SUBSET Reported : Answered(c, "heard", ms, "flushing")
    BY <1>5, WorldIsKnown DEF CycleHeard, RegistryInv
  <2> QED
    BY <1>3, <2>1
<1>6. CASE CycleSilent(c)
  <2>1. old.pc = "probing" /\ Answered(c, "silent", {}, "next")
    BY <1>6 DEF CycleSilent
  <2> QED
    BY <1>3, <2>1
<1>7. CASE CycleClose(c)
  <2> DEFINE k == [old EXCEPT !.pc = "closing"]
  <2>1. old.pc = "next" /\ cycle' = [cycle EXCEPT ![c] = k]
    BY <1>7 DEF CycleClose, RegistryInv, RegistryTyped
  <2>2. k \in CycleRec /\ k.pc = "closing" /\ k.work = old.work
    BY <1>0 DEF CycleRec
  <2>3. CycleSound(k, c, lock, row)
    BY <1>0, <2>1, <2>2 DEF CycleSound
  <2> QED
    BY <1>1, <2>1, <2>2, <2>3
<1> QED
  BY <1>4, <1>5, <1>6, <1>7

\* A poll that ends, well or not, holds nothing.
LEMMA CycleEnds ==
  ASSUME RegistryInv, NEW c \in Cycle, cycle' = [cycle EXCEPT ![c] = NoCycle], lock' = Unlocked(lock, c),
         row' \in [Name -> Row], last' \in [Name -> SUBSET Reported], \A n \in Name : row'[n].models = last'[n],
         \A n \in Name : lock[n] # c => row'[n] = row[n],
         UNCHANGED <<world, mlock, beat, admin, since>>
  PROVE  RegistryInv'
<1>1. cycle' \in [Cycle -> CycleRec] /\ cycle'[c] = NoCycle /\ \A o \in Cycle : o # c => cycle'[o] = cycle[o]
  BY RegistryConstants DEF RegistryInv, RegistryTyped
<1>2. lock' \in [Name -> RegistryActor \cup {Nobody}] /\ \A n \in Name : lock[n] # c => lock'[n] = lock[n]
  BY DEF RegistryInv, RegistryTyped, Unlocked
<1>3. RegistryTyped' /\ ModelsAreReported'
  BY <1>1, <1>2 DEF RegistryInv, RegistryTyped, ModelsAreReported
<1>4. c \notin Admin /\ c \notin Beat
  BY ActorAssumption
<1>5. CycleSound(cycle'[c], c, lock', row')
  BY <1>1 DEF CycleSound, NoCycle, NoWork
<1>6. \A n \in Name : lock[n] \notin {Nobody, c} => lock'[n] = lock[n] /\ row'[n].models = row[n].models
  BY <1>2
<1> QED
  BY <1>1, <1>3, <1>4, <1>5, <1>6, OthersKeep

\* It writes one row, or fails with all of them.
LEMMA CycleWriteStep ==
  ASSUME RegistryInv, NEW c \in Cycle, NEW n \in Name, CycleWrite(c, n)
  PROVE  RegistryInv'
<1>0. UNCHANGED <<world, row, last, mlock, beat, admin, since>> /\ lock[n] = Nobody
  BY DEF CycleWrite
<1>1. CASE lock' = [lock EXCEPT ![n] = c] /\ cycle' = cycle
  <2>1. lock' \in [Name -> RegistryActor \cup {Nobody}] /\ lock'[n] = c
        /\ \A o \in Name : o # n => lock'[o] = lock[o]
    BY <1>1 DEF RegistryInv, RegistryTyped, RegistryActor
  <2>2. CycleSound(cycle[c], c, lock, row)
    BY DEF RegistryInv
  <2>3. CycleSound(cycle'[c], c, lock', row')
    BY <1>0, <1>1, <2>1, <2>2 DEF CycleSound
  <2>4. RegistryTyped' /\ ModelsAreReported'
    BY <1>0, <1>1, <2>1 DEF RegistryInv, RegistryTyped, ModelsAreReported
  <2>5. c \notin Admin /\ c \notin Beat
    BY ActorAssumption
  <2>6. \A o \in Name : lock[o] \notin {Nobody, c} => lock'[o] = lock[o] /\ row'[o].models = row[o].models
    BY <1>0, <2>1
  <2> QED
    BY <1>0, <1>1, <2>3, <2>4, <2>5, <2>6, OthersKeep
<1>2. CASE lock' = Unlocked(lock, c) /\ cycle' = [cycle EXCEPT ![c] = NoCycle]
  BY <1>0, <1>2, CycleEnds DEF RegistryInv, RegistryTyped, ModelsAreReported
<1> QED
  BY <1>1, <1>2 DEF CycleWrite

\* It reads the models of the row it has just written.
LEMMA CycleModelsStep ==
  ASSUME RegistryInv, NEW c \in Cycle, CycleModels(c)
  PROVE  RegistryInv'
<1> DEFINE old == cycle[c]
           n == old.cur
           y == [old.work[n] EXCEPT !.known = row[n].models]
           w == [old.work EXCEPT ![n] = y]
           x == [old EXCEPT !.pc = "next"]
           k == [x EXCEPT !.work = w]
<1>0. /\ old \in CycleRec /\ CycleSound(old, c, lock, row) /\ since \in 0 .. Period /\ old.pc = "flushing"
      /\ UNCHANGED <<world, row, last, lock, mlock, beat, admin, since>>
      /\ old.work \in [Name -> Work] /\ Dirty(c) = {}
      /\ cycle' = [cycle EXCEPT ![c].pc = "next", ![c].work[n].known = row[n].models]
  BY DEF RegistryInv, RegistryTyped, CycleRec, CycleModels
<1>1. n \in Name /\ row[n].models \in SUBSET Reported
  BY <1>0 DEF CycleSound, RegistryInv, RegistryTyped, Row
<1>2. cycle' = [cycle EXCEPT ![c] = k]
  BY <1>0, <1>1 DEF RegistryInv, RegistryTyped, CycleRec
<1>3. y \in Work /\ y.answer = old.work[n].answer /\ y.known = row[n].models /\ y.found = old.work[n].found
  BY <1>0, <1>1 DEF Work
<1>4. \A o \in Name : old.work[o].answer = "heard" => lock[o] = c
  BY <1>0 DEF Dirty
<1>5. x \in CycleRec /\ x.pc = "next"
  BY <1>0 DEF CycleRec
<1>6. y.answer = "heard" /\ lock[n] = c
  BY <1>0, <1>1, <1>3, <1>4 DEF CycleSound
<1> HIDE DEF x, y, n, old
<1>7. w \in [Name -> Work] /\ w[n] = y /\ \A o \in Name : o # n => w[o] = old.work[o]
  BY <1>0, <1>1, <1>3
<1> HIDE DEF w
<1>8. k \in CycleRec /\ k.pc = "next" /\ k.work = w
  BY <1>5, <1>7 DEF CycleRec
<1> HIDE DEF k
<1>9. ASSUME NEW o \in Name
      PROVE  /\ k.work[o].answer = "heard" => lock[o] = c /\ k.work[o].known = row[o].models
             /\ k.work[o].answer = "none" => k.work[o].known = {} /\ k.work[o].found = {}
  <2>1. CASE o = n
    BY <1>3, <1>6, <1>7, <1>8, <2>1
  <2>2. CASE o # n
    <3>1. ~(old.pc = "flushing" /\ old.cur = o) /\ k.work[o] = old.work[o]
      BY <1>7, <1>8, <2>2 DEF n
    <3> QED
      BY <1>0, <3>1 DEF CycleSound
  <2> QED
    BY <2>1, <2>2
<1>10. CycleSound(k, c, lock, row)
  BY <1>8, <1>9 DEF CycleSound
<1> QED
  BY <1>0, <1>2, <1>8, <1>10, CycleMoves

\* What a poll writes of one node: of a host that answered, what it found.
LEMMA CycleRowIs ==
  ASSUME NEW r \in Row, NEW w \in Work,
         w.answer = "heard" => w.known = r.models,
         w.answer = "none" => w.known = {} /\ w.found = {}
  PROVE  /\ CycleRow(r, w) \in Row
         /\ CycleRow(r, w).models = IF w.answer = "heard" THEN w.found ELSE r.models
<1>0. r.online \in BOOLEAN /\ r.models \in SUBSET Reported /\ w.online \in BOOLEAN /\ w.age \in Age
      /\ w.found \in SUBSET Reported /\ w.answer \in {"none", "heard", "silent"}
  BY DEF Row, Work
<1>1. CASE w.answer = "silent"
  <2>1. CycleRow(r, w) = [r EXCEPT !.online = Written(r.online, w.online, FALSE)]
    BY <1>1 DEF CycleRow
  <2>2. Written(r.online, w.online, FALSE) \in BOOLEAN
    BY <1>0 DEF Written
  <2> HIDE DEF CycleRow
  <2> QED
    BY <1>1, <2>1, <2>2 DEF Row
<1>2. CASE w.answer # "silent"
  <2> DEFINE x == [r EXCEPT !.online = Written(r.online, w.online, TRUE)]
             y == [x EXCEPT !.age = w.age]
             models == Upserted(r.models, w.known, w.found)
             z == [y EXCEPT !.models = models]
  <2>1. Written(r.online, w.online, TRUE) \in BOOLEAN
    BY <1>0 DEF Written
  <2>2. x \in Row /\ x.models = r.models
    BY <2>1 DEF Row
  <2>3. CycleRow(r, w) = z
    BY <1>2 DEF CycleRow, Row
  <2> HIDE DEF x
  <2>4. y \in Row
    BY <1>0, <2>2 DEF Row
  <2> HIDE DEF y
  <2>5. models = IF w.answer = "heard" THEN w.found ELSE r.models
    <3>1. CASE w.answer = "heard"
      BY <3>1, UpsertIsExact
    <3>2. CASE w.answer = "none"
      BY <3>2 DEF Upserted
    <3> QED
      BY <1>0, <1>2, <3>1, <3>2
  <2> HIDE DEF models
  <2>6. models \in SUBSET Reported
    BY <1>0, <2>5
  <2>7. z \in Row /\ z.models = models
    BY <2>4, <2>6 DEF Row
  <2> QED
    BY <2>3, <2>5, <2>7
<1> QED
  BY <1>1, <1>2

\* It commits, and the rows of the hosts that answered have what these reported.
LEMMA CycleCommitStep ==
  ASSUME RegistryInv, NEW c \in Cycle, CycleCommit(c)
  PROVE  RegistryInv'
<1> DEFINE old == cycle[c]
           work == old.work
<1>0. /\ old \in CycleRec /\ CycleSound(old, c, lock, row) /\ old.pc = "closing"
      /\ UNCHANGED <<world, mlock, beat, admin, since>> /\ Dirty(c) = {}
      /\ work \in [Name -> Work] /\ row \in [Name -> Row] /\ last \in [Name -> SUBSET Reported]
      /\ \A n \in Name : row[n].models = last[n]
      /\ lock' = Unlocked(lock, c) /\ cycle' = [cycle EXCEPT ![c] = NoCycle]
      /\ row' = [n \in Name |-> IF n \in {m \in Name : lock[m] = c} THEN CycleRow(row[n], work[n]) ELSE row[n]]
      /\ last' = [n \in Name |-> IF n \in {m \in Name : work[m].answer = "heard"} THEN work[n].found ELSE last[n]]
  BY DEF RegistryInv, RegistryTyped, CycleRec, CycleCommit, ModelsAreReported
<1>1. \A n \in Name : work[n].answer = "heard" => lock[n] = c
  BY <1>0 DEF Dirty
<1>2. \A n \in Name :
        /\ work[n].answer = "heard" => work[n].known = row[n].models
        /\ work[n].answer = "none" => work[n].known = {} /\ work[n].found = {}
  BY <1>0 DEF CycleSound
<1> HIDE DEF work, old
<1>3. ASSUME NEW n \in Name
      PROVE  /\ row'[n] \in Row /\ last'[n] \in SUBSET Reported
             /\ row'[n].models = last'[n] /\ (lock[n] # c => row'[n] = row[n])
  <2>1. row[n] \in Row /\ work[n] \in Work /\ work[n].found \in SUBSET Reported
        /\ last[n] \in SUBSET Reported /\ row[n].models = last[n]
    BY <1>0 DEF Work
  <2>2. last'[n] = IF work[n].answer = "heard" THEN work[n].found ELSE last[n]
    BY <1>0
  <2>3. CASE lock[n] = c
    <3>1. row'[n] = CycleRow(row[n], work[n])
      BY <1>0, <2>3
    <3>2. /\ CycleRow(row[n], work[n]) \in Row
          /\ CycleRow(row[n], work[n]).models = IF work[n].answer = "heard" THEN work[n].found ELSE row[n].models
      BY <1>2, <2>1, CycleRowIs
    <3> QED
      BY <2>1, <2>2, <2>3, <3>1, <3>2
  <2>4. CASE lock[n] # c
    <3>1. row'[n] = row[n] /\ last'[n] = last[n]
      BY <1>0, <1>1, <2>4
    <3> QED
      BY <2>1, <3>1
  <2> QED
    BY <2>3, <2>4
<1>4. row' \in [Name -> Row] /\ last' \in [Name -> SUBSET Reported]
  BY <1>0, <1>3
<1> QED
  BY <1>0, <1>3, <1>4, CycleEnds

\* The database aborts a request that waits in a circle.
LEMMA AbortStep ==
  ASSUME RegistryInv, NEW x \in RegistryActor, Abort(x)
  PROVE  RegistryInv'
<1> USE RegistryConstants
<1>0. /\ lock' = Unlocked(lock, x) /\ mlock' = Unlocked(mlock, x)
      /\ beat' = IF x \in Beat THEN [beat EXCEPT ![x] = NoBeat] ELSE beat
      /\ cycle' = IF x \in Cycle THEN [cycle EXCEPT ![x] = NoCycle] ELSE cycle
      /\ admin' = IF x \in Admin THEN [admin EXCEPT ![x] = NoAdmin] ELSE admin
      /\ UNCHANGED <<world, row, last, since>>
  BY DEF Abort
<1>1. lock' \in [Name -> RegistryActor \cup {Nobody}] /\ \A n \in Name : lock[n] # x => lock'[n] = lock[n]
  BY <1>0 DEF RegistryInv, RegistryTyped, Unlocked
<1>2. mlock' \in [Name -> RegistryActor \cup {Nobody}]
  BY <1>0 DEF RegistryInv, RegistryTyped, Unlocked
<1>3. beat' \in [Beat -> BeatRec] /\ (x \in Beat => beat'[x] = NoBeat) /\ \A o \in Beat : o # x => beat'[o] = beat[o]
  BY <1>0 DEF RegistryInv, RegistryTyped
<1>4. cycle' \in [Cycle -> CycleRec] /\ (x \in Cycle => cycle'[x] = NoCycle) /\ \A o \in Cycle : o # x => cycle'[o] = cycle[o]
  BY <1>0 DEF RegistryInv, RegistryTyped
<1>5. admin' \in [Admin -> AdminRec] /\ (x \in Admin => admin'[x] = NoAdmin) /\ \A o \in Admin : o # x => admin'[o] = admin[o]
  BY <1>0 DEF RegistryInv, RegistryTyped
<1>6. RegistryTyped' /\ ModelsAreReported'
  BY <1>0, <1>1, <1>2, <1>3, <1>4, <1>5 DEF RegistryInv, RegistryTyped, ModelsAreReported
<1>7. x \in Beat => BeatSound(beat'[x], x, lock', row')
  BY <1>3 DEF BeatSound, NoBeat
<1>8. x \in Cycle => CycleSound(cycle'[x], x, lock', row')
  BY <1>4 DEF CycleSound, NoCycle, NoWork
<1>9. x \in Admin => AdminSound(admin'[x])
  BY <1>5 DEF AdminSound, NoAdmin
<1>10. \A n \in Name : lock[n] \notin {Nobody, x} => lock'[n] = lock[n] /\ row'[n].models = row[n].models
  BY <1>0, <1>1
<1> QED
  BY <1>3, <1>4, <1>5, <1>6, <1>7, <1>8, <1>9, <1>10, OthersKeep

\* The sweep marks silent nodes and leaves their models.
LEMMA SweepStep ==
  ASSUME RegistryInv, Sweep
  PROVE  RegistryInv'
<1>0. /\ UNCHANGED <<world, last, lock, mlock, beat, cycle, admin, since>> /\ row \in [Name -> Row]
      /\ row' = [n \in Name |-> IF n \in {m \in Name : row[m].online /\ row[m].age > OfflineAfter}
                                THEN [row[n] EXCEPT !.online = FALSE] ELSE row[n]]
  BY DEF Sweep, RegistryInv, RegistryTyped
<1>1. ASSUME NEW n \in Name
      PROVE  row'[n] \in Row /\ row'[n].models = row[n].models
  <2>1. [row[n] EXCEPT !.online = FALSE] \in Row /\ [row[n] EXCEPT !.online = FALSE].models = row[n].models
    BY <1>0 DEF Row
  <2>2. row'[n] \in {[row[n] EXCEPT !.online = FALSE], row[n]}
    BY <1>0
  <2> QED
    BY <1>0, <2>1, <2>2
<1>2. row' \in [Name -> Row]
  BY <1>0, <1>1
<1>3. RegistryTyped' /\ ModelsAreReported'
  BY <1>0, <1>1, <1>2 DEF RegistryInv, RegistryTyped, ModelsAreReported
<1>4. Nobody \notin Beat /\ Nobody \notin Cycle /\ Nobody \notin Admin
  BY ActorAssumption
<1> QED
  BY <1>0, <1>1, <1>3, <1>4, OthersKeep

\* Five seconds go by: rows, reports and measurements in memory get older.
LEMMA TickStep ==
  ASSUME RegistryInv, Tick
  PROVE  RegistryInv'
<1> USE RegistryConstants
<1> DEFINE waited(c) == IF cycle[c].pc = "probing" THEN cycle[c].waited + 1 ELSE cycle[c].waited
           work(c) == [n \in Name |-> [cycle[c].work[n] EXCEPT !.age = Older(@)]]
           x(c) == [cycle[c] EXCEPT !.waited = waited(c)]
           k(c) == [x(c) EXCEPT !.work = work(c)]
<1>0. /\ UNCHANGED <<world, last, lock, mlock, admin>> /\ \A c \in Cycle : OnTime(c)
      /\ since' = IF since < Period THEN since + 1 ELSE Period
      /\ row' = [n \in Name |-> [row[n] EXCEPT !.age = Older(@)]]
      /\ beat' = [b \in Beat |-> [beat[b] EXCEPT !.age = IF beat[b].pc = "idle" THEN 0 ELSE Older(@)]]
      /\ row \in [Name -> Row] /\ beat \in [Beat -> BeatRec] /\ cycle \in [Cycle -> CycleRec]
  BY DEF Tick, RegistryInv, RegistryTyped
<1>1. cycle' = [c \in Cycle |-> k(c)]
  BY <1>0 DEF Tick, CycleRec
<1>2. ASSUME NEW n \in Name
      PROVE  row'[n] \in Row /\ row'[n].models = row[n].models
  <2>1. row[n] \in Row /\ row'[n] = [row[n] EXCEPT !.age = Older(row[n].age)]
    BY <1>0
  <2>2. Older(row[n].age) \in Age
    BY <2>1 DEF Row
  <2> QED
    BY <2>1, <2>2 DEF Row
<1>3. row' \in [Name -> Row]
  BY <1>0, <1>2
<1>4. ASSUME NEW b \in Beat
      PROVE  beat'[b] \in BeatRec /\ BeatSound(beat'[b], b, lock', row')
  <2> DEFINE age == IF beat[b].pc = "idle" THEN 0 ELSE Older(beat[b].age)
             h == [beat[b] EXCEPT !.age = age]
  <2>1. beat[b] \in BeatRec /\ beat'[b] = h /\ BeatSound(beat[b], b, lock, row)
    BY <1>0 DEF RegistryInv
  <2>2. age \in Age
    BY <2>1 DEF BeatRec
  <2> HIDE DEF age
  <2>3. h \in BeatRec /\ h.pc = beat[b].pc /\ h.name = beat[b].name /\ h.known = beat[b].known
    BY <2>1, <2>2 DEF BeatRec
  <2> HIDE DEF h
  <2> QED
    BY <1>0, <1>2, <2>1, <2>3 DEF BeatSound
<1>5. beat' \in [Beat -> BeatRec]
  BY <1>0, <1>4
<1>6. ASSUME NEW c \in Cycle
      PROVE  cycle'[c] \in CycleRec /\ CycleSound(cycle'[c], c, lock', row')
  <2>1. cycle[c] \in CycleRec /\ cycle'[c] = k(c) /\ CycleSound(cycle[c], c, lock, row) /\ OnTime(c)
    BY <1>0, <1>1 DEF RegistryInv
  <2>2. waited(c) \in 0 .. ProbeTime
    <3>1. cycle[c].waited \in 0 .. ProbeTime /\ (cycle[c].pc = "probing" => cycle[c].waited < ProbeTime)
      BY <2>1 DEF CycleRec, OnTime
    <3>2. ProbeTime \in Nat
      BY TimeAssumption
    <3> QED
      BY <3>1, <3>2
  <2> HIDE DEF waited
  <2>3. ASSUME NEW n \in Name
        PROVE  /\ work(c)[n] \in Work
               /\ work(c)[n].answer = cycle[c].work[n].answer
               /\ work(c)[n].known = cycle[c].work[n].known
               /\ work(c)[n].found = cycle[c].work[n].found
    <3>1. cycle[c].work[n] \in Work
      BY <2>1 DEF CycleRec
    <3>2. work(c)[n] = [cycle[c].work[n] EXCEPT !.age = Older(cycle[c].work[n].age)]
      OBVIOUS
    <3>3. Older(cycle[c].work[n].age) \in Age
      BY <3>1 DEF Work
    <3> QED
      BY <3>1, <3>2, <3>3 DEF Work
  <2>4. work(c) \in [Name -> Work]
    BY <2>3
  <2> HIDE DEF work
  <2>5. x(c) \in CycleRec /\ x(c).pc = cycle[c].pc /\ x(c).cur = cycle[c].cur
    BY <2>1, <2>2 DEF CycleRec
  <2> HIDE DEF x
  <2>6. k(c) \in CycleRec /\ k(c).pc = cycle[c].pc /\ k(c).cur = cycle[c].cur /\ k(c).work = work(c)
    BY <2>4, <2>5 DEF CycleRec
  <2> HIDE DEF k
  <2>7. CycleSound(cycle'[c], c, lock', row')
    BY <1>0, <1>2, <2>1, <2>3, <2>6 DEF CycleSound
  <2> QED
    BY <2>1, <2>6, <2>7
<1>7. cycle' \in [Cycle -> CycleRec]
  <2> HIDE DEF k
  <2> QED
    BY <1>1, <1>6
<1>8. since' \in 0 .. Period
  BY <1>0, TimeAssumption DEF RegistryInv, RegistryTyped
<1>9. RegistryTyped'
  BY <1>0, <1>3, <1>5, <1>7, <1>8 DEF RegistryInv, RegistryTyped
<1>10. ModelsAreReported'
  BY <1>0, <1>2 DEF RegistryInv, ModelsAreReported
<1> QED
  BY <1>0, <1>4, <1>6, <1>9, <1>10 DEF RegistryInv

\* It holds at first, of hosts that are polled and of none.
LEMMA RegistryStarts == RegistryInit => RegistryInv
<1> SUFFICES ASSUME RegistryInit
             PROVE  RegistryInv
  OBVIOUS
<1> USE RegistryConstants
<1> DEFINE first == [id |-> 1, direct |-> TRUE, online |-> TRUE, age |-> 0, models |-> {}]
<1>1. 1 \in Id
  BY TimeAssumption DEF Id
<1>2. first \in Row /\ first.models = {} /\ NoRow.models = {}
  BY <1>1 DEF Row, NoRow
<1>3. \A n \in Name : row[n] \in {first, NoRow}
  BY DEF RegistryInit
<1> HIDE DEF first
<1>4. row \in [Name -> Row] /\ \A n \in Name : row[n].models = {}
  BY <1>2, <1>3 DEF RegistryInit
<1>5. RegistryTyped /\ ModelsAreReported
  BY <1>4 DEF RegistryInit, RegistryTyped, ModelsAreReported
<1>6. \A b \in Beat : BeatSound(beat[b], b, lock, row)
  BY DEF RegistryInit, BeatSound, NoBeat
<1>7. \A c \in Cycle : CycleSound(cycle[c], c, lock, row)
  BY DEF RegistryInit, CycleSound, NoCycle, NoWork
<1>8. \A a \in Admin : AdminSound(admin[a])
  BY DEF RegistryInit, AdminSound, NoAdmin
<1> QED
  BY <1>5, <1>6, <1>7, <1>8 DEF RegistryInv

\* Every step of the registry keeps it.
LEMMA RegistrySteps == RegistryInv /\ [RegistryNext]_registryVars => RegistryInv'
<1> SUFFICES ASSUME RegistryInv, [RegistryNext]_registryVars
             PROVE  RegistryInv'
  OBVIOUS
<1>1. CASE UNCHANGED registryVars
  BY <1>1 DEF registryVars, RegistryInv, RegistryTyped, ModelsAreReported
<1>2. ASSUME NEW b \in Beat, BeatStep(b) \/ \E n \in Name : BeatRead(b, n)
      PROVE  RegistryInv'
  BY <1>2, BeatReadStep, BeatFlushStep, BeatCommitStep, BeatMetricStep DEF BeatStep
<1>3. ASSUME NEW a \in Admin, AdminStep(a) \/ \E n \in Name : CreateRead(a, n) \/ DeleteRead(a, n)
      PROVE  RegistryInv'
  BY <1>3, AdminReadStep, CreateInsertStep, DeleteStep DEF AdminStep
<1>4. ASSUME NEW c \in Cycle, CycleStart(c) \/ CycleStep(c)
      PROVE  RegistryInv'
  BY <1>4, CycleStartStep, CycleAskStep, CycleWriteStep, CycleModelsStep, CycleCommitStep DEF CycleStep
<1> QED
  BY <1>1, <1>2, <1>3, <1>4, AbortStep, SweepStep, TickStep DEF RegistryNext

\* The state of the registry has its type, for any number of nodes, reports, polls and
\* deletions that cross.
THEOREM RegistryTypes == RegistryInit /\ [][RegistryNext]_registryVars => []RegistryTypeOK
<1>1. RegistryInv => RegistryTypeOK
  BY DEF RegistryInv, RegistryTyped, RegistryTypeOK, BeatRec, CycleRec, AdminRec
<1> QED
  BY <1>1, RegistryStarts, RegistrySteps, PTL

\* The models of a row are those of the report it was last written from, whoever reports,
\* polls, creates and deletes nodes meanwhile, and whatever the database aborts.
THEOREM ReportsStayWhole == RegistryInit /\ [][RegistryNext]_registryVars => []ModelsAreReported
<1>1. RegistryInv => ModelsAreReported
  BY DEF RegistryInv
<1> QED
  BY <1>1, RegistryStarts, RegistrySteps, PTL

-----------------------------------------------------------------------------

(***************************************************************************)
(* AnsweringIsOnline.  While the polls of hosts that do not answer are     *)
(* over within a period, only one runs at a time: its rows are never       *)
(* locked by another, so it is as long as its mute hosts are many, and     *)
(* what it writes is at most as old as itself.                             *)
(***************************************************************************)

\* A world with a clock whose polls are over before the next one begins, and whose rows
\* are not yet old when the next poll writes them.
Mute(w) == w.names \ w.up
Punctual(w) ==
  /\ w.ops = {"poll", "clock"} /\ w.up \subseteq w.names /\ IsFiniteSet(Mute(w))
  /\ Cardinality(Mute(w)) * ProbeTime < Period
  /\ Period + Cardinality(Mute(w)) * ProbeTime < OfflineAfter

\* The ticks that hosts cost which do not answer and were asked.
Spent(w, todo) == Cardinality(Mute(w) \ todo) * ProbeTime

InTime(w, k, t) ==
  IF k.pc = "probing" /\ k.cur \notin w.up THEN t + ProbeTime <= Spent(w, k.todo) + k.waited
  ELSE t <= Spent(w, k.todo)
Asked(k, n) == (k.pc = "probing" /\ k.cur = n) \/ k.work[n].answer = "heard"

\* A poll t ticks after its start: it comes to every host that answers, and what it
\* will write of it is not older than itself.
Running(w, k, t, rows) ==
  /\ k.todo \subseteq w.names /\ (k.pc = "closing" => k.todo = {})
  /\ k.pc = "probing" => k.cur \in w.names
  /\ InTime(w, k, t)
  /\ \A n \in Name : /\ k.work[n].answer # "none" => n \in w.names
                     /\ n \in w.names => k.work[n].id = rows[n].id
  /\ \A n \in w.up : /\ rows[n].age <= Period + t
                     /\ n \in k.todo \/ Asked(k, n)
                     /\ Asked(k, n) => k.work[n].age <= t

\* The rows are those of the hosts, for ever.
Hosts(w, rows) ==
  \A n \in Name : rows[n].id = (IF n \in w.names THEN 1 ELSE 0) /\ (rows[n].direct <=> n \in w.names)

\* At most one poll runs, and holds what is held.
Alone(w, locks, cycles, rows, t) ==
  /\ \A n \in Name : locks[n] # Nobody => locks[n] \in Cycle /\ cycles[locks[n]].pc # "idle"
  /\ \A c, d \in Cycle : cycles[c].pc # "idle" /\ cycles[d].pc # "idle" => c = d
  /\ (\A c \in Cycle : cycles[c].pc = "idle") => \A n \in w.up : rows[n].age <= t
  /\ \A c \in Cycle : cycles[c].pc # "idle" => Running(w, cycles[c], t, rows)

\* Nobody reports, creates or deletes.
Quiet ==
  /\ \A b \in Beat : beat[b].pc = "idle"
  /\ \A a \in Admin : admin[a].pc = "idle"
  /\ \A n \in Name : mlock[n] = Nobody

Polled == Quiet /\ Hosts(world, row) /\ Alone(world, lock, cycle, row, since)

\* What a poll may cost, all in all and host by host.
LEMMA Costs ==
  ASSUME Punctual(world)
  PROVE  /\ \A todo : Spent(world, todo) \in Nat /\ Spent(world, todo) < Period /\ Period + Spent(world, todo) < OfflineAfter
         /\ \A todo : \A n \in todo \cap Mute(world) : Spent(world, todo \ {n}) = Spent(world, todo) + ProbeTime
         /\ \A todo, n : n \notin Mute(world) => Spent(world, todo \ {n}) = Spent(world, todo)
<1> DEFINE M == Mute(world)
           C(todo) == Cardinality(M \ todo)
<1>1. /\ IsFiniteSet(M) /\ Cardinality(M) * ProbeTime < Period
      /\ Period + Cardinality(M) * ProbeTime < OfflineAfter
  BY DEF Punctual
<1>2. ProbeTime \in Nat /\ Period \in Nat /\ OfflineAfter \in Nat
  BY TimeAssumption
<1> HIDE DEF M
<1>3. Cardinality(M) \in Nat
  BY <1>1, FS_CardinalityType
<1>4. ASSUME NEW todo
      PROVE  IsFiniteSet(M \ todo) /\ C(todo) \in Nat /\ C(todo) <= Cardinality(M)
  <2>1. IsFiniteSet(M \ todo) /\ C(todo) <= Cardinality(M)
    BY <1>1, FS_Subset
  <2> QED
    BY <2>1, FS_CardinalityType
<1>5. ASSUME NEW todo
      PROVE  Spent(world, todo) \in Nat /\ Spent(world, todo) < Period /\ Period + Spent(world, todo) < OfflineAfter
  <2> DEFINE a == C(todo)
             b == Cardinality(M)
             p == ProbeTime
  <2>1. a \in Nat /\ b \in Nat /\ a <= b /\ p \in Nat
    BY <1>2, <1>3, <1>4
  <2>2. b * p < Period /\ Period + b * p < OfflineAfter
    BY <1>1
  <2>3. Spent(world, todo) = a * p
    BY DEF Spent, M
  <2> HIDE DEF a, b, p
  <2>4. a * p <= b * p
    BY <2>1
  <2>5. a * p \in Nat /\ b * p \in Nat
    BY <2>1
  <2> DEFINE ap == a * p
             bp == b * p
  <2> HIDE DEF ap, bp
  <2> QED
    BY <1>2, <2>2, <2>3, <2>4, <2>5 DEF ap, bp
<1>6. ASSUME NEW todo, NEW n \in todo \cap M
      PROVE  Spent(world, todo \ {n}) = Spent(world, todo) + ProbeTime
  <2>1. M \ (todo \ {n}) = (M \ todo) \cup {n} /\ n \notin M \ todo
    OBVIOUS
  <2>2. C(todo \ {n}) = C(todo) + 1
    BY <1>4, <2>1, FS_AddElement
  <2> DEFINE a == C(todo)
  <2>3. a \in Nat
    BY <1>4
  <2>4. Spent(world, todo \ {n}) = (a + 1) * ProbeTime /\ Spent(world, todo) = a * ProbeTime
    BY <2>2 DEF Spent, M
  <2> HIDE DEF a
  <2> QED
    BY <1>2, <2>3, <2>4
<1>7. ASSUME NEW todo, NEW n, n \notin M
      PROVE  Spent(world, todo \ {n}) = Spent(world, todo)
  <2>1. M \ (todo \ {n}) = M \ todo
    BY <1>7
  <2> QED
    BY <2>1 DEF Spent, M
<1> QED
  BY <1>5, <1>6, <1>7 DEF M

\* A poll that runs began less than a period ago.
LEMMA RunsShortly ==
  ASSUME RegistryInv, Punctual(world), NEW k \in CycleRec, NEW t \in Nat, InTime(world, k, t)
  PROVE  t < Period /\ Period + t < OfflineAfter
<1>1. /\ Spent(world, k.todo) \in Nat /\ Spent(world, k.todo) < Period /\ Period + Spent(world, k.todo) < OfflineAfter
  BY Costs
<1>2. k.waited \in 0 .. ProbeTime
  BY DEF CycleRec
<1>3. ProbeTime \in Nat /\ Period \in Nat /\ OfflineAfter \in Nat
  BY TimeAssumption
<1>4. t <= Spent(world, k.todo)
  BY <1>1, <1>2, <1>3 DEF InTime
<1> QED
  BY <1>1, <1>3, <1>4

\* A poll that goes on, alone as it is.
LEMMA RunsOn ==
  ASSUME RegistryInv, Polled, NEW c \in Cycle, cycle[c].pc # "idle", NEW k, k.pc # "idle",
         Running(world, k, since, row), cycle' = [cycle EXCEPT ![c] = k],
         \A n \in Name : lock'[n] \in {lock[n], c},
         UNCHANGED <<world, row, mlock, beat, admin, since>>
  PROVE  Polled'
<1>1. cycle'[c] = k /\ \A d \in Cycle : d # c => cycle'[d] = cycle[d] /\ cycle[d].pc = "idle"
  BY DEF RegistryInv, RegistryTyped, Polled, Alone
<1>2. \A n \in Name : lock'[n] # Nobody => lock'[n] \in Cycle /\ cycle'[lock'[n]].pc # "idle"
  BY <1>1 DEF Polled, Alone
<1>3. \A d, e \in Cycle : cycle'[d].pc # "idle" /\ cycle'[e].pc # "idle" => d = e
  BY <1>1
<1>4. \A d \in Cycle : cycle'[d].pc # "idle" => Running(world, cycle'[d], since, row)
  BY <1>1
<1>5. ~ \A d \in Cycle : cycle'[d].pc = "idle"
  BY <1>1
<1>6. Alone(world', lock', cycle', row', since')
  BY <1>2, <1>3, <1>4, <1>5 DEF Alone
<1>7. Quiet' /\ Hosts(world', row')
  BY DEF Quiet, Polled, Hosts
<1> QED
  BY <1>6, <1>7 DEF Polled

\* A poll begins when none runs: all have been heard a period ago.
LEMMA PollBegins ==
  ASSUME RegistryInv, Punctual(world), Polled, NEW c \in Cycle, CycleStart(c)
  PROVE  Polled'
<1> DEFINE direct == {n \in Name : row[n].id # 0 /\ row[n].direct}
           work == [n \in Name |-> IF n \in direct THEN [NoWork EXCEPT !.id = row[n].id, !.online = row[n].online]
                                    ELSE NoWork]
           k == [pc |-> "next", todo |-> direct, cur |-> Nobody, waited |-> 0, work |-> work]
<1>0. /\ since = Period /\ since' = 0 /\ cycle' = [cycle EXCEPT ![c] = k]
      /\ UNCHANGED <<world, row, lock, mlock, beat, admin>>
  BY DEF CycleStart, Punctual, Timed
<1>a. since = Period
  BY <1>0
<1>1. \A d \in Cycle : cycle[d].pc = "idle"
  <2>1. ASSUME NEW d \in Cycle, cycle[d].pc # "idle"
        PROVE  FALSE
    <3>1. cycle[d] \in CycleRec /\ InTime(world, cycle[d], since) /\ since \in Nat /\ Period \in Nat
      BY <2>1, TimeAssumption DEF Polled, Alone, Running, RegistryInv, RegistryTyped
    <3>2. since < Period
      BY <3>1, RunsShortly
    <3> QED
      BY <1>a, <3>1, <3>2
  <2> QED
    BY <2>1
<1>2. world.names \subseteq Name /\ world.up \subseteq world.names
  BY WorldIsKnown DEF RegistryInv, Punctual
<1>3. direct = world.names
  BY <1>2 DEF Polled, Hosts
<1>4. ASSUME NEW n \in Name
      PROVE  work[n].answer = "none" /\ (n \in world.names => work[n].id = row[n].id)
  <2> DEFINE x == [NoWork EXCEPT !.id = row[n].id]
             y == [x EXCEPT !.online = row[n].online]
  <2>1. x.answer = "none" /\ x.id = row[n].id /\ NoWork.answer = "none"
    BY DEF NoWork
  <2>2. work[n] = IF n \in direct THEN y ELSE NoWork
    OBVIOUS
  <2>3. DOMAIN x = DOMAIN NoWork
    OBVIOUS
  <2>4. y.answer = "none" /\ y.id = row[n].id
    BY DEF NoWork
  <2> HIDE DEF y, work, direct
  <2> QED
    BY <1>3, <2>1, <2>2, <2>4
<1>5. Spent(world, direct) = 0
  <2>1. Mute(world) \ direct = {}
    BY <1>3 DEF Mute
  <2>2. ProbeTime \in Nat
    BY TimeAssumption
  <2> QED
    BY <2>1, <2>2, FS_EmptySet DEF Spent
<1>6. k.pc = "next" /\ k.todo = direct /\ k.work = work
  OBVIOUS
<1> HIDE DEF k, work, direct
<1>7. \A n \in world.up : row[n].age <= Period + 0
  <2>1. \A n \in world.up : row[n].age <= since
    BY <1>1 DEF Polled, Alone
  <2>2. Period \in Nat
    BY TimeAssumption
  <2> QED
    BY <1>0, <2>1, <2>2
<1>8. InTime(world, k, 0)
  BY <1>5, <1>6 DEF InTime
<1>9. \A n \in world.up : ~Asked(k, n) /\ n \in k.todo
  BY <1>2, <1>3, <1>4, <1>6 DEF Asked
<1>10. Running(world, k, 0, row)
  BY <1>3, <1>4, <1>6, <1>7, <1>8, <1>9 DEF Running
<1>11. cycle'[c] = k /\ \A d \in Cycle : d # c => cycle'[d] = cycle[d]
  BY <1>0 DEF RegistryInv, RegistryTyped
<1>12. \A n \in Name : lock[n] = Nobody
  BY <1>1 DEF Polled, Alone
<1>13. Alone(world', lock', cycle', row', since')
  BY <1>0, <1>1, <1>6, <1>10, <1>11, <1>12 DEF Alone
<1>14. Quiet' /\ Hosts(world', row')
  BY <1>0 DEF Quiet, Polled, Hosts
<1> QED
  BY <1>13, <1>14 DEF Polled

\* It turns to a host, which will cost its time if it does not answer.
LEMMA PollProbes ==
  ASSUME RegistryInv, Punctual(world), Polled, NEW c \in Cycle, CycleProbe(c)
  PROVE  Polled'
<1> DEFINE old == cycle[c]
<1>0. /\ old \in CycleRec /\ old.pc = "next" /\ UNCHANGED <<world, row, lock, mlock, beat, admin, since>>
      /\ old.work \in [Name -> Work] /\ old.todo \in SUBSET Name
      /\ Running(world, old, since, row) /\ since \in Nat
  BY TimeAssumption DEF RegistryInv, RegistryTyped, CycleRec, CycleProbe, Polled, Alone
<1>1. PICK n \in old.todo :
        cycle' = [cycle EXCEPT ![c] = [pc |-> "probing", todo |-> old.todo \ {n}, cur |-> n, waited |-> 0,
                                       work |-> [old.work EXCEPT ![n].age = 0]]]
  BY DEF CycleProbe, RegistryInv, RegistryTyped
<1> DEFINE w == [old.work EXCEPT ![n].age = 0]
           todo == old.todo
           k == [pc |-> "probing", todo |-> todo \ {n}, cur |-> n, waited |-> 0, work |-> w]
<1>2. n \in Name /\ n \in world.names
  BY <1>0, <1>1 DEF Running
<1>3. \A o \in Name : /\ w[o].answer = old.work[o].answer /\ w[o].id = old.work[o].id
                      /\ w[o].age = IF o = n THEN 0 ELSE old.work[o].age
  BY <1>0, <1>2 DEF Work
<1>4. cycle' = [cycle EXCEPT ![c] = k]
  BY <1>1
<1> HIDE DEF w
<1>5. k.pc = "probing" /\ k.todo = todo \ {n} /\ k.cur = n /\ k.waited = 0 /\ k.work = w
  OBVIOUS
<1> HIDE DEF k
<1>6. InTime(world, k, since)
  <2>0. since <= Spent(world, todo) /\ ProbeTime \in Nat
    BY <1>0, TimeAssumption DEF Running, InTime
  <2>1. Spent(world, todo) \in Nat
    BY Costs
  <2>2. CASE n \in world.up
    <3>1. Spent(world, todo \ {n}) = Spent(world, todo)
      BY <2>2, Costs DEF Mute
    <3> QED
      BY <1>5, <2>0, <2>2, <3>1 DEF InTime
  <2>3. CASE n \notin world.up
    <3>1. n \in todo \cap Mute(world)
      BY <1>1, <1>2, <2>3 DEF Mute
    <3>2. Spent(world, todo \ {n}) = Spent(world, todo) + ProbeTime
      BY <3>1, Costs
    <3> QED
      BY <1>0, <1>5, <2>0, <2>1, <2>3, <3>2 DEF InTime
  <2> QED
    BY <2>2, <2>3
<1>7. world.up \subseteq Name
  BY WorldIsKnown DEF RegistryInv, Punctual
<1> HIDE DEF old
<1>8. ASSUME NEW o \in world.up
      PROVE  /\ row[o].age <= Period + since
             /\ o \in k.todo \/ Asked(k, o)
             /\ Asked(k, o) => k.work[o].age <= since
  <2>1. row[o].age <= Period + since /\ (o \in todo \/ Asked(old, o)) /\ (Asked(old, o) => old.work[o].age <= since)
    BY <1>0 DEF Running
  <2>2. CASE o = n
    BY <1>0, <1>3, <1>5, <1>7, <2>1, <2>2 DEF Asked
  <2>3. CASE o # n
    BY <1>0, <1>3, <1>5, <1>7, <2>1, <2>3 DEF Asked
  <2> QED
    BY <2>2, <2>3
<1>9. Running(world, k, since, row)
  BY <1>0, <1>2, <1>3, <1>5, <1>6, <1>8 DEF Running
<1> QED
  BY <1>0, <1>4, <1>5, <1>9, RunsOn DEF old

\* A host has answered, or has cost its time.
LEMMA PollHears ==
  ASSUME RegistryInv, Punctual(world), Polled, NEW c \in Cycle, CycleHeard(c) \/ CycleSilent(c)
  PROVE  Polled'
<1> DEFINE old == cycle[c]
           n == old.cur
<1>0. /\ old \in CycleRec /\ old.pc = "probing" /\ UNCHANGED <<world, row, lock, mlock, beat, admin, since>>
      /\ old.work \in [Name -> Work] /\ CycleSound(old, c, lock, row)
      /\ Running(world, old, since, row) /\ since \in Nat /\ old.waited \in 0 .. ProbeTime
  BY TimeAssumption DEF RegistryInv, RegistryTyped, CycleRec, CycleHeard, CycleSilent, Polled, Alone
<1>1. n \in Name /\ n \in world.names
  BY <1>0 DEF CycleSound, Running
<1>2. ASSUME NEW answer \in {"heard", "silent"}, NEW found, NEW pc \in {"flushing", "next"},
             answer = "heard" => n \in world.up,
             answer = "silent" => n \notin world.up /\ old.waited = ProbeTime,
             Answered(c, answer, found, pc)
      PROVE  Polled'
  <2> DEFINE x == [old.work[n] EXCEPT !.answer = answer]
             y == [x EXCEPT !.found = found]
             w == [old.work EXCEPT ![n] = y]
             todo == old.todo
             k == [pc |-> pc, todo |-> todo, cur |-> n, waited |-> 0, work |-> w]
  <2>1. [old.work EXCEPT ![n].answer = answer, ![n].found = found] = w
    BY <1>0, <1>1
  <2>2. cycle' = [cycle EXCEPT ![c] = [pc |-> pc, todo |-> old.todo, cur |-> n, waited |-> 0,
                    work |-> [old.work EXCEPT ![n].answer = answer, ![n].found = found]]]
    BY <1>2 DEF Answered, RegistryInv, RegistryTyped
  <2>3. cycle' = [cycle EXCEPT ![c] = k]
    BY <2>1, <2>2
  <2>4. old.work[n] \in Work
    BY <1>0, <1>1
  <2>5. /\ DOMAIN x = DOMAIN old.work[n] /\ x.answer = answer
        /\ x.id = old.work[n].id /\ x.age = old.work[n].age
    BY <2>4 DEF Work
  <2>6. "answer" \in DOMAIN x /\ "id" \in DOMAIN x /\ "age" \in DOMAIN x
    BY <2>4, <2>5 DEF Work
  <2> HIDE DEF x
  <2>7. y.answer = answer /\ y.id = old.work[n].id /\ y.age = old.work[n].age
    BY <2>5, <2>6
  <2> HIDE DEF y
  <2>8. \A o \in Name : w[o] = IF o = n THEN y ELSE old.work[o]
    BY <1>0
  <2> HIDE DEF w
  <2>9. k.pc = pc /\ k.todo = todo /\ k.cur = n /\ k.work = w
    OBVIOUS
  <2> HIDE DEF k
  <2>10. InTime(world, k, since)
    <3>1. since <= Spent(world, todo)
      <4>1. IF n \notin world.up THEN since + ProbeTime <= Spent(world, todo) + old.waited
            ELSE since <= Spent(world, todo)
        BY <1>0 DEF Running, InTime
      <4>2. Spent(world, todo) \in Nat /\ ProbeTime \in Nat
        BY Costs, TimeAssumption
      <4> HIDE DEF n, todo, old
      <4> QED
        BY <1>0, <1>2, <4>1, <4>2
    <3> QED
      BY <1>2, <2>9, <3>1 DEF InTime
  <2>11. world.up \subseteq Name
    BY WorldIsKnown DEF RegistryInv, Punctual
  <2>12. ASSUME NEW o \in world.up
         PROVE  /\ row[o].age <= Period + since
                /\ o \in k.todo \/ Asked(k, o)
                /\ Asked(k, o) => k.work[o].age <= since
    <3>1. row[o].age <= Period + since /\ (o \in todo \/ Asked(old, o)) /\ (Asked(old, o) => old.work[o].age <= since)
      BY <1>0 DEF Running
    <3>2. CASE o = n
      <4>1. Asked(old, o)
        BY <1>0, <3>2 DEF Asked
      <4>2. answer = "heard" /\ k.work[o].answer = "heard" /\ k.work[o].age = old.work[o].age
        BY <1>1, <1>2, <2>7, <2>8, <2>9, <3>2
      <4> QED
        BY <3>1, <4>1, <4>2 DEF Asked
    <3>3. CASE o # n
      <4>1. k.work[o] = old.work[o]
        BY <2>8, <2>9, <2>11, <3>3
      <4>2. Asked(k, o) <=> Asked(old, o)
        BY <1>0, <1>2, <2>9, <3>3, <4>1 DEF Asked
      <4> QED
        BY <2>9, <3>1, <4>1, <4>2
    <3> QED
      BY <3>2, <3>3
  <2>13. ASSUME NEW o \in Name
         PROVE  /\ k.work[o].answer # "none" => o \in world.names
                /\ o \in world.names => k.work[o].id = row[o].id
    <3>1. /\ old.work[o].answer # "none" => o \in world.names
          /\ o \in world.names => old.work[o].id = row[o].id
      BY <1>0 DEF Running
    <3>2. k.work[o].id = old.work[o].id /\ (o # n => k.work[o] = old.work[o])
      BY <2>7, <2>8, <2>9
    <3> QED
      BY <1>1, <3>1, <3>2
  <2>14. k.todo \subseteq world.names
    BY <1>0, <2>9 DEF Running
  <2>15. Running(world, k, since, row)
    BY <1>2, <2>9, <2>10, <2>12, <2>13, <2>14 DEF Running
  <2>16. k.pc # "idle" /\ cycle[c].pc # "idle"
    BY <1>0, <1>2, <2>9
  <2>17. UNCHANGED <<world, row, mlock, beat, admin, since>> /\ \A o \in Name : lock'[o] \in {lock[o], c}
    BY <1>0
  <2> QED
    BY <2>3, <2>15, <2>16, <2>17, RunsOn
<1>3. CASE CycleHeard(c)
  <2>1. n \in world.up /\ \E ms \in SUBSET world.models : Answered(c, "heard", ms, "flushing")
    BY <1>3 DEF CycleHeard, Timed, Punctual
  <2> QED
    BY <1>2, <2>1
<1>4. CASE CycleSilent(c)
  <2>1. n \notin world.up /\ old.waited = ProbeTime /\ Answered(c, "silent", {}, "next")
    BY <1>4 DEF CycleSilent, Timed, Punctual
  <2> QED
    BY <1>2, <2>1
<1> QED
  BY <1>3, <1>4

\* What matters of it stays.
Alike(k, old) ==
  /\ k.pc \in {"next", "closing"} /\ k.todo = old.todo /\ (k.pc = "closing" => k.todo = {})
  /\ \A n \in Name : /\ k.work[n].answer = old.work[n].answer
                     /\ k.work[n].id = old.work[n].id /\ k.work[n].age = old.work[n].age

\* A poll that asks nobody and hears nobody goes on.
LEMMA PollStays ==
  ASSUME RegistryInv, Punctual(world), Polled, NEW c \in Cycle, cycle[c].pc \in {"next", "flushing"},
         NEW k, Alike(k, cycle[c]),
         cycle' = [cycle EXCEPT ![c] = k],
         UNCHANGED <<world, row, lock, mlock, beat, admin, since>>
  PROVE  Polled'
<1> DEFINE old == cycle[c]
<1>1. world.up \subseteq Name /\ Running(world, old, since, row)
  BY WorldIsKnown DEF RegistryInv, Punctual, Polled, Alone
<1>2. InTime(world, k, since)
  <2>1. since <= Spent(world, old.todo)
    BY <1>1 DEF Running, InTime
  <2> QED
    BY <2>1 DEF InTime, Alike
<1>3. \A n \in Name : Asked(k, n) <=> Asked(old, n)
  BY DEF Asked, Alike
<1>4. Running(world, k, since, row)
  BY <1>1, <1>2, <1>3 DEF Running, Alike
<1> QED
  BY <1>4, RunsOn DEF Alike

\* It closes when all have been asked.
LEMMA PollCloses ==
  ASSUME RegistryInv, Punctual(world), Polled, NEW c \in Cycle, CycleClose(c)
  PROVE  Polled'
<1> DEFINE k == [cycle[c] EXCEPT !.pc = "closing"]
<1>1. /\ cycle' = [cycle EXCEPT ![c] = k] /\ cycle[c].todo = {} /\ cycle[c].pc = "next" /\ cycle[c] \in CycleRec
      /\ UNCHANGED <<world, row, lock, mlock, beat, admin, since>>
  BY DEF CycleClose, RegistryInv, RegistryTyped
<1>2. k.pc = "closing" /\ k.todo = cycle[c].todo /\ k.work = cycle[c].work
  BY <1>1 DEF CycleRec
<1>3. Alike(k, cycle[c])
  BY <1>1, <1>2 DEF Alike
<1> HIDE DEF k
<1> QED
  BY <1>1, <1>3, PollStays

\* It reads the models of the row it has written.
LEMMA PollReads ==
  ASSUME RegistryInv, Punctual(world), Polled, NEW c \in Cycle, CycleModels(c)
  PROVE  Polled'
<1> DEFINE old == cycle[c]
           n == old.cur
           y == [old.work[n] EXCEPT !.known = row[n].models]
           w == [old.work EXCEPT ![n] = y]
           x == [old EXCEPT !.pc = "next"]
           k == [x EXCEPT !.work = w]
<1>0. /\ old \in CycleRec /\ old.pc = "flushing" /\ UNCHANGED <<world, row, lock, mlock, beat, admin, since>>
      /\ old.work \in [Name -> Work] /\ CycleSound(old, c, lock, row)
      /\ cycle' = [cycle EXCEPT ![c].pc = "next", ![c].work[n].known = row[n].models]
  BY DEF RegistryInv, RegistryTyped, CycleRec, CycleModels
<1>1. n \in Name
  BY <1>0 DEF CycleSound
<1>2. cycle' = [cycle EXCEPT ![c] = k]
  BY <1>0, <1>1 DEF RegistryInv, RegistryTyped, CycleRec
<1>3. y.answer = old.work[n].answer /\ y.id = old.work[n].id /\ y.age = old.work[n].age
  BY <1>0, <1>1 DEF Work
<1>4. x.pc = "next" /\ x.todo = old.todo /\ "work" \in DOMAIN x /\ "pc" \in DOMAIN x /\ "todo" \in DOMAIN x
  BY <1>0 DEF CycleRec
<1> HIDE DEF x, y
<1>5. \A o \in Name : w[o] = IF o = n THEN y ELSE old.work[o]
  BY <1>0
<1> HIDE DEF w
<1>6. k.pc = "next" /\ k.todo = old.todo /\ k.work = w
  BY <1>4
<1> HIDE DEF k
<1>7. Alike(k, old)
  BY <1>3, <1>5, <1>6 DEF Alike
<1> QED
  BY <1>0, <1>2, <1>7, PollStays

\* What it writes is there.
LEMMA PollWrites ==
  ASSUME RegistryInv, Polled, NEW c \in Cycle, NEW n \in Name, CycleWrite(c, n)
  PROVE  Polled'
<1>0. /\ UNCHANGED <<world, row, mlock, beat, admin, since>> /\ cycle[c].pc # "idle" /\ n \in Dirty(c)
      /\ Running(world, cycle[c], since, row)
  BY DEF CycleWrite, Polled, Alone
<1>1. There(n, cycle[c].work[n].id)
  BY <1>0 DEF Dirty, Running, There
<1>2. lock' = [lock EXCEPT ![n] = c] /\ cycle' = cycle
  BY <1>1 DEF CycleWrite
<1>3. \A o \in Name : lock'[o] \in {lock[o], c}
  BY <1>2 DEF RegistryInv, RegistryTyped
<1>4. cycle' = [cycle EXCEPT ![c] = cycle[c]]
  BY <1>2 DEF RegistryInv, RegistryTyped
<1> QED
  BY <1>0, <1>3, <1>4, RunsOn

\* What a poll writes of a node: a node stays what it is, and one that was heard is as
\* old as what was heard.
LEMMA CycleRowKeeps ==
  ASSUME NEW r \in Row, NEW w
  PROVE  /\ CycleRow(r, w).id = r.id /\ CycleRow(r, w).direct = r.direct
         /\ w.answer = "heard" => CycleRow(r, w).age = w.age
<1>1. CASE w.answer = "silent"
  <2> DEFINE o == Written(r.online, w.online, FALSE)
             x == [r EXCEPT !.online = o]
  <2>1. CycleRow(r, w) = x
    BY <1>1 DEF CycleRow
  <2> HIDE DEF o
  <2>2. x.id = r.id /\ x.direct = r.direct
    BY DEF Row
  <2> HIDE DEF x
  <2> QED
    BY <1>1, <2>1, <2>2
<1>2. CASE w.answer # "silent"
  <2> DEFINE o == Written(r.online, w.online, TRUE)
             m == Upserted(r.models, w.known, w.found)
             x == [r EXCEPT !.online = o]
             y == [x EXCEPT !.age = w.age]
             z == [y EXCEPT !.models = m]
  <2>1. CycleRow(r, w) = z
    BY <1>2 DEF CycleRow, Row
  <2> HIDE DEF o, m
  <2>2. x.id = r.id /\ x.direct = r.direct /\ {"id", "direct", "age"} \subseteq DOMAIN x
    BY DEF Row
  <2> HIDE DEF x
  <2>3. y.id = r.id /\ y.direct = r.direct /\ y.age = w.age /\ {"id", "direct", "age"} \subseteq DOMAIN y
    BY <2>2
  <2> HIDE DEF y
  <2>4. z.id = r.id /\ z.direct = r.direct /\ z.age = w.age
    BY <2>3
  <2> HIDE DEF z
  <2> QED
    BY <2>1, <2>4
<1> QED
  BY <1>1, <1>2

\* It commits, of every host that answers, what it heard of it.
LEMMA PollCommits ==
  ASSUME RegistryInv, Punctual(world), Polled, NEW c \in Cycle, CycleCommit(c)
  PROVE  Polled'
<1> DEFINE old == cycle[c]
           work == old.work
<1>0. /\ old.pc = "closing" /\ UNCHANGED <<world, mlock, beat, admin, since>> /\ Dirty(c) = {}
      /\ row \in [Name -> Row] /\ lock' = Unlocked(lock, c) /\ cycle' = [cycle EXCEPT ![c] = NoCycle]
      /\ row' = [n \in Name |-> IF n \in {m \in Name : lock[m] = c} THEN CycleRow(row[n], work[n]) ELSE row[n]]
  BY DEF RegistryInv, RegistryTyped, CycleCommit
<1>1. \A n \in Name : work[n].answer = "heard" => lock[n] = c
  BY <1>0 DEF Dirty
<1>2. Running(world, old, since, row) /\ world.up \subseteq Name
  BY <1>0, WorldIsKnown DEF RegistryInv, Punctual, Polled, Alone
<1>3. \A n \in Name : row'[n] = IF lock[n] = c THEN CycleRow(row[n], work[n]) ELSE row[n]
  BY <1>0
<1>4. \A n \in Name : row'[n].id = row[n].id /\ row'[n].direct = row[n].direct
  <2> SUFFICES ASSUME NEW n \in Name
               PROVE  row'[n].id = row[n].id /\ row'[n].direct = row[n].direct
    OBVIOUS
  <2> DEFINE r == row[n]
             w == work[n]
  <2>1. r \in Row
    BY <1>0
  <2>2. row'[n] = IF lock[n] = c THEN CycleRow(r, w) ELSE r
    BY <1>3
  <2> HIDE DEF r, w
  <2>3. row'[n].id = r.id /\ row'[n].direct = r.direct
    BY <2>1, <2>2, CycleRowKeeps
  <2> QED
    BY <2>3 DEF r
<1>5. ASSUME NEW n \in world.up
      PROVE  row'[n].age <= since
  <2> DEFINE r == row[n]
             w == work[n]
  <2>1. w.answer = "heard" /\ w.age <= since
    BY <1>0, <1>2 DEF Running, Asked
  <2>2. r \in Row /\ row'[n] = CycleRow(r, w)
    BY <1>0, <1>1, <1>2, <1>3, <2>1
  <2> HIDE DEF r, w
  <2> QED
    BY <2>1, <2>2, CycleRowKeeps
<1>6. \A d \in Cycle : cycle'[d].pc = "idle"
  BY <1>0 DEF RegistryInv, RegistryTyped, Polled, Alone, NoCycle
<1>7. \A n \in Name : lock'[n] = Nobody
  <2>1. \A n \in Name : lock[n] \in {Nobody, c}
    BY <1>0 DEF Polled, Alone
  <2> QED
    BY <1>0, <2>1 DEF Unlocked
<1>8. Alone(world', lock', cycle', row', since')
  BY <1>0, <1>5, <1>6, <1>7 DEF Alone
<1>9. Quiet' /\ Hosts(world', row')
  BY <1>0, <1>4 DEF Quiet, Polled, Hosts
<1> QED
  BY <1>8, <1>9 DEF Polled

\* Nobody waits for another.
LEMMA NoneWaits ==
  ASSUME RegistryInv, Polled, NEW x \in RegistryActor, NEW y
  PROVE  ~Waits(x, y)
<1> SUFFICES ASSUME Waits(x, y)
             PROVE  FALSE
  OBVIOUS
<1>1. x \in Cycle /\ y # Nobody /\ x # y /\ cycle[x].pc \in {"flushing", "closing"}
      /\ ((\E n \in Dirty(x) : lock[n] = y) \/ (\E n \in Name : mlock[n] = y))
  BY DEF Waits, Polled, Quiet
<1>2. PICK n \in Name : lock[n] = y
  BY <1>1 DEF Dirty, Polled, Quiet
<1>3. y \in Cycle /\ cycle[y].pc # "idle" /\ cycle[x].pc # "idle"
  BY <1>1, <1>2 DEF Polled, Alone
<1> QED
  BY <1>1, <1>3 DEF Polled, Alone

\* The sweep leaves ages and hosts.
LEMMA SweepKeeps ==
  ASSUME RegistryInv, Punctual(world), Polled, Sweep
  PROVE  Polled'
<1>0. /\ UNCHANGED <<world, lock, mlock, beat, cycle, admin, since>> /\ row \in [Name -> Row]
      /\ row' = [n \in Name |-> IF n \in {m \in Name : row[m].online /\ row[m].age > OfflineAfter}
                                THEN [row[n] EXCEPT !.online = FALSE] ELSE row[n]]
  BY DEF Sweep, RegistryInv, RegistryTyped
<1>1. ASSUME NEW n \in Name
      PROVE  row'[n].id = row[n].id /\ row'[n].direct = row[n].direct /\ row'[n].age = row[n].age
  <2> DEFINE r == row[n]
             x == [r EXCEPT !.online = FALSE]
  <2>1. r \in Row /\ row'[n] \in {x, r}
    BY <1>0
  <2>2. x.id = r.id /\ x.direct = r.direct /\ x.age = r.age
    BY <2>1 DEF Row
  <2> HIDE DEF x
  <2> QED
    BY <2>1, <2>2
<1>2. world.up \subseteq Name
  BY WorldIsKnown DEF RegistryInv, Punctual
<1>3. \A k : Running(world, k, since, row) => Running(world, k, since, row')
  BY <1>1, <1>2 DEF Running
<1>4. Alone(world', lock', cycle', row', since')
  BY <1>0, <1>1, <1>2, <1>3 DEF Polled, Alone
<1>5. Quiet' /\ Hosts(world', row')
  BY <1>0, <1>1 DEF Quiet, Polled, Hosts
<1> QED
  BY <1>4, <1>5 DEF Polled

\* Time goes by while no poll is due, or while one waits for a host that is mute.
LEMMA TickKeeps ==
  ASSUME Cycle # {}, RegistryInv, Punctual(world), Polled, Tick
  PROVE  Polled'
<1>0. /\ UNCHANGED <<world, lock, mlock, admin>> /\ \A c \in Cycle : OnTime(c)
      /\ since' = IF since < Period THEN since + 1 ELSE Period
      /\ row' = [n \in Name |-> [row[n] EXCEPT !.age = Older(@)]]
      /\ beat' = [b \in Beat |-> [beat[b] EXCEPT !.age = IF beat[b].pc = "idle" THEN 0 ELSE Older(@)]]
      /\ row \in [Name -> Row] /\ beat \in [Beat -> BeatRec] /\ cycle \in [Cycle -> CycleRec]
      /\ since < Period \/ \A c \in Cycle : cycle[c].pc # "idle"
  BY DEF Tick, RegistryInv, RegistryTyped, Punctual
<1>1. Period \in Nat /\ since \in 0 .. Period
  BY TimeAssumption DEF RegistryInv, RegistryTyped
<1>2. since < Period
  <2>1. CASE \A c \in Cycle : cycle[c].pc # "idle"
    <3>1. PICK c \in Cycle : cycle[c].pc # "idle"
      BY <2>1
    <3>2. cycle[c] \in CycleRec /\ InTime(world, cycle[c], since) /\ since \in Nat
      BY <1>0, <1>1, <3>1 DEF Polled, Alone, Running
    <3> QED
      BY <3>2, RunsShortly
  <2> QED
    BY <1>0, <2>1
<1>3. since' = since + 1
  BY <1>0, <1>2
<1>4. \A age \in Age : Older(age) \in Nat /\ Older(age) <= age + 1
  <2>1. Never \in Nat
    BY TimeAssumption DEF Never
  <2> QED
    BY <2>1 DEF Older, Age
<1>5. ASSUME NEW n \in Name
      PROVE  /\ row'[n].id = row[n].id /\ row'[n].direct = row[n].direct
             /\ row[n].age \in Nat /\ row'[n].age \in Nat /\ row'[n].age <= row[n].age + 1
  <2> DEFINE r == row[n]
             a == Older(r.age)
  <2>1. r \in Row /\ row'[n] = [r EXCEPT !.age = a] /\ r.age \in Age
    BY <1>0 DEF Row
  <2>2. a \in Nat /\ a <= r.age + 1 /\ r.age \in Nat
    BY <1>4, <2>1 DEF Age
  <2> HIDE DEF a
  <2> QED
    BY <2>1, <2>2 DEF Row
<1>6. \A b \in Beat : beat'[b].pc = "idle"
  <2> SUFFICES ASSUME NEW b \in Beat
               PROVE  beat'[b].pc = "idle"
    OBVIOUS
  <2> DEFINE a == IF beat[b].pc = "idle" THEN 0 ELSE Older(beat[b].age)
  <2>1. beat'[b] = [beat[b] EXCEPT !.age = a] /\ beat[b] \in BeatRec /\ beat[b].pc = "idle"
    BY <1>0 DEF Polled, Quiet
  <2> HIDE DEF a
  <2> QED
    BY <2>1 DEF BeatRec
<1>7. ASSUME NEW c \in Cycle
      PROVE  /\ cycle'[c].pc = cycle[c].pc /\ cycle'[c].todo = cycle[c].todo /\ cycle'[c].cur = cycle[c].cur
             /\ cycle[c].pc = "probing" => cycle'[c].waited = cycle[c].waited + 1
             /\ \A n \in Name :
                  /\ cycle'[c].work[n].answer = cycle[c].work[n].answer
                  /\ cycle'[c].work[n].id = cycle[c].work[n].id
                  /\ cycle[c].work[n].age \in Nat /\ cycle'[c].work[n].age \in Nat
                  /\ cycle'[c].work[n].age <= cycle[c].work[n].age + 1
  <2> DEFINE old == cycle[c]
             waited == IF old.pc = "probing" THEN old.waited + 1 ELSE old.waited
             work == [n \in Name |-> [old.work[n] EXCEPT !.age = Older(@)]]
             x == [old EXCEPT !.waited = waited]
             k == [x EXCEPT !.work = work]
  <2>1. cycle'[c] = k /\ old \in CycleRec
    BY <1>0 DEF Tick, CycleRec
  <2> HIDE DEF waited
  <2>2. x.pc = old.pc /\ x.todo = old.todo /\ x.cur = old.cur /\ x.waited = waited
        /\ {"pc", "todo", "cur", "waited", "work"} \subseteq DOMAIN x
    BY <2>1 DEF CycleRec
  <2> HIDE DEF x, work
  <2>3. k.pc = old.pc /\ k.todo = old.todo /\ k.cur = old.cur /\ k.waited = waited /\ k.work = work
    BY <2>2
  <2> HIDE DEF k
  <2>4. ASSUME NEW n \in Name
        PROVE  /\ work[n].answer = old.work[n].answer /\ work[n].id = old.work[n].id
               /\ old.work[n].age \in Nat /\ work[n].age \in Nat /\ work[n].age <= old.work[n].age + 1
    <3> DEFINE w == old.work[n]
               a == Older(w.age)
    <3>1. w \in Work /\ work[n] = [w EXCEPT !.age = a] /\ w.age \in Age
      BY <2>1 DEF work, CycleRec, Work
    <3>2. a \in Nat /\ a <= w.age + 1 /\ w.age \in Nat
      BY <1>4, <3>1 DEF Age
    <3> HIDE DEF a
    <3> QED
      BY <3>1, <3>2 DEF Work
  <2>5. old.pc = "probing" => waited = old.waited + 1
    BY DEF waited
  <2> HIDE DEF old
  <2>6. cycle'[c].pc = old.pc /\ cycle'[c].todo = old.todo /\ cycle'[c].cur = old.cur
        /\ (old.pc = "probing" => cycle'[c].waited = old.waited + 1)
    BY <2>1, <2>3, <2>5
  <2>7. cycle'[c].work = work
    BY <2>1, <2>3
  <2> QED
    BY <2>4, <2>6, <2>7 DEF old
<1>8. world.up \subseteq Name
  BY WorldIsKnown DEF RegistryInv, Punctual
<1>9. ASSUME NEW c \in Cycle, cycle'[c].pc # "idle"
      PROVE  Running(world, cycle'[c], since + 1, row')
  <2> DEFINE old == cycle[c]
             k == cycle'[c]
             s == since
  <2>1. Running(world, old, s, row) /\ old \in CycleRec /\ OnTime(c)
    BY <1>0, <1>7, <1>9 DEF Polled, Alone
  <2>2. old.pc = "probing" /\ old.cur \notin world.up /\ old.waited < ProbeTime
    <3>1. \A y \in Cycle : ~Waits(c, y)
      BY NoneWaits DEF RegistryActor
    <3> QED
      BY <1>7, <1>9, <2>1, <3>1 DEF OnTime
  <2>3. /\ k.pc = "probing" /\ k.todo = old.todo /\ k.cur = old.cur /\ k.waited = old.waited + 1
        /\ \A n \in Name : /\ k.work[n].answer = old.work[n].answer /\ k.work[n].id = old.work[n].id
                           /\ old.work[n].age \in Nat /\ k.work[n].age \in Nat
                           /\ k.work[n].age <= old.work[n].age + 1
    BY <1>7, <2>2
  <2>4. old.waited \in Nat /\ s \in Nat
    BY <1>1, <2>1, TimeAssumption DEF CycleRec
  <2> HIDE DEF k, old, s
  <2>5. InTime(world, k, s + 1)
    <3>1. Spent(world, old.todo) \in Nat /\ ProbeTime \in Nat
      BY Costs, TimeAssumption
    <3>2. s + ProbeTime <= Spent(world, old.todo) + old.waited
      BY <2>1, <2>2 DEF Running, InTime
    <3>3. s + 1 + ProbeTime <= Spent(world, old.todo) + (old.waited + 1)
      BY <2>4, <3>1, <3>2
    <3> QED
      BY <2>2, <2>3, <3>3 DEF InTime
  <2>6. ASSUME NEW n \in world.up
        PROVE  /\ row'[n].age <= Period + (s + 1)
               /\ n \in k.todo \/ Asked(k, n)
               /\ Asked(k, n) => k.work[n].age <= s + 1
    <3>1. /\ row[n].age <= Period + s /\ (n \in old.todo \/ Asked(old, n))
          /\ (Asked(old, n) => old.work[n].age <= s)
      BY <2>1 DEF Running
    <3>2. Asked(k, n) <=> Asked(old, n)
      BY <1>8, <2>2, <2>3 DEF Asked
    <3>3. row'[n].age <= Period + (s + 1)
      BY <1>1, <1>5, <1>8, <2>4, <3>1
    <3>4. Asked(k, n) => k.work[n].age <= s + 1
      BY <1>8, <2>3, <2>4, <3>1, <3>2
    <3> QED
      BY <2>3, <3>1, <3>2, <3>3, <3>4
  <2>7. \A n \in Name : /\ k.work[n].answer # "none" => n \in world.names
                        /\ n \in world.names => k.work[n].id = row'[n].id
    BY <1>5, <2>1, <2>3 DEF Running
  <2>8. k.todo \subseteq world.names /\ k.cur \in world.names
    BY <2>1, <2>2, <2>3 DEF Running
  <2>9. Running(world, k, s + 1, row')
    BY <2>3, <2>5, <2>6, <2>7, <2>8 DEF Running
  <2> QED
    BY <2>9 DEF k, s
<1>10. (\A c \in Cycle : cycle'[c].pc = "idle") => \A n \in world.up : row'[n].age <= since + 1
  BY <1>1, <1>5, <1>7, <1>8 DEF Polled, Alone
<1>11. Alone(world', lock', cycle', row', since')
  <2>1. \A c \in Cycle : cycle'[c].pc = cycle[c].pc
    BY <1>7
  <2>2. /\ \A n \in Name : lock[n] # Nobody => lock[n] \in Cycle /\ cycle'[lock[n]].pc # "idle"
        /\ \A c, d \in Cycle : cycle'[c].pc # "idle" /\ cycle'[d].pc # "idle" => c = d
    BY <2>1 DEF Polled, Alone
  <2>3. Alone(world, lock, cycle', row', since + 1)
    BY <1>9, <1>10, <2>2 DEF Alone
  <2>4. world' = world /\ lock' = lock
    BY <1>0
  <2> QED
    BY <1>3, <2>3, <2>4
<1>12. Quiet' /\ Hosts(world', row')
  BY <1>0, <1>5, <1>6 DEF Quiet, Polled, Hosts
<1> QED
  BY <1>11, <1>12 DEF Polled

\* Every step keeps it: reports, requests of users and aborts do not happen.
LEMMA PollsGoOn ==
  ASSUME Cycle # {}, RegistryInv, Punctual(world), Polled, [RegistryNext]_registryVars
  PROVE  Polled'
<1>0. world.ops = {"poll", "clock"} /\ Quiet
  BY DEF Punctual, Polled
<1>1. CASE UNCHANGED registryVars
  BY <1>1 DEF registryVars, Polled, Quiet, Hosts, Alone
<1>2. ASSUME NEW b \in Beat
      PROVE  ~BeatStep(b) /\ \A n \in Name : ~BeatRead(b, n)
  BY <1>0 DEF Quiet, May, BeatStep, BeatFlush, BeatCommit, BeatMetric, BeatRead
<1>3. ASSUME NEW a \in Admin
      PROVE  ~AdminStep(a) /\ \A n \in Name : ~CreateRead(a, n) /\ ~DeleteRead(a, n)
  BY <1>0 DEF Quiet, May, AdminStep, CreateInsert, DeleteModels, DeleteNode, CreateRead, DeleteRead
<1>4. ASSUME NEW c \in Cycle, CycleStart(c) \/ CycleStep(c)
      PROVE  Polled'
  BY <1>4, PollBegins, PollProbes, PollHears, PollCloses, PollReads, PollWrites, PollCommits DEF CycleStep
<1>5. ASSUME NEW x \in RegistryActor
      PROVE  ~Abort(x)
  BY NoneWaits DEF Abort, Deadlocked
<1> QED
  BY <1>1, <1>2, <1>3, <1>4, <1>5, SweepKeeps, TickKeeps DEF RegistryNext

\* It holds at first: the hosts are registered and have just been heard.
LEMMA PollsStart ==
  ASSUME RegistryInit, Punctual(world)
  PROVE  Polled
<1> DEFINE first == [id |-> 1, direct |-> TRUE, online |-> TRUE, age |-> 0, models |-> {}]
<1>1. \A n \in Name : row[n] = IF n \in world.names THEN first ELSE NoRow
  BY DEF RegistryInit, Punctual
<1>2. first.id = 1 /\ first.direct = TRUE /\ first.age = 0 /\ NoRow.id = 0 /\ NoRow.direct = FALSE
  BY DEF NoRow
<1> HIDE DEF first
<1>3. Hosts(world, row)
  BY <1>1, <1>2 DEF Hosts
<1>4. world.up \subseteq world.names /\ world.names \subseteq Name
  BY WorldAssumption DEF RegistryInit, Punctual
<1>5. \A n \in world.up : row[n].age <= since
  BY <1>1, <1>2, <1>4 DEF RegistryInit
<1>6. \A c \in Cycle : cycle[c].pc = "idle"
  BY DEF RegistryInit, NoCycle
<1>7. Alone(world, lock, cycle, row, since)
  BY <1>5, <1>6 DEF Alone, RegistryInit
<1>8. Quiet
  BY DEF RegistryInit, Quiet, NoBeat, NoAdmin
<1> QED
  BY <1>3, <1>7, <1>8 DEF Polled

\* It leaves no host that answers without a recent row.
LEMMA PolledIsOnline ==
  ASSUME RegistryInv, Punctual(world), Polled
  PROVE  \A n \in world.up : row[n].age < OfflineAfter
<1>0. {Period, OfflineAfter, since} \subseteq Nat /\ since <= Period
  BY TimeAssumption DEF RegistryInv, RegistryTyped
<1>1. world.up \subseteq Name
  BY WorldIsKnown DEF RegistryInv, Punctual
<1> SUFFICES ASSUME NEW n \in world.up
             PROVE  row[n].age < OfflineAfter
  OBVIOUS
<1>2. row[n].age \in Nat
  <2>1. Never \in Nat
    BY TimeAssumption DEF Never
  <2> QED
    BY <1>1, <2>1 DEF RegistryInv, RegistryTyped, Row, Age
<1>3. CASE \A c \in Cycle : cycle[c].pc = "idle"
  <2>1. row[n].age <= since
    BY <1>3 DEF Polled, Alone
  <2>2. Spent(world, {}) \in Nat /\ Period + Spent(world, {}) < OfflineAfter
    BY Costs
  <2> QED
    BY <1>0, <1>2, <2>1, <2>2
<1>4. ASSUME NEW c \in Cycle, cycle[c].pc # "idle"
      PROVE  row[n].age < OfflineAfter
  <2>1. cycle[c] \in CycleRec /\ InTime(world, cycle[c], since) /\ row[n].age <= Period + since
    BY <1>4 DEF Polled, Alone, Running, RegistryInv, RegistryTyped
  <2>2. Period + since < OfflineAfter
    BY <1>0, <2>1, RunsShortly
  <2> QED
    BY <1>0, <1>2, <2>1, <2>2
<1> QED
  BY <1>3, <1>4

\* A host that answers every probe is never taken for gone, however many hosts there are
\* and however many of them are mute, as long as their polls are over before the next.
THEOREM AnsweringStaysOnline ==
  ASSUME Cycle # {}, \A w \in Worlds : "clock" \in w.ops /\ w.up # {} => Punctual(w)
  PROVE  RegistryInit /\ [][RegistryNext]_registryVars => []AnsweringIsOnline
<1> DEFINE Inv == RegistryInv /\ (Timed /\ world.up # {} => Punctual(world) /\ Polled)
<1>1. RegistryInit => Inv
  <2> SUFFICES ASSUME RegistryInit
               PROVE  Inv
    OBVIOUS
  <2>1. Timed /\ world.up # {} => Punctual(world)
    BY DEF Timed, RegistryInit
  <2> QED
    BY <2>1, RegistryStarts, PollsStart
<1>2. Inv /\ [RegistryNext]_registryVars => Inv'
  <2> SUFFICES ASSUME Inv, [RegistryNext]_registryVars
               PROVE  Inv'
    OBVIOUS
  <2>1. RegistryInv'
    BY RegistrySteps
  <2>2. world' = world
    BY DEF registryVars, RegistryNext, BeatStep, BeatFlush, BeatCommit, BeatMetric, BeatRead,
           AdminStep, CreateInsert, DeleteModels, DeleteNode, CreateRead, DeleteRead,
           CycleStart, CycleStep, CycleProbe, CycleHeard, CycleSilent, CycleClose, CycleModels,
           CycleCommit, CycleWrite, Abort, Sweep, Tick
  <2>3. Timed /\ world.up # {} => Polled'
    BY PollsGoOn
  <2>4. Timed' <=> Timed
    BY <2>2 DEF Timed
  <2>5. Punctual(world) => Punctual(world')
    BY <2>2
  <2> QED
    BY <2>1, <2>2, <2>3, <2>4, <2>5
<1>3. Inv => AnsweringIsOnline
  BY PolledIsOnline DEF AnsweringIsOnline
<1> QED
  BY <1>1, <1>2, <1>3, PTL

-----------------------------------------------------------------------------

(***************************************************************************)
(* FailoverOrder.  The choice takes the least of the keys, so that a node  *)
(* which would have to load the model is only taken when every one that is *)
(* left would.                                                             *)
(***************************************************************************)

\* A set of natural numbers that is not empty has a least one.
LEMMA LeastNatural ==
  ASSUME NEW T \in SUBSET Nat, T # {}
  PROVE  \E x \in T : \A y \in T : x <= y
<1> DEFINE R == OpToRel(<, Nat)
<1>1. IsWellFoundedOn(R, Nat)
  BY NatLessThanWellFounded
<1>2. \A x, y \in Nat : <<y, x>> \in R <=> y < x
  BY DEF OpToRel
<1> HIDE DEF R
<1>3. PICK x \in T : \A y \in T : <<y, x>> \notin R
  BY <1>1, WFMin
<1>4. \A y \in T : ~(y < x)
  BY <1>2, <1>3
<1> QED
  BY <1>4

\* How Python compares three numbers.
LEMMA BeforeIs ==
  ASSUME NEW x \in Int, NEW y \in Int, NEW z \in Int, NEW u \in Int, NEW v \in Int, NEW w \in Int
  PROVE  Before(<<x, y, z>>, <<u, v, w>>) <=> \/ x < u
                                              \/ x = u /\ y < v
                                              \/ x = u /\ y = v /\ z < w
<1> DEFINE k == <<x, y, z>>
           l == <<u, v, w>>
<1>1. /\ DOMAIN k = {1, 2, 3} /\ k[1] = x /\ k[2] = y /\ k[3] = z
      /\ l[1] = u /\ l[2] = v /\ l[3] = w
  OBVIOUS
<1>2. 1 .. (1 - 1) = {} /\ 1 .. (2 - 1) = {1} /\ 1 .. (3 - 1) = {1, 2}
  OBVIOUS
<1> HIDE DEF k, l
<1>3. Before(k, l) <=> \/ k[1] < l[1]
                       \/ k[2] < l[2] /\ k[1] = l[1]
                       \/ k[3] < l[3] /\ k[1] = l[1] /\ k[2] = l[2]
  <2> DEFINE P(i) == k[i] < l[i] /\ \A j \in 1 .. (i - 1) : k[j] = l[j]
  <2>1. Before(k, l) <=> P(1) \/ P(2) \/ P(3)
    BY <1>1 DEF Before
  <2>2. P(1) <=> k[1] < l[1]
    BY <1>2
  <2>3. P(2) <=> k[2] < l[2] /\ k[1] = l[1]
    BY <1>2
  <2>4. P(3) <=> k[3] < l[3] /\ k[1] = l[1] /\ k[2] = l[2]
    BY <1>2
  <2> HIDE DEF P
  <2> QED
    BY <2>1, <2>2, <2>3, <2>4
<1>4. Before(k, l) <=> \/ x < u
                       \/ y < v /\ x = u
                       \/ z < w /\ x = u /\ y = v
  BY <1>1, <1>3
<1> QED
  BY <1>4 DEF k, l

\* The key that min() finds is the least in its first number.
LEMMA LeastIsTaken ==
  ASSUME NEW S \in SUBSET Nat, S # {}, NEW a \in [S -> Nat], NEW b \in [S -> Nat],
         NEW key, key = [n \in S |-> <<a[n], b[n], n>>]
  PROVE  Least(key) \in S /\ \A o \in S : a[Least(key)] <= a[o]
<1>1. PICK s \in S : \A o \in S : a[s] <= a[o]
  <2> DEFINE T == {a[n] : n \in S}
  <2>1. T \in SUBSET Nat /\ T # {}
    OBVIOUS
  <2> HIDE DEF T
  <2>2. PICK x \in T : \A y \in T : x <= y
    BY <2>1, LeastNatural
  <2> QED
    BY <2>2 DEF T
<1> DEFINE S1 == {n \in S : a[n] = a[s]}
<1>2. PICK t \in S1 : \A o \in S1 : b[t] <= b[o]
  <2> DEFINE T == {b[n] : n \in S1}
  <2>1. T \in SUBSET Nat /\ T # {}
    OBVIOUS
  <2> HIDE DEF T
  <2>2. PICK x \in T : \A y \in T : x <= y
    BY <2>1, LeastNatural
  <2> QED
    BY <2>2 DEF T
<1> DEFINE S2 == {n \in S1 : b[n] = b[t]}
<1>3. PICK u \in S2 : \A o \in S2 : u <= o
  <2>1. S2 \in SUBSET Nat /\ t \in S2
    OBVIOUS
  <2> HIDE DEF S2
  <2> QED
    BY <2>1, LeastNatural
<1>4. u \in S /\ a[u] = a[s] /\ b[u] = b[t] /\ \A o \in S : o \in Nat /\ a[o] \in Nat /\ b[o] \in Nat
  OBVIOUS
<1>5. ASSUME NEW o \in S \ {u}
      PROVE  Before(key[u], key[o])
  <2>1. key[u] = <<a[u], b[u], u>> /\ key[o] = <<a[o], b[o], o>>
    BY <1>4
  <2>2. \/ a[u] < a[o]
        \/ a[u] = a[o] /\ b[u] < b[o]
        \/ a[u] = a[o] /\ b[u] = b[o] /\ u < o
    <3>1. a[s] <= a[o]
      BY <1>1
    <3>2. a[o] = a[s] => b[t] <= b[o]
      BY <1>2
    <3>3. a[o] = a[s] /\ b[o] = b[t] => u <= o
      BY <1>3
    <3> HIDE DEF S1, S2
    <3> QED
      BY <1>4, <1>5, <3>1, <3>2, <3>3
  <2>3. Before(<<a[u], b[u], u>>, <<a[o], b[o], o>>)
    <3>1. a[u] \in Int /\ b[u] \in Int /\ u \in Int /\ a[o] \in Int /\ b[o] \in Int /\ o \in Int
      BY <1>4, <1>5
    <3> HIDE DEF S1, S2
    <3> QED
      BY <2>2, <3>1, BeforeIs
  <2> QED
    BY <2>1, <2>3
<1>6. DOMAIN key = S
  OBVIOUS
<1> DEFINE n == Least(key)
<1>7. n \in S /\ \A o \in S \ {n} : Before(key[n], key[o])
  BY <1>4, <1>5, <1>6 DEF Least
<1> HIDE DEF n, S1, S2
<1>8. ASSUME NEW o \in S
      PROVE  a[n] <= a[o]
  <2>1. CASE o = n
    BY <1>4, <1>7, <2>1
  <2>2. CASE o # n
    <3>1. Before(key[n], key[o]) /\ key[n] = <<a[n], b[n], n>> /\ key[o] = <<a[o], b[o], o>>
      BY <1>7, <2>2
    <3>2. Before(<<a[n], b[n], n>>, <<a[o], b[o], o>>)
      BY <3>1
    <3>3. a[n] \in Int /\ b[n] \in Int /\ n \in Int /\ a[o] \in Int /\ b[o] \in Int /\ o \in Int
      BY <1>4, <1>7
    <3>4. a[n] < a[o] \/ a[n] = a[o]
      BY <3>2, <3>3, BeforeIs
    <3> QED
      BY <3>3, <3>4
  <2> QED
    BY <2>1, <2>2
<1> QED
  BY <1>7, <1>8 DEF n

\* The node that is picked is a candidate; it has to load the model only when all have to.
LEMMA PickIsFair ==
  ASSUME NEW rows \in ChatTables, NEW m, NEW exclude
  PROVE  /\ Candidates(rows, m, exclude) = {} => PickNode(rows, m, exclude) = Nothing
         /\ Candidates(rows, m, exclude) # {} =>
              /\ PickNode(rows, m, exclude) \in Candidates(rows, m, exclude)
              /\ PickNode(rows, m, exclude) # Nothing
              /\ NeedsLoad(rows, m, PickNode(rows, m, exclude)) =>
                   \A o \in Candidates(rows, m, exclude) : NeedsLoad(rows, m, o)
<1> DEFINE left == Candidates(rows, m, exclude)
           key == [n \in left |-> SortKey(rows[n], n, m)]
           a == [n \in left |-> IF IsLoaded(rows[n], m) THEN 0 ELSE 1]
           b == [n \in left |-> UsedVram(rows[n], VramPenalty)]
           n == Least(key)
<1>1. CASE left = {}
  <2>1. PickNode(rows, m, exclude) = n /\ DOMAIN key = {}
    BY <1>1 DEF PickNode
  <2> HIDE DEF key
  <2>2. n = Nothing
    BY <2>1 DEF Least
  <2> QED
    BY <1>1, <2>1, <2>2
<1>2. CASE left # {}
  <2>1. left \in SUBSET Nat /\ left \subseteq NodeName
    <3>1. DOMAIN rows = NodeName
      BY DEF ChatTables
    <3>2. left \subseteq DOMAIN rows
      BY DEF Candidates
    <3> QED
      BY <3>1, <3>2, RouterAssumption
  <2>2. a \in [left -> Nat]
    OBVIOUS
  <2>3. ASSUME NEW o \in left
        PROVE  UsedVram(rows[o], VramPenalty) \in Nat
    <3>1. rows[o].vram \in Vram
      BY <2>1 DEF ChatTables, RouterRow
    <3> QED
      BY <3>1 DEF UsedVram, Vram, VramPenalty
  <2>4. b \in [left -> Nat]
    BY <2>3
  <2>5. key = [o \in left |-> <<a[o], b[o], o>>]
    BY DEF SortKey
  <2>6. PickNode(rows, m, exclude) = n
    BY DEF PickNode
  <2>7. \A o \in left : a[o] = 0 <=> ~NeedsLoad(rows, m, o)
    BY DEF NeedsLoad
  <2>8. \A o \in left : a[o] \in {0, 1}
    OBVIOUS
  <2> HIDE DEF key, a, b, left
  <2>9. n \in left /\ \A o \in left : a[n] <= a[o]
    BY <1>2, <2>1, <2>2, <2>4, <2>5, LeastIsTaken
  <2> HIDE DEF n
  <2>10. n # Nothing
    BY <2>1, <2>9, RouterAssumption
  <2>11. ASSUME NeedsLoad(rows, m, n), NEW o \in left
         PROVE  NeedsLoad(rows, m, o)
    <3>1. a[n] = 1
      BY <2>7, <2>8, <2>9, <2>11
    <3>2. a[o] # 0
      BY <2>8, <2>9, <3>1
    <3> QED
      BY <2>7, <3>2
  <2>12. left = Candidates(rows, m, exclude)
    BY DEF left
  <2> QED
    BY <1>2, <2>6, <2>9, <2>10, <2>11, <2>12
<1> QED
  BY <1>1, <1>2

\* What is known while a reply goes from node to node.
RouterInv ==
  /\ table \in ChatTables /\ tried \in Seq(NodeName)
  /\ IsInjective(tried) /\ Range(tried) \subseteq Candidates(table, asked, {})
  /\ \A i \in 1 .. Len(tried) : NeedsLoad(table, asked, tried[i]) =>
       \A o \in Candidates(table, asked, Range(tried)) : NeedsLoad(table, asked, o)
  /\ \A i, j \in 1 .. Len(tried) :
       i < j /\ NeedsLoad(table, asked, tried[i]) => NeedsLoad(table, asked, tried[j])

\* A reply whose node failed asks the next one.
LEMMA FailoverStep ==
  ASSUME RouterInv, Failover
  PROVE  RouterInv'
<1> DEFINE n == PickNode(table, asked, Range(tried))
           left == Candidates(table, asked, Range(tried))
           longer == Append(tried, n)
           needs(o) == NeedsLoad(table, asked, o)
<1>1. n # Nothing /\ tried' = longer /\ UNCHANGED <<table, asked>> /\ table \in ChatTables /\ tried \in Seq(NodeName)
  BY DEF Failover, RouterInv
<1>2. n \in left /\ (needs(n) => \A o \in left : needs(o))
  <2>1. left # {}
    BY <1>1, PickIsFair
  <2> QED
    BY <1>1, <2>1, PickIsFair
<1> HIDE DEF n
<1>3. n \in NodeName /\ n \notin Range(tried) /\ n \in Candidates(table, asked, {})
  BY <1>1, <1>2 DEF Candidates, ChatTables
<1>4. /\ longer \in Seq(NodeName) /\ Len(longer) = Len(tried) + 1 /\ longer[Len(tried) + 1] = n
      /\ \A i \in 1 .. Len(tried) : longer[i] = tried[i]
      /\ DOMAIN longer = 1 .. (Len(tried) + 1) /\ DOMAIN tried = 1 .. Len(tried) /\ Len(tried) \in Nat
  BY <1>1, <1>3
<1> HIDE DEF longer
<1>5. \A i \in 1 .. (Len(tried) + 1) : i \in 1 .. Len(tried) \/ i = Len(tried) + 1
  BY <1>4
<1>6. Range(longer) = Range(tried) \cup {n}
  <2>1. \A i \in 1 .. Len(tried) : i \in 1 .. (Len(tried) + 1)
    BY <1>4
  <2>2. Len(tried) + 1 \in 1 .. (Len(tried) + 1)
    BY <1>4
  <2> QED
    BY <1>4, <1>5, <2>1, <2>2 DEF Range
<1>7. IsInjective(longer)
  <2>1. \A i \in 1 .. Len(tried) : tried[i] # n
    BY <1>3, <1>4 DEF Range
  <2>2. \A i, j \in 1 .. Len(tried) : tried[i] = tried[j] => i = j
    BY <1>4 DEF RouterInv, IsInjective
  <2>3. \A i, j \in 1 .. (Len(tried) + 1) : longer[i] = longer[j] => i = j
    BY <1>4, <1>5, <2>1, <2>2
  <2> QED
    BY <1>4, <2>3 DEF IsInjective
<1>8. Range(longer) \subseteq Candidates(table, asked, {})
  BY <1>3, <1>6 DEF RouterInv
<1>9. Candidates(table, asked, Range(longer)) \subseteq left
  BY <1>6 DEF Candidates
<1>10. ASSUME NEW i \in 1 .. (Len(tried) + 1), needs(longer[i]), NEW o \in Candidates(table, asked, Range(longer))
       PROVE  needs(o)
  <2>1. o \in left
    BY <1>9, <1>10
  <2> QED
    BY <1>2, <1>4, <1>5, <1>10, <2>1 DEF RouterInv
<1>11. ASSUME NEW i \in 1 .. (Len(tried) + 1), NEW j \in 1 .. (Len(tried) + 1), i < j, needs(longer[i])
       PROVE  needs(longer[j])
  <2>1. i \in 1 .. Len(tried)
    BY <1>4, <1>11
  <2>2. CASE j = Len(tried) + 1
    BY <1>2, <1>4, <1>11, <2>1, <2>2 DEF RouterInv
  <2>3. CASE j \in 1 .. Len(tried)
    BY <1>4, <1>11, <2>1, <2>3 DEF RouterInv
  <2> QED
    BY <1>5, <2>2, <2>3
<1> QED
  BY <1>1, <1>4, <1>7, <1>8, <1>10, <1>11 DEF RouterInv

\* What is offered for a model are the nodes the router chooses from.
LEMMA OfferedAreCandidates ==
  ASSUME table \in ChatTables
  PROVE  LET offered == AvailableModels(table)
         IN (IF asked \in DOMAIN offered THEN offered[asked] ELSE {}) = Candidates(table, asked, {})
<1> DEFINE on == {n \in DOMAIN table : table[n].heard}
           offered == AvailableModels(table)
<1>1. offered = [m \in UNION {table[n].models : n \in on} |-> {n \in on : m \in table[n].models}]
  BY DEF AvailableModels
<1>2. asked \in DOMAIN offered <=> \E n \in on : asked \in table[n].models
  BY <1>1
<1>3. asked \in DOMAIN offered => offered[asked] = {n \in on : asked \in table[n].models}
  BY <1>1
<1> HIDE DEF offered
<1>4. Candidates(table, asked, {}) = {n \in on : asked \in table[n].models}
  BY DEF Candidates
<1> QED
  BY <1>2, <1>3, <1>4 DEF offered

\* A reply that fails over tries every node that is offered for its model once, and those
\* that have it loaded first, for any number of nodes and any use of their memory.
THEOREM FailoverKeepsOrder == RouterSpec => []FailoverOrder
<1>1. RouterInit => RouterInv
  <2> SUFFICES ASSUME RouterInit
               PROVE  RouterInv
    OBVIOUS
  <2>1. tried = <<>> /\ <<>> \in Seq(NodeName) /\ Len(<<>>) = 0 /\ DOMAIN <<>> = {} /\ 1 .. 0 = {}
    BY DEF RouterInit
  <2>2. IsInjective(tried) /\ Range(tried) = {}
    BY <2>1 DEF IsInjective, Range
  <2> QED
    BY <2>1, <2>2 DEF RouterInit, RouterInv
<1>2. RouterInv /\ [Failover]_routerVars => RouterInv'
  <2> SUFFICES ASSUME RouterInv, [Failover]_routerVars
               PROVE  RouterInv'
    OBVIOUS
  <2>1. CASE UNCHANGED routerVars
    BY <2>1 DEF routerVars, RouterInv
  <2> QED
    BY <2>1, FailoverStep
<1>3. RouterInv => FailoverOrder
  <2> SUFFICES ASSUME RouterInv
               PROVE  FailoverOrder
    OBVIOUS
  <2> DEFINE on == IF asked \in DOMAIN AvailableModels(table) THEN AvailableModels(table)[asked] ELSE {}
  <2>1. on = Candidates(table, asked, {}) /\ DOMAIN tried = 1 .. Len(tried)
    BY OfferedAreCandidates DEF RouterInv
  <2>2. ASSUME PickNode(table, asked, Range(tried)) = Nothing
        PROVE  Range(tried) = on
    <3>1. Candidates(table, asked, Range(tried)) = {}
      BY <2>2, PickIsFair DEF RouterInv
    <3>2. Candidates(table, asked, Range(tried)) = Candidates(table, asked, {}) \ Range(tried)
      BY DEF Candidates
    <3> QED
      BY <2>1, <3>1, <3>2 DEF RouterInv
  <2> HIDE DEF on
  <2>3. /\ IsInjective(tried) /\ Range(tried) \subseteq on
        /\ PickNode(table, asked, Range(tried)) = Nothing => Range(tried) = on
        /\ \A i, j \in DOMAIN tried :
             i < j /\ NeedsLoad(table, asked, tried[i]) => NeedsLoad(table, asked, tried[j])
    BY <2>1, <2>2 DEF RouterInv
  <2> QED
    BY <2>3 DEF FailoverOrder, on
<1> QED
  BY <1>1, <1>2, <1>3, PTL DEF RouterSpec
=============================================================================
