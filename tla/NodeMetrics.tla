---------------------------- MODULE NodeMetrics -----------------------------
(***************************************************************************)
(* The measurements of one node: a row of node_metrics_raw per heartbeat,  *)
(* a row of node_metrics_1min per minute, both partitioned by day, and the *)
(* three tasks that create, fill and drop partitions (workers/tasks.py,    *)
(* alembic 0009).  Time is counted in minutes; days and hours have fewer   *)
(* of them than ours.                                                      *)
(***************************************************************************)
EXTENDS Integers, Sequences, FiniteSets

CONSTANTS
  Horizon,         \* the last minute looked at
  MinutesPerHour,
  MinutesPerDay,
  RetentionDays,   \* metrics_retention_days
  MaxRows          \* bound on the heartbeats of a behaviour

ASSUME MetricsAssumption ==
  {Horizon, MinutesPerHour, MinutesPerDay, RetentionDays, MaxRows} \subseteq Nat \ {0}

VARIABLES
  now,
  sent,        \* heartbeats so far
  flying,      \* minutes at which requests took their time and have not inserted yet
  raw, agg,    \* the minute of each row, with the number of rows (raw), averaged (agg)
  parts,       \* days that have a partition; the other rows are in the default one
  created,     \* has create_metrics_partitions run in this hour
  ever,        \* history: the minutes of all rows ever inserted in each table
  purged       \* history: the day of the last purge

metricsVars == <<now, sent, flying, raw, agg, parts, created, ever, purged>>

Minute == 0..Horizon
Day(t) == t \div MinutesPerDay
Table == {"raw", "1min"}

MetricsInit ==
  /\ now = 0 /\ sent = 0 /\ flying = {}
  /\ raw = [t \in Minute |-> 0] /\ agg = [t \in Minute |-> 0]
  /\ parts = [table \in Table |-> {}]
  /\ created = TRUE  \* its first run comes an hour after the start of the beat
  /\ ever = [table \in Table |-> {}]
  /\ purged = 0

Rows(table) == {t \in Minute : IF table = "raw" THEN raw[t] > 0 ELSE agg[t] > 0}
InDefault(table) == {t \in Rows(table) : Day(t) \notin parts[table]}

\* heartbeat takes its time when it starts.
MeasureStart ==
  /\ sent < MaxRows
  /\ sent' = sent + 1
  /\ flying' = flying \cup {now}
  /\ UNCHANGED <<now, raw, agg, parts, created, ever, purged>>

\* The row goes to the partition of its day, or to the default one; or the insert
\* fails, which the request survives.
MeasureInsert(t) ==
  /\ t \in flying
  /\ flying' = flying \ {t}
  /\ \/ /\ raw' = [raw EXCEPT ![t] = @ + 1]
        /\ ever' = [ever EXCEPT !["raw"] = @ \cup {t}]
     \/ UNCHANGED <<raw, ever>>
  /\ UNCHANGED <<now, sent, agg, parts, created, purged>>

\* create_metrics_partitions: today and tomorrow, both tables, in one transaction.
\* PostgreSQL refuses a partition whose rows are in the default one already.
CreatePartitions ==
  LET days == {Day(now), Day(now) + 1}
      refused == \E table \in Table : \E t \in InDefault(table) : Day(t) \in days
  IN
  /\ ~created
  /\ created' = TRUE
  /\ parts' = IF refused THEN parts ELSE [table \in Table |-> parts[table] \cup days]
  /\ UNCHANGED <<now, sent, flying, raw, agg, ever, purged>>

\* The window of the rollup: [trunc(now) - 2 min, trunc(now) - 1 min[.
RolledMinute == now - 2

\* rollup_metrics_1min: ON CONFLICT DO NOTHING keeps the row of an earlier run.
Rollup ==
  LET t == RolledMinute IN
  /\ t \in Minute /\ raw[t] > 0 /\ agg[t] = 0
  /\ agg' = [agg EXCEPT ![t] = raw[t]]
  /\ ever' = [ever EXCEPT !["1min"] = @ \cup {t}]
  /\ UNCHANGED <<now, sent, flying, raw, parts, created, purged>>

\* Mutant: yesterday is not today.
MutCutoff(table) == IF table = "raw" THEN Day(now) ELSE Day(now) - RetentionDays

Cutoff(table) == IF table = "raw" THEN Day(now) - 1 ELSE Day(now) - RetentionDays

\* purge_metrics_partitions: partitions of days before the cutoff are dropped, the
\* default one never.
Purge ==
  LET dropped(table) == {d \in parts[table] : d < Cutoff(table)}
      kept(rows, table) == [t \in Minute |-> IF Day(t) \in dropped(table) THEN 0 ELSE rows[t]]
  IN
  /\ raw' = kept(raw, "raw") /\ agg' = kept(agg, "1min")
  /\ parts' = [table \in Table |-> parts[table] \ dropped(table)]
  /\ purged' = Day(now)
  /\ UNCHANGED <<now, sent, flying, created, ever>>

\* A request lasts less than a minute: what was taken in a minute is inserted before
\* the next one ends.
Minutes ==
  /\ now < Horizon /\ created
  /\ \A t \in flying : t = now
  /\ now' = now + 1
  /\ created' = ((now + 1) % MinutesPerHour # 0)
  /\ UNCHANGED <<sent, flying, raw, agg, parts, ever, purged>>

MetricsNext ==
  \/ MeasureStart \/ \E t \in Minute : MeasureInsert(t)
  \/ CreatePartitions \/ Rollup \/ Purge \/ Minutes

MetricsSpec == MetricsInit /\ [][MetricsNext]_metricsVars

-----------------------------------------------------------------------------

(* What the API reads *)

\* get_node_metrics: raw rows up to 24 h, the rows per minute beyond.
SourceOf(minutes) == IF minutes <= MinutesPerDay THEN "raw" ELSE "1min"
Window(minutes) == {t \in Rows(SourceOf(minutes)) : t > now - minutes}

Step(n, target) == (n + target - 1) \div target

\* rows[::step], and the most recent point.
Strided(rows, limit) ==
  LET target == IF limit > 1 THEN limit ELSE 1
      step == Step(Len(rows), target)
      taken == [i \in 1..((Len(rows) + step - 1) \div step) |-> rows[1 + (i - 1) * step]]
  IN IF Len(rows) <= target THEN rows
     ELSE IF taken[Len(taken)] = rows[Len(rows)] THEN taken ELSE Append(taken, rows[Len(rows)])

-----------------------------------------------------------------------------

\* What the purge drops is older than 24 h in the raw table, than the retention in
\* the other one.
WindowsAreKept ==
  /\ \A t \in ever["raw"] : t > now - MinutesPerDay => t \in Window(MinutesPerDay)
  /\ \A t \in ever["1min"] :
       t > now - RetentionDays * MinutesPerDay => t \in Rows("1min")

\* The points of a chart span the whole range asked for, from its first row to its
\* last, evenly, and are at most one more than the limit.
SeriesSpans ==
  \A n \in 1..now, limit \in 0..now :
    LET rows == [i \in 1..n |-> i]
        points == Strided(rows, limit)
    IN /\ points[1] = 1 /\ points[Len(points)] = n
       /\ Len(points) <= 1 + (IF limit > 1 THEN limit ELSE 1)
       /\ \A i, j \in 1..(Len(points) - 1) :
            LET gap(k) == points[k + 1] - points[k]
            IN i < j => gap(i) > 0 /\ gap(i) >= gap(j) /\ (j < Len(points) - 1 => gap(i) = gap(j))

\* Every range the API offers finds the rows it asks for, and its chart keeps its
\* first and its last point.
ChartsAreWhole == WindowsAreKept /\ SeriesSpans

\* No measurement arrives once its minute is averaged: a row of node_metrics_1min
\* stands for all raw rows of its minute, as long as they are there.
AggregatesAreWhole ==
  \A t \in Minute : agg[t] > 0 /\ raw[t] > 0 => agg[t] = raw[t]

\* What the charts draw and what they are drawn from is whole.
MetricsAreWhole == ChartsAreWhole /\ AggregatesAreWhole

\* "Retention 24h (purge worker)": after a purge no raw row is older than yesterday.
RawIsPurged == \A t \in Rows("raw") : Day(t) >= purged - 1

=============================================================================
