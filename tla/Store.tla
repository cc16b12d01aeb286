--------------------------------- MODULE Store ---------------------------------
(***************************************************************************)
(* The two histories the BFF keeps, server/store.ts: hourly KPI rows per   *)
(* environment and one sample per probe.  There are two implementations,   *)
(* SQLite and an in-process fallback, of which a process uses one; the     *)
(* model feeds both with the same calls.  Only SQLite survives a restart.  *)
(***************************************************************************)
EXTENDS Integers, Sequences, FiniteSets

CONSTANTS
    Env,            \* environments
    Target,         \* what is probed
    HourlyGap,      \* SNAPSHOT_INTERVAL_MS
    RowLimit,       \* createMemoryStore's limit
    ProbeLimit,     \* MEMORY_PROBE_LIMIT
    Lookback,       \* the farthest `before` is asked for: a week
    ProbeWindow,    \* windowMs of the uptime
    Retention,      \* retentionMs, at least as long
    MinSamples,     \* MIN_UPTIME_SAMPLES
    MaxClock        \* bound

\* The limits are those of the code: 336 rows an hour apart for a week, and more
\* samples than a day has at one a minute - one per tick here.
ASSUME StoreConstants ==
    /\ HourlyGap \in Nat \ {0} /\ RowLimit \in Nat \ {0} /\ Lookback \in Nat
    /\ MaxClock \in Nat
    /\ ProbeLimit \in Nat /\ ProbeWindow \in Nat /\ Retention \in Nat
    /\ (RowLimit - 1) * HourlyGap >= Lookback
    /\ ProbeLimit > ProbeWindow
    /\ Retention >= ProbeWindow

VARIABLES
    clock,
    booted,         \* when the process started
    rows,           \* SQLite: Env -> times of its rows
    samples,        \* SQLite: Target -> its samples
    rowList,        \* memory: Env -> times of its rows, oldest first
    sampleList      \* memory: Target -> its samples, oldest first

storeVars == <<clock, booted, rows, samples, rowList, sampleList>>

Sample == [at : 0 .. MaxClock, ok : BOOLEAN]

StoreTypeOK ==
    /\ clock \in 0 .. MaxClock /\ booted \in 0 .. clock
    /\ rows \in [Env -> SUBSET (0 .. MaxClock)]
    /\ samples \in [Target -> SUBSET Sample]
    /\ \A e \in Env : rowList[e] \in Seq(0 .. MaxClock) /\ Len(rowList[e]) <= RowLimit
    /\ \A t \in Target : sampleList[t] \in Seq(Sample) /\ Len(sampleList[t]) <= ProbeLimit

StoreInit ==
    /\ clock = 0 /\ booted = 0
    /\ rows = [e \in Env |-> {}]
    /\ samples = [t \in Target |-> {}]
    /\ rowList = [e \in Env |-> <<>>]
    /\ sampleList = [t \in Target |-> <<>>]

\* push, and shift if that was one too many.
Capped(list, x, limit) ==
    IF Len(list) < limit THEN Append(list, x) ELSE Append(Tail(list), x)

\* record writes unless the newest row is younger than HourlyGap.
Due(times) == \A t \in times : clock - t >= HourlyGap

\* The row the fallback compares with, if it has one.
LastOf(list) == IF list = <<>> THEN {} ELSE {list[Len(list)]}

\* record(env, sample, now): what /app/overview does at every request.
RecordRow(e) ==
    /\ rows' = IF Due(rows[e]) THEN [rows EXCEPT ![e] = @ \cup {clock}] ELSE rows
    /\ rowList' = IF Due(LastOf(rowList[e]))
                  THEN [rowList EXCEPT ![e] = Capped(@, clock, RowLimit)]
                  ELSE rowList
    /\ UNCHANGED <<clock, booted, samples, sampleList>>

\* recordProbe.  A target is probed once per tick at most: SQLite would replace a
\* second sample of the same instant, where the list would keep both.
RecordSample(t, ok) ==
    LET sample == [at |-> clock, ok |-> ok] IN
    /\ \A s \in samples[t] : s.at < clock
    /\ samples' = [samples EXCEPT ![t] = @ \cup {sample}]
    /\ sampleList' = [sampleList EXCEPT ![t] = Capped(@, sample, ProbeLimit)]
    /\ UNCHANGED <<clock, booted, rows, rowList>>

\* The j-th smallest of a set of positions.
Nth(kept, j) == CHOOSE i \in kept : Cardinality({k \in kept : k <= i}) = j

\* filter(sample => sample.at >= since): those samples of the list, in its order.
NotBefore(list, since) ==
    LET kept == {i \in DOMAIN list : list[i].at >= since} IN
    [j \in 1 .. Cardinality(kept) |-> list[Nth(kept, j)]]

\* pruneProbes(now - retentionMs).
Prune ==
    LET before == clock - Retention IN
    /\ samples' = [t \in Target |-> {s \in samples[t] : s.at >= before}]
    /\ sampleList' = [t \in Target |-> NotBefore(sampleList[t], before)]
    /\ UNCHANGED <<clock, booted, rows, rowList>>

\* The process restarts.  Bound: once.
Restart ==
    /\ booted = 0 /\ clock > 0
    /\ booted' = clock
    /\ rowList' = [e \in Env |-> <<>>]
    /\ sampleList' = [t \in Target |-> <<>>]
    /\ UNCHANGED <<clock, rows, samples>>

ClockTicks ==
    /\ clock < MaxClock
    /\ clock' = clock + 1
    /\ UNCHANGED <<booted, rows, samples, rowList, sampleList>>

StoreNext ==
    \/ \E e \in Env : RecordRow(e)
    \/ \E t \in Target, ok \in BOOLEAN : RecordSample(t, ok)
    \/ Prune
    \/ Restart
    \/ ClockTicks

StoreSpec == StoreInit /\ [][StoreNext]_storeVars

-----------------------------------------------------------------------------
(* What is read from them. *)

Newest(times) == CHOOSE t \in times : \A u \in times : u <= t

\* before(env, at): the newest row no later than `at`; -1 if there is none.
NewestUpTo(times, at) ==
    LET old == {t \in times : t <= at} IN IF old = {} THEN -1 ELSE Newest(old)

BeforeInMemory(list, at) ==
    LET hits == {i \in DOMAIN list : list[i] <= at} IN
    IF hits = {} THEN -1 ELSE list[Newest(hits)]

\* history(env, limit): the newest rows, here as a set.
NewestRows(times, limit) == {t \in times : Cardinality({u \in times : u > t}) < limit}

HistoryInMemory(list, limit) == {list[i] : i \in {j \in DOMAIN list : j > Len(list) - limit}}

\* probeStats(target, since), and the percentage applyStats shows of it - here the
\* two counts it is made of - once there are enough samples.
Shown(n, up) == IF n >= MinSamples THEN <<n, up>> ELSE <<n>>

StatsInSql(t, since) ==
    LET window == {s \in samples[t] : s.at >= since} IN
    Shown(Cardinality(window), Cardinality({s \in window : s.ok}))

StatsOf(window) == Shown(Len(window), Cardinality({i \in DOMAIN window : window[i].ok}))

\* Mutant of StatsInMemory: the window is open at its start.
StatsInMemoryOpen(t, since) == StatsOf(NotBefore(sampleList[t], since + 1))

StatsInMemory(t, since) == StatsOf(NotBefore(sampleList[t], since))

-----------------------------------------------------------------------------
(* Requirements. *)

\* "At most one row per environment per hour": in the file even across a restart, so
\* that a delta compares rows that really are hours apart.
OneRowAnHour ==
    /\ \A e \in Env : \A t, u \in rows[e] : t < u => u - t >= HourlyGap
    /\ \A e \in Env : \A i, j \in DOMAIN rowList[e] : i < j => rowList[e][j] - rowList[e][i] >= HourlyGap

\* "Keeps the same window as SQLite would, minus the file": before its first restart,
\* the fallback has for every question about its rows the answer of SQLite.
RowsAgree ==
    booted = 0 =>
      \A e \in Env :
        /\ \A at \in clock - Lookback .. clock :
             NewestUpTo(rows[e], at) = BeforeInMemory(rowList[e], at)
        /\ NewestRows(rows[e], RowLimit) = HistoryInMemory(rowList[e], RowLimit)

\* The same of the samples, whether they were pruned or not.
SamplesAgree ==
    booted = 0 =>
      \A t \in Target : StatsInSql(t, clock - ProbeWindow) = StatsInMemory(t, clock - ProbeWindow)

\* All that is asked of the histories.
HistoriesSound == OneRowAnHour /\ RowsAgree /\ SamplesAgree
=============================================================================
