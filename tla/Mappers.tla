-------------------------------- MODULE Mappers --------------------------------
(***************************************************************************)
(* The pure functions between Coolify's payloads and the dashboard,        *)
(* server/coolify/mappers.ts, applied to the worlds of the constants: a    *)
(* world is chosen, and one step computes what the dashboard shows of it.  *)
(*                                                                         *)
(* Wording is left out: an insight is its rule, its subject and its        *)
(* severity.  A list of Coolify is a set whose elements know their place   *)
(* in it, nth: that is what the stable sorts of the code keep.             *)
(***************************************************************************)
EXTENDS Resources, Sequences, FiniteSets

Sets == INSTANCE FiniteSetsExt

CONSTANTS
    InsightWorlds,   \* worlds of the insights panel
    JobWorlds,       \* worlds of the timeline
    KpiWorlds,       \* worlds of the deployment KPIs
    MaxInsights,     \* limit of the panel
    MaxJobs,         \* jobs of the strip
    DayLong,         \* DAY_MS, a multiple of 4
    HourLong         \* of the timeline's clock

ASSUME MapperConstants ==
    /\ MaxInsights \in Nat \ {0} /\ MaxJobs \in Nat
    /\ HourLong \in Nat \ {0} /\ DayLong = 24 * HourLong

\* A list: no two of its elements are in one place, or have one id.
Listing(S) ==
    /\ IsFiniteSet(S) /\ \A x \in S : x.nth \in Nat
    /\ \A x, y \in S : x.id = y.id \/ x.nth = y.nth => x = y

\* `ended` is how the deployments of the last day ended, `fresh` the place of the
\* newest failure among those of all the applications.
PanelWorld(w) ==
    /\ w.kind = "panel" /\ Listing(w.servers) /\ Listing(w.apps) /\ Listing(w.backups)
    /\ \A a \in w.apps : a.ended \in Seq(STRING) /\ a.fresh \in Nat
    /\ \A a, b \in w.apps : a.fresh = b.fresh => a = b

JobWorld(w) ==
    /\ w.kind = "timeline" /\ w.now \in Nat
    /\ Listing(w.jobs) /\ \A j \in w.jobs : j.at \in Nat

Date == Nat \cup {None}

KpiWorld(w) ==
    /\ w.kind = "kpis" /\ w.now \in Nat /\ w.window \in Nat
    /\ w.deployments \in Seq([status : STRING, created : Date, finished : Date])
    /\ w.series \in Seq(Int)

ASSUME MapperWorlds ==
    /\ \A w \in InsightWorlds : PanelWorld(w)
    /\ \A w \in JobWorlds : JobWorld(w)
    /\ \A w \in KpiWorlds : KpiWorld(w)

VARIABLES
    world,           \* the input
    shown            \* the output, None before the step

mapperVars == <<world, shown>>

\* Math.round of n / d.
Round(n, d) == (2 * n + d) \div (2 * d)

Least(m, n) == IF m < n THEN m ELSE n

\* A sort: each element of S has those of `ahead` before it.
InOrder(S, ahead) ==
    [i \in 1 .. Cardinality(S) |-> CHOOSE x \in S : Cardinality(ahead[x]) = i - 1]

-----------------------------------------------------------------------------
(* The fleet. *)

\* buildFleetTotals: the fourth figure is the mean of the loads that are known.
FleetTotals(servers) ==
    LET loads == {s \in servers : s.cpu # None}
        total == Sets!MapThenSumSet(LAMBDA s : s.cpu, loads)
    IN [servers   |-> Cardinality(servers),
        reachable |-> Cardinality({s \in servers : s.reachable}),
        load      |-> IF loads = {} THEN None ELSE Round(total, Cardinality(loads))]

-----------------------------------------------------------------------------
(* Insights.  Each rule is the set of what it says, and rules push in the order   *)
(* of their numbers.                                                              *)

DownAfterFailures == 3
TlsWarnDays == 14

Says(rule, x, severity) == [rule |-> rule, of |-> x.id, severity |-> severity, nth |-> x.nth]

ServerUnreachable(w) == {Says(1, s, "err") : s \in {x \in w.servers : ~x.reachable}}

ServerDisk(w) ==
    LET Severity(s) == IF s.diskPct # None /\ s.diskPct >= 90 THEN "err" ELSE "warn"
    IN {Says(2, s, Severity(s)) : s \in {x \in w.servers : x.diskAlert}}

\* Metrics that were asked for; an unreachable server has said more already.
ServerMetrics(w) ==
    LET blind == {s \in w.servers : w.metricsExpected /\ s.reachable /\ s.source # "sentinel"}
    IN {Says(3, s, "warn") : s \in blind}

\* The applications Coolify has something to say of.
BrokenApps(w) == {a \in w.apps : a.state # "running" \/ a.health = "unhealthy"}

AppStatus(w) ==
    LET Severity(a) == IF a.state = "running" THEN "warn" ELSE "err"
    IN {Says(4, a, Severity(a)) : a \in BrokenApps(w)}

Probed(w) == {a \in w.apps : a.probed}

IsDown(a) == a.failures >= DownAfterFailures

\* Mutant of ProbeDown: what Coolify says is not looked at.
ProbeDownTwice(w) ==
    {Says(5, a, "err") : a \in {x \in Probed(w) : IsDown(x)}}

\* "one problem, one insight": unless Coolify already says so.
ProbeDown(w) ==
    {Says(5, a, "err") : a \in {x \in Probed(w) : IsDown(x)} \ BrokenApps(w)}

\* A certificate that could not be read, of an application that answers, or one that
\* ends soon.
Certificate(w) ==
    LET Unread(a) == a.daysLeft = None
        Severity(a) == IF Unread(a) \/ a.daysLeft > 3 THEN "warn" ELSE "err"
        alarming == {a \in Probed(w) : /\ a.tls
                                       /\ IF Unread(a) THEN a.tlsError /\ a.failures = 0
                                          ELSE a.daysLeft <= TlsWarnDays}
    IN {Says(6, a, Severity(a)) : a \in alarming}

BackupFailed(w) == {Says(7, b, "err") : b \in w.backups}

\* Failed deployments of the last day: two of one application are one problem.
FailedOf(a) == Cardinality({i \in DOMAIN a.ended : a.ended[i] = "failed"})

\* Those go by the failures, the newest first.
Failing(rule, S, severity) ==
    {[rule |-> rule, of |-> a.id, severity |-> severity, nth |-> a.fresh] : a \in S}

DeployFailures(w) == Failing(8, {a \in w.apps : FailedOf(a) >= 2}, "err")
DeployFailure(w) == Failing(9, {a \in w.apps : FailedOf(a) = 1}, "warn")

\* An uptime below the target, of an application that is not down as it is.
LowUptime(w) ==
    LET flaky == {a \in Probed(w) \ BrokenApps(w) : a.uptimeLow /\ ~IsDown(a)}
    IN {Says(10, a, "warn") : a \in flaky}

Problems(w) ==
    ServerUnreachable(w) \cup ServerDisk(w) \cup ServerMetrics(w) \cup AppStatus(w)
      \cup ProbeDown(w) \cup Certificate(w) \cup BackupFailed(w)
      \cup DeployFailures(w) \cup DeployFailure(w) \cup LowUptime(w)

Rank == [err |-> 0, warn |-> 1, neutral |-> 2, ok |-> 3]

\* The stable sort: by severity, then in the order they were pushed.
MoreSerious(S) ==
    [q \in S |-> {p \in S :
       \/ Rank[p.severity] < Rank[q.severity]
       \/ /\ Rank[p.severity] = Rank[q.severity]
          /\ p.rule < q.rule \/ (p.rule = q.rule /\ p.nth < q.nth)}]

AllClear == 0
More == 11

Row(rule, severity, count) == [rule |-> rule, of |-> count, severity |-> severity, nth |-> 0]

\* buildInsights: the last row says how many are hidden.
Insights(w) ==
    LET problems == Problems(w)
        all == InOrder(problems, MoreSerious(problems))
        n == Cardinality(problems)
    IN IF n = 0 THEN <<Row(AllClear, "ok", 0)>>
       ELSE IF n <= MaxInsights THEN all
       ELSE [i \in 1 .. MaxInsights |->
               IF i < MaxInsights THEN all[i]
               ELSE Row(More, all[i].severity, n - (MaxInsights - 1))]

\* Mutant of SystemStatus: applications are not looked at.
SystemStatusOfServers(w) ==
    IF \E s \in w.servers : ~s.reachable THEN "servers"
    ELSE IF \E a \in w.apps : a.lastHour /\ FailedOf(a) > 0 THEN "deployments"
    ELSE "ok"

\* deriveSystemStatus: what the pill complains of, the worst first.  An application
\* whose last failure is of the last hour has lastHour.
SystemStatus(w) ==
    IF \E s \in w.servers : ~s.reachable THEN "servers"
    ELSE IF \E a \in Probed(w) : IsDown(a) THEN "applications"
    ELSE IF \E a \in w.apps : a.lastHour /\ FailedOf(a) > 0 THEN "deployments"
    ELSE "ok"

-----------------------------------------------------------------------------
(* The timeline: now to now + 24 h, in thousandths of its width. *)

PositionOf(at, now) == Round((at - now) * 1000, DayLong)

\* Mutant of Clamped: the left margin only.
ClampedLeft(x) == IF x < 20 THEN 20 ELSE x

Clamped(x) == IF x < 20 THEN 20 ELSE IF x > 990 THEN 990 ELSE x

\* Four marks, the first at the next multiple of six hours.
Ticks(now) ==
    LET first == ((now \div (6 * HourLong)) + 1) * 6 * HourLong
    IN [i \in 1 .. 4 |-> PositionOf(first + (i - 1) * 6 * HourLong, now)]

\* The jobs of the next day, the soonest first.
Due24(w) == {j \in w.jobs : w.now < j.at /\ j.at <= w.now + DayLong}

Sooner(S) == [j \in S |-> {i \in S : i.at < j.at \/ (i.at = j.at /\ i.nth < j.nth)}]

Strip(w) ==
    LET due == Due24(w)
        soonest == InOrder(due, Sooner(due))
    IN [i \in 1 .. Least(Cardinality(due), MaxJobs) |->
          [id |-> soonest[i].id, left |-> Clamped(PositionOf(soonest[i].at, w.now))]]

-----------------------------------------------------------------------------
(* The KPIs. *)

Recent(w) == {i \in DOMAIN w.deployments :
    LET at == PlacedAt(w.deployments[i])
    IN at # None /\ w.now - at <= w.window /\ at <= w.now}

Shorter(times) ==
    [k \in DOMAIN times |->
       {i \in DOMAIN times : times[i] < times[k] \/ (times[i] = times[k] /\ i < k)}]

\* median, doubled: of an even number, the middle two count half each.
Median(times) ==
    LET n == Cardinality(DOMAIN times)
        sorted == InOrder(DOMAIN times, Shorter(times))
        Middle(m) == times[sorted[m]]
    IN IF n = 0 THEN None
       ELSE IF n % 2 = 1 THEN 2 * Middle(n \div 2 + 1)
       ELSE Middle(n \div 2) + Middle(n \div 2 + 1)

\* How long the successes took, for those with both dates in their order.
Durations(w, S) ==
    [i \in {k \in S : LET d == w.deployments[k]
                     IN d.created # None /\ d.finished # None /\ d.finished >= d.created}
       |-> w.deployments[i].finished - w.deployments[i].created]

Successes(w) == {i \in Recent(w) : DeploymentState(w.deployments[i].status) = "success"}

\* summarizeDeployments.
Summary(w) ==
    LET recent == Recent(w)
        In(states) == {i \in recent : DeploymentState(w.deployments[i].status) \in states}
        finished == In({"success", "failed", "cancelled"})
    IN [total      |-> Cardinality(recent),
        success    |-> Cardinality(In({"success"})),
        failed     |-> Cardinality(In({"failed"})),
        successPct |-> IF finished = {} THEN None
                       ELSE Round(100 * Cardinality(In({"success"})), Cardinality(finished)),
        median     |-> Median(Durations(w, Successes(w)))]

\* deploymentsKpi and medianDeployKpi: the colours of their badges.  Medians are
\* doubled seconds.
SuccessTrend(pct) ==
    IF pct = None THEN "neutral" ELSE IF pct >= 95 THEN "ok" ELSE IF pct >= 80 THEN "warn" ELSE "err"

MedianTrend(current, previous) ==
    LET drift == Round(current - previous, 2) IN
    IF current = None \/ previous = None \/ previous <= 0 \/ drift = 0 THEN "neutral"
    ELSE IF drift < 0 THEN "ok"
    ELSE IF 5 * current > 6 * previous THEN "warn" ELSE "neutral"

\* backupsKpi: of the executions of the last day; no total when nothing is scheduled.
BackupTrend(backups) ==
    IF backups.total = None THEN "neutral"
    ELSE IF backups.failed > 0 THEN "err" ELSE IF backups.total > 0 THEN "ok" ELSE "neutral"

MaxPoints == 12

\* sparkFrom: the newest values in tenths of a unit, the highest on top, 30 units
\* high; flat when there is no slope.
Spark(values) ==
    LET older == Len(values) - Least(Len(values), MaxPoints)
        series == [i \in 1 .. Least(Len(values), MaxPoints) |-> values[older + i]]
        seen == {series[i] : i \in DOMAIN series}
        lo == Sets!Min(seen)
        span == Sets!Max(seen) - lo
    IN IF Len(values) < 2 THEN <<150, 150>>
       ELSE [i \in DOMAIN series |->
               IF span = 0 THEN 150 ELSE Round(260 * span - (series[i] - lo) * 220, span)]

-----------------------------------------------------------------------------

\* buildPaletteActions: the first applications can be deployed, restarted and
\* stopped - which asks twice -, the first tasks run.
Palette(apps, tasks) ==
    {[kind |-> k, of |-> a, confirm |-> k = "stop"] : k \in {"deploy", "restart", "stop"}, a \in apps}
      \cup {[kind |-> "run-task", of |-> t, confirm |-> FALSE] : t \in tasks}
      \cup {[kind |-> "switch-environment", of |-> None, confirm |-> FALSE]}

MapperInit ==
    /\ world \in InsightWorlds \cup JobWorlds \cup KpiWorlds
    /\ shown = [kind |-> "nothing"]

ShowPanel ==
    /\ shown.kind = "nothing" /\ world.kind = "panel"
    /\ shown' = [kind |-> "panel", insights |-> Insights(world), pill |-> SystemStatus(world),
                 fleet |-> FleetTotals({MapServer(s) : s \in world.servers}),
                 palette |-> Palette({a.id : a \in world.apps}, {})]
    /\ UNCHANGED world

ShowTimeline ==
    /\ shown.kind = "nothing" /\ world.kind = "timeline"
    /\ shown' = [kind |-> "timeline", jobs |-> Strip(world), ticks |-> Ticks(world.now)]
    /\ UNCHANGED world

ShowKpis ==
    LET summary == Summary(world) IN
    /\ shown.kind = "nothing" /\ world.kind = "kpis"
    /\ shown' = [kind |-> "kpis", summary |-> summary, success |-> SuccessTrend(summary.successPct),
                 drift |-> MedianTrend(summary.median, world.previous),
                 count |-> CountTrend(Len(world.deployments), world.previous),
                 rows |-> [i \in DOMAIN world.deployments |-> MapDeployment(world.deployments[i], world.now)],
                 spark |-> Spark(world.series)]
    /\ UNCHANGED world

MapperNext == ShowPanel \/ ShowTimeline \/ ShowKpis

MapperSpec == MapperInit /\ [][MapperNext]_mapperVars

-----------------------------------------------------------------------------
(* Requirements. *)

\* "The panel shows the most serious ones first": nothing hidden is worse than what
\* is shown, and the last row accounts for all of the hidden.
WorstFirst ==
    shown.kind = "panel" =>
      LET rows == {shown.insights[i] : i \in DOMAIN shown.insights}
          visible == rows \cap Problems(world)
          hidden == Problems(world) \ rows
      IN /\ Len(shown.insights) <= MaxInsights
         /\ \A i, j \in DOMAIN shown.insights :
              i < j => Rank[shown.insights[i].severity] <= Rank[shown.insights[j].severity]
         /\ \A p \in visible, q \in hidden : Rank[p.severity] <= Rank[q.severity]
         /\ rows \ visible =
              IF Problems(world) = {} THEN {Row(AllClear, "ok", 0)}
              ELSE IF hidden = {} THEN {}
              ELSE {Row(More,
                        IF \E p \in hidden : p.severity = "err" THEN "err" ELSE "warn",
                        Cardinality(hidden))}

\* "one problem, one insight": an application that is down, or a server that cannot
\* be reached, is said so once, by whoever knows best.
OneProblemOneInsight ==
    world.kind = "panel" => \A p, q \in Problems(world) :
      p # q /\ p.of = q.of =>
        /\ ~({p.rule, q.rule} \subseteq {4, 5, 10})
        /\ ~({p.rule, q.rule} \subseteq {8, 9})
        /\ {p.rule, q.rule} # {1, 3}

\* What the panel of insights shows, and what it leaves out.
InsightsSound == WorstFirst /\ OneProblemOneInsight

\* The pill and the panel, computed apart, tell one story: what the pill complains
\* of has its row among the problems, and when it does not the panel has no server
\* out of reach and no application that does not answer.
PillAgreesWithPanel ==
    shown.kind = "panel" =>
      LET Said(rules) == \E p \in Problems(world) : p.rule \in rules IN
      CASE shown.pill = "servers" -> Said({1}) /\ shown.insights[1].severity = "err"
        [] shown.pill = "applications" -> Said({4, 5})
        [] shown.pill = "deployments" -> Said({8, 9})
        [] OTHER -> ~Said({1, 5})

\* The strip holds the soonest jobs of the next day, in their order and on the strip,
\* and four marks on it, a quarter apart.
StripInOrder ==
    shown.kind = "timeline" =>
      LET jobs == shown.jobs
          At(i) == (CHOOSE j \in world.jobs : j.id = jobs[i].id).at
          ids == {jobs[i].id : i \in DOMAIN jobs}
      IN /\ \A i \in DOMAIN jobs : jobs[i].left \in 20 .. 990
         /\ \A i, k \in DOMAIN jobs : i < k => jobs[i].left <= jobs[k].left
         /\ \A j \in Due24(world) : j.id \notin ids =>
              Len(jobs) = MaxJobs /\ \A i \in DOMAIN jobs : At(i) <= j.at
         /\ \A i \in 1 .. 4 : shown.ticks[i] \in 0 .. 1000
         /\ \A i \in 1 .. 3 : shown.ticks[i + 1] - shown.ticks[i] = 250

\* The numbers of the cards fit together: half of the successes took no longer than
\* the median and half no less, and a green rate hides no more than a failure in
\* eighteen.
KpisFitTogether ==
    shown.kind = "kpis" =>
      LET s == shown.summary
          took == Durations(world, Successes(world))
          n == Cardinality(DOMAIN took)
      IN /\ s.success + s.failed <= s.total
         /\ s.median = None <=> n = 0
         /\ n > 0 => /\ 2 * Cardinality({i \in DOMAIN took : 2 * took[i] <= s.median}) >= n
                     /\ 2 * Cardinality({i \in DOMAIN took : 2 * took[i] >= s.median}) >= n
         /\ shown.success = "ok" => 18 * s.failed <= s.total

\* A sparkline is of the newest values: a higher one never stands lower, and the
\* highest and the lowest touch the edges.
SparkIsTrue ==
    shown.kind = "kpis" /\ Len(world.series) >= 2 =>
      LET points == DOMAIN shown.spark
          Value(i) == world.series[Len(world.series) - Len(shown.spark) + i]
          Above(i, j) == Value(i) > Value(j)
      IN /\ Len(shown.spark) = Least(Len(world.series), MaxPoints)
         /\ \A i \in points : shown.spark[i] \in 40 .. 260
         /\ \A i, j \in points : Above(i, j) =>
              /\ shown.spark[i] <= shown.spark[j]
              /\ ~(\E k \in points : Above(k, i)) => shown.spark[i] = 40
              /\ ~(\E k \in points : Above(j, k)) => shown.spark[j] = 260

\* What the cards and the strip draw, each computed from its own list.
DrawnAsItIs == StripInOrder /\ KpisFitTogether /\ SparkIsTrue

\* The code does not keep the next two; the README says why.

\* "Last deployment of X failed ... The previous release is still serving traffic".
LastDeploymentFailed ==
    world.kind = "panel" => \A p \in Problems(world) : p.rule = 9 =>
      \A a \in world.apps : a.id = p.of => a.ended[Len(a.ended)] = "failed"

\* "Coolify already says the container is down": an application that does not answer
\* is an error of the panel.
DownIsAnError ==
    world.kind = "panel" => \A a \in Probed(world) : IsDown(a) =>
      \E p \in Problems(world) : p.of = a.id /\ p.rule \in {4, 5} /\ p.severity = "err"
=============================================================================
