-------------------------------- MODULE Reports --------------------------------
(***************************************************************************)
(* The answers of the BFF that are a function of one round of reads: the   *)
(* schedule and the backups of the overview, a page of the deployment      *)
(* history, the detail of an application with its logs, and what is said   *)
(* of numbers that are missing (server/overview.ts); the setup report      *)
(* (server/setup.ts) and the error of a failed call (server/index.ts) over *)
(* the client's classification of Coolify's answers; and the health.  As   *)
(* in Mappers a world of the constants is chosen and one step computes     *)
(* what is answered.                                                       *)
(***************************************************************************)
EXTENDS Mappers

CONSTANTS
    ScheduleWorlds, HistoryWorlds, DetailWorlds, SetupWorlds,
    RefusalWorlds, HealthWorlds,
    MaxTake,         \* the most rows of a page
    TodayLong        \* DAY_MS of these worlds' clock

ASSUME ReportConstants == MaxTake \in Nat \ {0} /\ TodayLong \in Nat

ScheduleWorld(w) ==
    /\ w.kind = "schedule" /\ w.now \in Nat /\ IsFiniteSet(w.databases)
    /\ \A b \in w.databases : IsFiniteSet(b.configs) /\ \A c \in b.configs :
         IsFiniteSet(c.executions) /\ \A x \in c.executions : x.at \in Date /\ x.failed \in BOOLEAN

\* A row is at 0 when its deployment has no date.
HistoryWorld(w) ==
    /\ w.kind = "history" /\ w.skip \in Int /\ w.take \in Int
    /\ Listing(w.rows) /\ \A r \in w.rows : r.at \in Nat

HealthWorld(w) == w.kind = "health" /\ IsFiniteSet(w.readings)

ASSUME ReportWorlds ==
    /\ \A w \in ScheduleWorlds : ScheduleWorld(w)
    /\ \A w \in HistoryWorlds : HistoryWorld(w)
    /\ \A w \in DetailWorlds : w.kind = "detail"
    /\ \A w \in SetupWorlds : w.kind = "setup"
    /\ \A w \in RefusalWorlds : w.kind = "refusal"
    /\ \A w \in HealthWorlds : HealthWorld(w)

VARIABLES
    inquiry,         \* the world
    told             \* the answer, of kind "nothing" before the step

reportVars == <<inquiry, told>>

-----------------------------------------------------------------------------
(* What the client makes of an answer of Coolify: a status and what its message    *)
(* is about.  Status 0 is no answer.                                              *)

Answered200(a) == a.status \in 200 .. 299

Code(a) ==
    CASE a.status = 0 -> "unreachable"
      [] a.status # 0 /\ a.text = "queue full" -> "queue_full"
      [] a.text # "queue full" /\ a.status = 401 -> "unauthorized"
      [] a.text # "queue full" /\ a.status = 400 ->
           IF a.text = "invalid token" THEN "unauthorized" ELSE "bad_request"
      [] a.text # "queue full" /\ a.status = 403 ->
           IF a.text = "api disabled" THEN "api_disabled"
           ELSE IF a.text = "ip blocked" THEN "ip_blocked" ELSE "forbidden"
      [] a.text # "queue full" /\ a.status = 404 -> "not_found"
      [] a.text # "queue full" /\ a.status = 429 -> "rate_limited"
      [] OTHER -> "http"

\* Mutant of Ability: what is not a yes is a no.
AbilityGuessed(a) == IF Answered200(a) \/ a.status = 405 THEN "granted" ELSE "missing"

\* abilityProbe: "405 is a yes, 403 is a no, and the message says which no".
Ability(a) ==
    IF Answered200(a) \/ a.status = 405 THEN "granted"
    ELSE IF a.status = 403 THEN (IF a.text = "role" THEN "role" ELSE "missing")
    ELSE "unavailable"

\* toErrorResponse: what the browser is told of a refusal - never by the 401 that
\* would lock it - and what it should do about it.
Refused(a) ==
    CASE Code(a) \in {"unauthorized", "forbidden"} -> [status |-> 502, remedy |-> "token"]
      [] Code(a) \in {"api_disabled", "ip_blocked"} -> [status |-> 502, remedy |-> "settings"]
      [] Code(a) = "queue_full" -> [status |-> 429, remedy |-> "wait"]
      [] Code(a) = "rate_limited" -> [status |-> 429, remedy |-> "none"]
      [] Code(a) = "not_found" -> [status |-> 404, remedy |-> "look elsewhere"]
      [] Code(a) = "bad_request" -> [status |-> 409, remedy |-> "none"]
      [] Code(a) = "unreachable" -> [status |-> 504, remedy |-> "address"]
      [] OTHER -> [status |-> 502, remedy |-> "none"]

\* explainUpstream: what the setup report says one should do about it.
Explained(a) ==
    CASE Code(a) = "unreachable" -> "address"
      [] Code(a) = "unauthorized" -> "token"
      [] Code(a) \in {"api_disabled", "ip_blocked"} -> "settings"
      [] Code(a) = "rate_limited" -> "wait"
      [] OTHER -> "documentation"

-----------------------------------------------------------------------------
(* Tasks and backups. *)

\* nextCronRun: a frequency that is none of Coolify's names and does not parse means
\* no time.
Unparsed == -1
NextRun(cron) == IF cron = Unparsed THEN None ELSE cron

\* What is enabled and has a frequency is on the timeline, if that means a time.
Jobs(w) ==
    LET Timed(S) == {x.id : x \in {y \in S : y.on /\ NextRun(y.cron) # None}}
    IN Timed(w.tasks) \cup UNION {Timed(b.configs) : b \in w.databases}

\* What is enabled can be run, on the timeline or not.
Targets(w) == {t.id : t \in {u \in w.tasks : u.on}}

LastDay(w, executions) == {x \in executions : x.at # None /\ w.now - x.at <= TodayLong}

Executed(w) ==
    UNION {UNION {{[of |-> b.id, run |-> x.id, at |-> x.at, failed |-> x.failed] :
                     x \in LastDay(w, c.executions)} : c \in b.configs} : b \in w.databases}

\* The fourth KPI: no total when nothing is scheduled.
Backups(w) ==
    IF \A b \in w.databases : b.configs = {} THEN [total |-> None, failed |-> 0]
    ELSE [total |-> Cardinality(Executed(w)), failed |-> Cardinality({x \in Executed(w) : x.failed})]

\* "Five failed runs of the same nightly backup is one broken backup": the newest.
BrokenBackups(w) ==
    LET failed == {x \in Executed(w) : x.failed}
    IN {[of |-> x.of, at |-> x.at] : x \in {y \in failed : \A z \in failed : z.of = y.of => z.at <= y.at}}

-----------------------------------------------------------------------------
(* A page of the history, in the environment and of the application asked for. *)

Wanted(w) == {r \in w.rows : r.here /\ (w.only = None \/ r.app = w.only)}

NewestFirst(S) == [r \in S |-> {q \in S : q.at > r.at \/ (q.at = r.at /\ q.nth < r.nth)}]

Skipped(w) == AtLeast0(w.skip)
Taken(w) == IF w.take < 1 THEN 1 ELSE Least(w.take, MaxTake)

Page(w) ==
    LET newest == InOrder(Wanted(w), NewestFirst(Wanted(w)))
    IN [i \in 1 .. Least(Taken(w), AtLeast0(Cardinality(Wanted(w)) - Skipped(w)))
          |-> newest[Skipped(w) + i]]

-----------------------------------------------------------------------------
(* The detail of an application, and its logs. *)

\* Coolify withheld every value, and none because it is shown once only.
Withheld(envs) == envs # {} /\ \A e \in envs : ~e.value /\ ~e.once

DetailNotes(w) ==
    (IF w.envsRead THEN {} ELSE {"envs unread"})
      \cup (IF w.rollbackRead THEN {} ELSE {"rollback unread"})
      \cup (IF w.envsRead /\ Withheld(w.envs) THEN {"envs withheld"} ELSE {})
      \cup (IF w.rollbackRead /\ w.tags # {} THEN {} ELSE {"nothing to roll back to"})

\* A stopped container is a 400, and a state; so is a token that may not read.  The
\* text of a success is "lines" or "blank".
LogAnswer(a) ==
    IF Answered200(a) THEN [shown |-> a.text = "lines",
                            note |-> IF a.text = "lines" THEN "none" ELSE "nothing written"]
    ELSE [shown |-> FALSE, note |-> IF Code(a) \in {"bad_request", "forbidden"} THEN Code(a) ELSE "error"]

-----------------------------------------------------------------------------
(* What is said of numbers that are missing, and of the process itself. *)

\* metricsNotes.
MetricsNote(w) ==
    LET silent == {r \in w.readings : r.source # "sentinel"} IN
    IF ~w.metrics THEN "off"
    ELSE IF w.servers = 0 THEN "none"
    ELSE IF w.readings = {} THEN "first cycle"
    ELSE IF silent = {} THEN "none"
    ELSE IF Cardinality(silent) = 1 THEN "its own" ELSE "several"

\* probeNotes: an entry has `enough` samples for a percentage or has not.
UptimeNote(w) ==
    IF ~w.probes THEN "off"
    ELSE IF w.entries = {} THEN (IF w.count = 0 THEN "none" ELSE "no domain")
    ELSE IF \E p \in w.entries : ~p.enough THEN "measuring" ELSE "none"

\* liveNotes: the poller is there iff Coolify is configured.
LiveNotes(w) ==
    (IF w.webhooks THEN {} ELSE {"webhooks"}) \cup (IF w.configured THEN {} ELSE {"live"})

\* metricsStatus.
Reporting(w) == Cardinality({r \in w.readings : r.source = "sentinel"})

\* GET /app/health: it says little, and looks no further, without a session.  A last
\* known version is a version.
Health(w) ==
    [status |-> IF ~w.configured THEN 503 ELSE IF w.session /\ ~w.version THEN 502 ELSE 200,
     names  |-> w.session]

-----------------------------------------------------------------------------
(* The setup report: what each check came to. *)

\* sensitiveCheck: the first server's token is there or withheld; no server, or no
\* answer, is not known.
Sensitive(w) ==
    IF w.server = "token" THEN "ok" ELSE IF w.server = "withheld" THEN "warn" ELSE "unknown"

AbilityCheck(a) ==
    CASE Ability(a) = "granted" -> "ok"
      [] Ability(a) = "unavailable" -> "unknown"
      [] OTHER -> "warn"

\* localChecks.
Local(w) ==
    [c \in {"password", "webhooks", "probes", "metrics", "history"} |->
       IF c = "password" THEN (IF w.password THEN "ok" ELSE IF w.loopback THEN "warn" ELSE "fail")
       ELSE IF c \in w.on THEN "ok" ELSE "warn"]

\* runSetupChecks: nothing more is asked past the first wall.  The text of the version's
\* success is "version" or anything else.
Checks(w) ==
    LET wall == IF ~w.configured THEN "config"
                ELSE IF ~Answered200(w.version) \/ w.version.text # "version" THEN "reachable"
                ELSE "none"
        upstream == [config |-> "ok", reachable |-> "ok", read |-> "ok",
                     team |-> IF Answered200(w.team) THEN "ok" ELSE "warn",
                     sensitive |-> Sensitive(w),
                     deploy |-> AbilityCheck(w.deploy), write |-> AbilityCheck(w.write)]
    IN CASE wall = "config" -> [config |-> "fail"]
         [] wall = "reachable" -> [config |-> "ok", reachable |-> "fail"]
         [] OTHER -> [c \in DOMAIN upstream \cup DOMAIN Local(w) |->
                        IF c \in DOMAIN upstream THEN upstream[c] ELSE Local(w)[c]]

-----------------------------------------------------------------------------

ReportInit ==
    /\ inquiry \in ScheduleWorlds \cup HistoryWorlds \cup DetailWorlds \cup SetupWorlds
                     \cup RefusalWorlds \cup HealthWorlds
    /\ told = [kind |-> "nothing"]

Tell(answer) == told.kind = "nothing" /\ told' = answer /\ UNCHANGED inquiry

TellSchedule ==
    /\ inquiry.kind = "schedule"
    /\ Tell([kind |-> "schedule", jobs |-> Jobs(inquiry), targets |-> Targets(inquiry),
             backups |-> Backups(inquiry), broken |-> BrokenBackups(inquiry),
             trend |-> BackupTrend(Backups(inquiry))])

TellHistory ==
    /\ inquiry.kind = "history"
    /\ Tell([kind |-> "history", page |-> Page(inquiry), total |-> Cardinality(Wanted(inquiry))])

TellDetail ==
    /\ inquiry.kind = "detail"
    /\ Tell([kind |-> "detail", notes |-> DetailNotes(inquiry), logs |-> LogAnswer(inquiry.logs)])

TellSetup ==
    /\ inquiry.kind = "setup"
    /\ Tell([kind |-> "setup", checks |-> Checks(inquiry),
             fine |-> \A c \in DOMAIN Checks(inquiry) : Checks(inquiry)[c] # "fail"])

TellRefusal ==
    /\ inquiry.kind = "refusal"
    /\ Tell([kind |-> "refusal", status |-> Refused(inquiry.answer).status,
             remedy |-> Refused(inquiry.answer).remedy, explained |-> Explained(inquiry.answer)])

TellHealth ==
    /\ inquiry.kind = "health"
    /\ Tell([kind |-> "health", status |-> Health(inquiry).status, names |-> Health(inquiry).names,
             metrics |-> MetricsNote(inquiry), reporting |-> Reporting(inquiry),
             uptime |-> UptimeNote(inquiry), live |-> LiveNotes(inquiry)])

ReportNext == TellSchedule \/ TellHistory \/ TellDetail \/ TellSetup \/ TellRefusal \/ TellHealth

ReportSpec == ReportInit /\ [][ReportNext]_reportVars

-----------------------------------------------------------------------------
(* Requirements. *)

\* The card of the backups, the insights and the executions agree: the card is red iff
\* a database has its one insight, which is the newest of its failures of the day.
BackupsAgree ==
    told.kind = "schedule" =>
      /\ told.trend = "err" <=> told.broken # {}
      /\ \A p, q \in told.broken : p.of = q.of => p = q
      /\ \A p \in told.broken : \A x \in Executed(inquiry) : x.of = p.of /\ x.failed => x.at <= p.at
      /\ told.backups.total = None => told.broken = {}

\* A page is what was asked for and nothing else - of an application elsewhere nothing
\* at all -, the newest first, each once and as many as there can be; and no row is on
\* it that has too few or too many newer ones, two of one date in either order.
PageByRank ==
    told.kind = "history" =>
      LET rows == Wanted(inquiry)
          page == told.page
          on == {page[i] : i \in DOMAIN page}
          newer(r) == Cardinality({q \in rows : q.at > r.at})
          notOlder(r) == Cardinality({q \in rows : q.at >= r.at})
          first == Skipped(inquiry)
          size == Taken(inquiry)
      IN /\ on \subseteq rows /\ told.total = Cardinality(rows)
         /\ \A i, k \in DOMAIN page : i < k => page[i] # page[k] /\ page[i].at >= page[k].at
         /\ Len(page) = Least(size, AtLeast0(told.total - first))
         /\ \A r \in on : newer(r) < first + size /\ notOlder(r) > first
         /\ \A r \in rows : first <= newer(r) /\ notOlder(r) <= first + size => r \in on

\* What is not there says why, and what is said is so: values nobody may see, images
\* nobody has, logs that are none.
SilenceIsExplained ==
    told.kind = "detail" =>
      /\ "envs withheld" \in told.notes =>
           inquiry.envs # {} /\ \A e \in inquiry.envs : ~e.value
      /\ (\A e \in inquiry.envs : ~e.value /\ ~e.once) =>
           inquiry.envs = {} \/ told.notes \cap {"envs unread", "envs withheld"} # {}
      /\ inquiry.tags = {} => "nothing to roll back to" \in told.notes
      /\ told.logs.shown \/ told.logs.note # "none"

\* "A check that cannot be run says so": no ability is said to be granted or missing
\* but on Coolify's word, and past the first wall nothing is said.
SetupHonest ==
    told.kind = "setup" =>
      LET c == told.checks IN
      /\ told.fine => inquiry.configured /\ Answered200(inquiry.version)
      /\ \A ability \in DOMAIN c \cap {"deploy", "write"} :
           LET a == inquiry[ability] IN
           /\ c[ability] = "ok" => a.status = 405 \/ Answered200(a)
           /\ c[ability] = "warn" => a.status = 403
      /\ "sensitive" \in DOMAIN c =>
           /\ c.sensitive = "ok" => inquiry.server = "token"
           /\ c.sensitive = "warn" => inquiry.server = "withheld"
      /\ c.config = "fail" \/ c.reachable = "fail" => DOMAIN c \subseteq {"config", "reachable"}

\* "Upstream failures are the BFF's problem to explain": no refusal passes for a
\* success or signs the browser out, it says "try again" only when Coolify did, and the
\* setup report does not send its reader elsewhere than the toast did.
RefusalsAgree ==
    told.kind = "refusal" =>
      /\ told.status >= 400 /\ told.status # 401
      /\ told.status = 429 <=> Code(inquiry.answer) \in {"queue_full", "rate_limited"}
      /\ told.remedy \in {"none", told.explained} \/ told.explained = "documentation"

\* The notes of the dashboard and the counts of the health, computed apart, agree on
\* which gauges are silent; and nobody without a session learns how the instance is.
NotesAgreeWithHealth ==
    told.kind = "health" =>
      /\ inquiry.metrics /\ inquiry.servers > 0 =>
           (told.metrics = "none" <=> inquiry.readings # {} /\ told.reporting = Cardinality(inquiry.readings))
      /\ told.uptime \in {"measuring", "none"} /\ inquiry.count > 0 => inquiry.entries # {}
      /\ told.status = 503 <=> "live" \in told.live
      /\ ~inquiry.session => ~told.names /\ told.status # 502

\* No answer claims more than what was read says: of the backups, of a page, of a
\* detail, of the setup, of a refusal, of what is missing.
ClaimsNothingElse ==
    /\ BackupsAgree /\ PageByRank /\ SilenceIsExplained
    /\ SetupHonest /\ RefusalsAgree /\ NotesAgreeWithHealth
=============================================================================
