-------------------------------- MODULE Overview --------------------------------
(***************************************************************************)
(* The overview, server/overview.ts: one request reads family after family *)
(* of Coolify's data through the cache, each of them as it was at another  *)
(* moment, and makes one payload of what it got.  Coolify's deployments go *)
(* on meanwhile; its applications and environments stay what they are.     *)
(*                                                                         *)
(* Expiry is untimed: an entry of the cache may be served or loaded anew   *)
(* at any read.  What one family is is a record [kind, of].                *)
(***************************************************************************)
EXTENDS Resources, FiniteSets

CONSTANTS
    Project,
    Environment,     \* ids
    ProjectOf,       \* Environment -> Project
    NameOf,          \* Environment -> its name, which two projects may share
    EnvApp,          \* applications
    HomeEnv,         \* EnvApp -> Environment
    Rollout,             \* deployments
    AppOf,           \* Rollout -> EnvApp
    Everything,      \* the name 'all resources'
    Charted,         \* bound: names whose rows are kept
    MaxRows,         \* MAX_DEPLOYMENT_ROWS
    MaxMisses        \* bound: reads that fail in one build

ASSUME OverviewConstants ==
    /\ ProjectOf \in [Environment -> Project]
    /\ HomeEnv \in [EnvApp -> Environment] /\ AppOf \in [Rollout -> EnvApp]
    /\ Everything \notin {NameOf[e] : e \in Environment} /\ None \notin {NameOf[e] : e \in Environment}
    /\ IsFiniteSet(Environment) /\ IsFiniteSet(EnvApp)
    /\ Charted \subseteq {NameOf[e] : e \in Environment} \cup {Everything}
    /\ MaxRows \in Nat /\ MaxMisses \in Nat

VARIABLES
    fate,        \* Rollout -> what has become of it in Coolify
    cached,      \* family -> its last known value, for those in the cache
    stage,       \* what the build reads: "idle" is none
    asked,       \* the environment that was asked for, None is the default
    pending,     \* families of this stage not read yet
    got,         \* family -> what the build has of it
    notes,       \* scopes of the degraded notes, "everything" for lack of environments
    misses,      \* reads that failed
    weekAgo,     \* environment name -> applications in its row of a week ago
    answer       \* the last payload

overviewVars == <<fate, cached, stage, asked, pending, got, notes, misses, weekAgo, answer>>

NoAnswer == [environment |-> None, notes |-> {"none"}]

Names == {NameOf[e] : e \in Environment}

Family(kind, of) == [kind |-> kind, of |-> of]
Global(kind) == Family(kind, None)

Pending == {"queued", "in_progress"}

\* However it ended, as far as this module goes.
Terminal == {"finished"}

\* What Coolify answers now.
Truth(f) ==
    CASE f.kind = "projects" -> Project
      [] f.kind = "environments" -> {e \in Environment : ProjectOf[e] = f.of}
      [] f.kind = "applications" -> EnvApp
      [] f.kind = "deployments" -> {[run |-> r, status |-> fate[r]] :
                                      r \in {q \in Rollout : AppOf[q] = f.of /\ fate[q] # "unborn"}}
      [] f.kind = "running" -> {r \in Rollout : fate[r] \in Pending}

Scope(f) ==
    CASE f.kind \in {"projects", "environments"} -> "environments"
      [] f.kind = "applications" -> "applications"
      [] OTHER -> "deployments"

\* The families whose reader notes every failure itself; of the others, the first
\* fails the build, and the histories are counted when they are not even cached.
Optional == {"projects", "environments", "running"}

OverviewInit ==
    /\ fate = [r \in Rollout |-> "unborn"]
    /\ cached = [f \in {} |-> {}]
    /\ stage = "idle" /\ asked = None
    /\ pending = {} /\ got = [f \in {} |-> {}]
    /\ notes = {} /\ misses = 0
    /\ weekAgo = [n \in Names \cup {Everything} |-> None]
    /\ answer = NoAnswer

-----------------------------------------------------------------------------
(* The scope: which environments there are, which is selected, what is in it. *)

Known(reads) == UNION {reads[f] : f \in {g \in DOMAIN reads : g.kind = "environments"}}

\* environmentOf: None for an environment no list named.
NameIn(known, a) == IF HomeEnv[a] \in known THEN NameOf[HomeEnv[a]] ELSE None

\* How many of the applications an environment's name has.
CountOf(known, apps, n) == Cardinality({a \in apps : NameIn(known, a) = n})

\* pickEnvironment: the requested one if it exists, else the busiest.
PickEnvironment(known, apps, requested) ==
    LET names == {NameOf[e] : e \in known}
    IN IF requested \in names THEN requested
       ELSE IF names = {} THEN (IF requested = None THEN Everything ELSE requested)
       ELSE CHOOSE n \in names : \A m \in names : CountOf(known, apps, m) <= CountOf(known, apps, n)

\* inEnvironment: everything, when no environment could be read.
Within(known, apps, requested) ==
    {a \in apps : known = {} \/ NameIn(known, a) = PickEnvironment(known, apps, requested)}

\* Of the build, given what it got.
Picked(reads) == PickEnvironment(Known(reads), reads[Global("applications")], asked)
InEnvironment(reads) == Within(Known(reads), reads[Global("applications")], asked)

-----------------------------------------------------------------------------
(* The reads. *)

\* The families of the next stage, given what was got so far.
After ==
    CASE stage = "scope" ->
           [stage |-> "lists", reads |-> {Family("environments", p) : p \in got[Global("projects")]}]
      [] stage = "lists" ->
           [stage |-> "histories", reads |-> {Family("deployments", a) : a \in InEnvironment(got)}]
      [] stage = "histories" -> [stage |-> "running", reads |-> {Global("running")}]
      [] stage = "running" -> [stage |-> "answer", reads |-> {}]

\* A request comes.  Bound: one at a time, they share nothing but the cache.
BuildStarts(env) ==
    /\ stage = "idle"
    /\ stage' = "scope" /\ asked' = env
    /\ pending' = {Global("projects"), Global("applications")}
    /\ got' = [f \in {} |-> {}] /\ notes' = {} /\ misses' = 0
    /\ answer' = NoAnswer
    /\ UNCHANGED <<fate, cached, weekAgo>>

\* The reads of a stage are in, and those of the next are sent.
Advance ==
    /\ stage \notin {"idle", "answer"} /\ pending = {}
    /\ stage' = After.stage /\ pending' = After.reads
    /\ UNCHANGED <<fate, cached, asked, got, notes, misses, weekAgo, answer>>

\* cache.fetch(f) gives `value`.
Got(f, value) ==
    /\ got' = [g \in DOMAIN got \cup {f} |-> IF g = f THEN value ELSE got[g]]
    /\ pending' = pending \ {f}
    /\ UNCHANGED <<fate, stage, asked, weekAgo, answer>>

\* The entry is fresh.
ReadCached(f) ==
    /\ f \in pending /\ f \in DOMAIN cached
    /\ Got(f, cached[f])
    /\ UNCHANGED <<cached, notes, misses>>

\* It is not, and Coolify answers.
ReadLoaded(f) ==
    /\ f \in pending
    /\ Got(f, Truth(f))
    /\ cached' = [g \in DOMAIN cached \cup {f} |-> IF g = f THEN Truth(f) ELSE cached[g]]
    /\ UNCHANGED <<notes, misses>>

\* Mutant of Noted: only what leaves the family empty is noted once, by nobody.
NotedNowhere(f) == notes

\* The notes after the read of f failed: optional notes it whether or not it has a
\* last known value, the histories only when they have none.
Noted(f) ==
    IF f.kind \in Optional \/ f \notin DOMAIN cached THEN notes \cup {Scope(f)} ELSE notes

\* Coolify fails: the last known value, or the fallback, which is empty.
ReadFails(f) ==
    /\ f \in pending /\ misses < MaxMisses
    /\ f.kind = "applications" => f \in DOMAIN cached
    /\ Got(f, IF f \in DOMAIN cached THEN cached[f] ELSE {})
    /\ notes' = Noted(f)
    /\ misses' = misses + 1
    /\ UNCHANGED cached

\* Without the applications there is no dashboard: the request is rejected.
BuildFails ==
    /\ Global("applications") \in pending \ DOMAIN cached
    /\ stage' = "idle" /\ pending' = {} /\ got' = [f \in {} |-> {}] /\ notes' = {} /\ misses' = 0
    /\ asked' = None
    /\ UNCHANGED <<fate, cached, weekAgo, answer>>

\* Everything was read: the row of the hour may be due, and the payload is sent.  What
\* is running comes first, and some of what ended fills the table up.
Answer ==
    LET here == InEnvironment(got)
        env == Picked(got)
        running == {r \in got[Global("running")] : AppOf[r] \in here}
        ended == {d.run : d \in {e \in UNION {got[Family("deployments", a)] : a \in here} :
                                   DeploymentState(e.status) # "running"}}
        room == AtLeast0(MaxRows - Cardinality(running))
    IN
    /\ stage = "answer"
    /\ \E newest \in SUBSET ended :
         /\ Cardinality(newest) = IF Cardinality(ended) < room THEN Cardinality(ended) ELSE room
         /\ answer' = [asked |-> asked, environment |-> env, apps |-> here,
                       running |-> running, ended |-> newest,
                       trend |-> CountTrend(Cardinality(here), weekAgo[env]),
                       notes |-> notes \cup (IF Known(got) = {} THEN {"everything"} ELSE {})]
    /\ \/ env \in Charted /\ weekAgo' = [weekAgo EXCEPT ![env] = Cardinality(here)]
       \/ UNCHANGED weekAgo
    /\ stage' = "idle" /\ asked' = None
    /\ got' = [f \in {} |-> {}] /\ notes' = {} /\ misses' = 0
    /\ UNCHANGED <<fate, cached, pending>>

-----------------------------------------------------------------------------
(* Around the build. *)

RunStarts(r) ==
    /\ fate[r] = "unborn"
    /\ fate' = [fate EXCEPT ![r] = "in_progress"]
    /\ UNCHANGED <<cached, stage, asked, pending, got, notes, misses, weekAgo, answer>>

RunEnds(r, how) ==
    /\ fate[r] \in Pending
    /\ fate' = [fate EXCEPT ![r] = how]
    /\ UNCHANGED <<cached, stage, asked, pending, got, notes, misses, weekAgo, answer>>

\* invalidate('deployments'): an action, a webhook or the poller says they changed.
ForgetDeployments ==
    /\ cached' = [f \in {g \in DOMAIN cached : g.kind \notin {"deployments", "running"}} |-> cached[f]]
    /\ UNCHANGED <<fate, stage, asked, pending, got, notes, misses, weekAgo, answer>>

OverviewNext ==
    \/ \E env \in Names \cup {None} : BuildStarts(env)
    \/ Advance
    \/ \E f \in pending : ReadCached(f)
    \/ \E f \in pending : ReadLoaded(f)
    \/ \E f \in pending : ReadFails(f)
    \/ BuildFails
    \/ Answer
    \/ \E r \in Rollout : RunStarts(r)
    \/ \E r \in Rollout, how \in Terminal : RunEnds(r, how)
    \/ ForgetDeployments

OverviewSpec == OverviewInit /\ [][OverviewNext]_overviewVars

-----------------------------------------------------------------------------
(* Requirements. *)

Answered == answer # NoAnswer

\* "one entry per thing it is rendering without a real source": a payload whose
\* applications are not those of the environment that was asked for says so, nothing
\* of another environment is in it without "showing every resource of the team", and no
\* deployment is said to have ended before it did.
ShownOrNoted ==
    Answered =>
      LET here == {a \in EnvApp : NameOf[HomeEnv[a]] = answer.environment} IN
      /\ \/ answer.notes \cap {"environments", "everything"} # {}
         \/ answer.apps = here /\ answer.asked \in {answer.environment, None}
      /\ answer.apps \subseteq here \/ "everything" \in answer.notes
      /\ \A r \in answer.running \cup answer.ended : AppOf[r] \in answer.apps
      /\ \A r \in answer.ended : fate[r] \in Terminal

\* The code does not keep this one; the README says why.  "Never invent a number": a
\* payload that has nothing to explain shows no growth and no loss of applications
\* where there was none.
NoPhantomTrend == Answered /\ answer.notes = {} => answer.trend = "neutral"
=============================================================================
