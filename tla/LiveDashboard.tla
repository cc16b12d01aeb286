--------------------------- MODULE LiveDashboard ---------------------------
(***************************************************************************)
(* One browser tab: the hook of src/hooks/useLiveDashboard.ts that owns    *)
(* the payload, its refetches and the promises of pending Deploy buttons.  *)
(*                                                                         *)
(* One step is one event-loop run of the page.  A timer, once set, may     *)
(* fire at any later step: no delay of the hook is measured, which allows  *)
(* every order the delays allow and more.                                  *)
(***************************************************************************)
EXTENDS Naturals, FiniteSets

CONSTANTS
    Env,           \* environments of the team
    Deployment,
    HomeOf,        \* Deployment -> the environment of its application
    DefaultEnv,    \* what the BFF picks when none is asked for
    NoEnv,         \* null: none asked for yet
    NoData,        \* nothing shown yet
    MaxVersion,    \* bound: changes upstream
    MaxSwitches    \* bound: environment changes by the user

ASSUME DashboardConstants ==
    /\ HomeOf \in [Deployment -> Env]
    /\ DefaultEnv \in Env
    /\ NoEnv \notin Env
    /\ MaxVersion \in Nat /\ MaxSwitches \in Nat

VARIABLES
    mounted,
    environment,   \* requestedEnv
    fetching,      \* the hook's flag
    requests,      \* the overview requests in flight
    refetchQueued,
    coalesce,      \* a reload is scheduled
    connected,     \* the event stream is up, as far as the hook knows
    data,          \* the payload shown
    error,         \* an error is shown
    waiters,       \* deployment -> waiter, for those a button waits on
    asked,         \* deploys whose answer is on its way
    dep,           \* Deployment -> what it is in Coolify
    version,       \* changes upstream so far
    switches,
    pushed         \* history: the version at the last push heard

page == <<mounted, environment, connected>>
loads == <<fetching, requests, refetchQueued>>
screen == <<data, error>>
hook == <<page, loads, screen, coalesce, waiters>>
user == <<asked, switches>>
upstream == <<dep, version>>
vars == <<hook, user, upstream, pushed>>

Version == 0 .. MaxVersion

\* What /app/overview answers; `whole` unless the running list could not be read.
Payload == [env : Env, ver : Version, running : SUBSET Deployment, whole : BOOLEAN]

Request == [env : Env \cup {NoEnv}, reply : Payload \cup {NoData}]

\* `due`: expiresAt has passed.
Waiter == [sawRunning : BOOLEAN, due : BOOLEAN]

TypeOK ==
    /\ mounted \in BOOLEAN /\ fetching \in BOOLEAN /\ refetchQueued \in BOOLEAN
    /\ coalesce \in BOOLEAN /\ connected \in BOOLEAN /\ error \in BOOLEAN
    /\ environment \in Env \cup {NoEnv}
    /\ requests \subseteq Request
    /\ data \in Payload \cup {NoData}
    /\ waiters \in UNION {[D -> Waiter] : D \in SUBSET Deployment}
    /\ asked \subseteq Deployment
    /\ dep \in [Deployment -> {"none", "running", "ended"}]
    /\ version \in Version /\ pushed \in Version
    /\ switches \in 0 .. MaxSwitches
    \* An unmounted hook has neither stream nor timer.
    /\ (coalesce \/ connected) => mounted

Asking(env) == [env |-> env, reply |-> NoData]

\* The effects of the first render have run.
Init ==
    /\ mounted = TRUE
    /\ environment = NoEnv
    /\ fetching = TRUE /\ requests = {Asking(NoEnv)}
    /\ refetchQueued = FALSE
    /\ coalesce = FALSE
    /\ connected = FALSE
    /\ data = NoData /\ error = FALSE
    /\ waiters = [d \in {} |-> {}]
    /\ asked = {}
    /\ dep = [d \in Deployment |-> "none"]
    /\ version = 0 /\ pushed = 0
    /\ switches = 0

-----------------------------------------------------------------------------
(* Loading. *)

\* Mutants of Load: nothing keeps two requests apart; a call during a request is
\* forgotten.
LoadOverlapping(env) ==
    /\ fetching' = TRUE
    /\ requests' = requests \cup {Asking(env)}
    /\ UNCHANGED refetchQueued

LoadForgotten(env) ==
    /\ fetching' = TRUE
    /\ requests' = IF fetching THEN requests ELSE requests \cup {Asking(env)}
    /\ UNCHANGED refetchQueued

\* load(), with `env` asked for: one request at a time, and one more owed when called during it.
Load(env) ==
    IF fetching
    THEN /\ refetchQueued' = TRUE
         /\ UNCHANGED <<fetching, requests>>
    ELSE /\ fetching' = TRUE
         /\ requests' = requests \cup {Asking(env)}
         /\ UNCHANGED refetchQueued

\* Mutant of Current: whatever arrives is for the environment on screen.
CurrentAlways(r) == mounted

Current(r) == mounted /\ r.env = environment

\* load()'s finally, `queued` being what it finds in refetchQueued.
Finally(r, queued) ==
    IF queued /\ mounted
    THEN /\ refetchQueued' = FALSE
         /\ fetching' = TRUE
         /\ requests' = (requests \ {r}) \cup {Asking(environment)}
    ELSE /\ refetchQueued' = queued
         /\ fetching' = FALSE
         /\ requests' = requests \ {r}

\* Mutants of Over: absence alone ends a wait; one never seen is waited
\* for whatever its grace.
OverUnseen(d, running) == d \notin running

OverWhenSeen(d, running) == d \notin running /\ waiters[d].sawRunning

\* settleWaiters: a payload without the deployment ends the wait once the
\* deployment was seen running or its grace is over.
Over(d, running) ==
    /\ d \notin running
    /\ waiters[d].sawRunning \/ waiters[d].due

\* The waiters a payload leaves; expiresAt moves when one is first seen running.
Settled(running) ==
    [d \in {e \in DOMAIN waiters : ~Over(e, running)} |->
       IF d \in running /\ ~waiters[d].sawRunning
       THEN [sawRunning |-> TRUE, due |-> FALSE]
       ELSE waiters[d]]

\* The BFF answers with the requested environment's state now.
Serve(r, whole) ==
    LET env == IF r.env = NoEnv THEN DefaultEnv ELSE r.env
        here == {d \in Deployment : dep[d] = "running" /\ HomeOf[d] = env}
    IN
    /\ r.reply = NoData
    /\ requests' = (requests \ {r}) \cup
         {[r EXCEPT !.reply = [env |-> env, ver |-> version, whole |-> whole,
                               running |-> IF whole THEN here ELSE {}]]}
    /\ UNCHANGED <<page, fetching, refetchQueued, screen, coalesce, waiters, user,
                   upstream, pushed>>

\* The answer arrives: shown if it is for the environment still asked for.
Arrives(r) ==
    /\ r.reply # NoData
    /\ \/ /\ Current(r)
          /\ data' = r.reply
          /\ error' = FALSE
          /\ waiters' = Settled(r.reply.running)
          /\ Finally(r, refetchQueued)
       \/ /\ ~Current(r)
          /\ Finally(r, refetchQueued \/ mounted)
          /\ UNCHANGED <<screen, waiters>>
    /\ UNCHANGED <<page, coalesce, user, upstream, pushed>>

\* The request fails, its connection or the BFF.
Fails(r) ==
    /\ error' = (error \/ Current(r))
    /\ Finally(r, refetchQueued)
    /\ UNCHANGED <<page, coalesce, data, waiters, user, upstream, pushed>>

-----------------------------------------------------------------------------
(* The push channel and the timers. *)

\* scheduleReload, from a push; a timer already set starts again.
ScheduleReload == coalesce' = TRUE /\ pushed' = version

Hello ==
    /\ mounted /\ ~connected
    /\ connected' = TRUE
    /\ ScheduleReload
    /\ UNCHANGED <<mounted, environment, loads, screen, waiters, user, upstream>>

Offline ==
    /\ mounted /\ connected
    /\ connected' = FALSE
    /\ UNCHANGED <<mounted, environment, loads, screen, coalesce, waiters, user,
                   upstream, pushed>>

OverviewChanged ==
    /\ mounted /\ connected
    /\ ScheduleReload
    /\ UNCHANGED <<page, loads, screen, waiters, user, upstream>>

DeploymentFinished(d) ==
    /\ mounted /\ connected
    /\ dep[d] = "ended"
    /\ waiters' = [e \in DOMAIN waiters \ {d} |-> waiters[e]]
    /\ ScheduleReload
    /\ UNCHANGED <<page, loads, screen, user, upstream>>

CoalesceFires ==
    /\ coalesce
    /\ coalesce' = FALSE
    /\ Load(environment)
    /\ UNCHANGED <<page, screen, waiters, user, upstream, pushed>>

PollFires ==
    /\ mounted
    /\ Load(environment)
    /\ UNCHANGED <<page, screen, coalesce, waiters, user, upstream, pushed>>

\* Time passes over a waiter's expiresAt.
Expires(d) ==
    /\ d \in DOMAIN waiters
    /\ waiters' = [waiters EXCEPT ![d].due = TRUE]
    /\ UNCHANGED <<page, loads, screen, coalesce, user, upstream, pushed>>

-----------------------------------------------------------------------------
(* The user, and Coolify. *)

\* The environment is chosen: the render and its effect, which loads.
SetEnvironment(env) ==
    /\ mounted
    /\ env # environment
    /\ switches < MaxSwitches
    /\ switches' = switches + 1
    /\ environment' = env
    /\ Load(env)
    /\ UNCHANGED <<mounted, connected, screen, coalesce, waiters, asked, upstream,
                   pushed>>

\* The Retry button, and every write's answer.
Reload ==
    /\ mounted
    /\ error' = FALSE
    /\ Load(environment)
    /\ UNCHANGED <<page, data, coalesce, waiters, user, upstream, pushed>>

\* The Deploy button's request reaches Coolify.
Deploy(d) ==
    /\ mounted
    /\ dep[d] = "none" /\ version < MaxVersion
    /\ dep' = [dep EXCEPT ![d] = "running"]
    /\ version' = version + 1
    /\ asked' = asked \cup {d}
    /\ UNCHANGED <<hook, switches, pushed>>

\* Its answer: reload, then awaitDeployment - whether still mounted or not.
DeployAnswered(d) ==
    /\ d \in asked
    /\ asked' = asked \ {d}
    /\ error' = FALSE
    /\ Load(environment)
    /\ waiters' = [e \in DOMAIN waiters \cup {d} |->
                     IF e \in DOMAIN waiters THEN waiters[e]
                     ELSE [sawRunning |-> FALSE, due |-> FALSE]]
    /\ UNCHANGED <<page, data, coalesce, upstream, switches, pushed>>

\* Mutant of Unmount: the scheduled reload is left to fire.
UnmountUncleared ==
    /\ mounted
    /\ mounted' = FALSE /\ connected' = FALSE
    /\ waiters' = [d \in {} |-> {}]
    /\ UNCHANGED <<environment, loads, screen, coalesce, user, upstream, pushed>>

\* The shell goes away: the cleanups of the hook's effects.
Unmount ==
    /\ mounted
    /\ mounted' = FALSE /\ connected' = FALSE /\ coalesce' = FALSE
    /\ waiters' = [d \in {} |-> {}]
    /\ UNCHANGED <<environment, loads, screen, user, upstream, pushed>>

\* A deployment ends, or anything else changes.
Ends(d) ==
    /\ dep[d] = "running" /\ version < MaxVersion
    /\ dep' = [dep EXCEPT ![d] = "ended"]
    /\ version' = version + 1
    /\ UNCHANGED <<hook, user, pushed>>

Changes ==
    /\ version < MaxVersion
    /\ version' = version + 1
    /\ UNCHANGED <<hook, user, dep, pushed>>

Next ==
    \/ \E r \in requests, whole \in BOOLEAN : Serve(r, whole)
    \/ \E r \in requests : Arrives(r)
    \/ \E r \in requests : Fails(r)
    \/ Hello \/ Offline \/ OverviewChanged
    \/ \E d \in Deployment : DeploymentFinished(d)
    \/ CoalesceFires \/ PollFires
    \/ \E d \in Deployment : Expires(d)
    \/ \E env \in Env : SetEnvironment(env)
    \/ Reload
    \/ \E d \in Deployment : Deploy(d)
    \/ \E d \in Deployment : DeployAnswered(d)
    \/ Unmount
    \/ \E d \in Deployment : Ends(d)
    \/ Changes

\* Requests settle, and a request made over and over succeeds at last; timers
\* fire.  The poll is not fair here: a hidden tab may hold it back for long.
Served == \E r \in requests, whole \in BOOLEAN : Serve(r, whole)
Answered == \E r \in requests : Arrives(r)
Ended == \E r \in requests : Arrives(r) \/ Fails(r)

Fairness ==
    /\ WF_vars(Ended) /\ SF_vars(Served) /\ SF_vars(Answered)
    /\ WF_vars(CoalesceFires)
    /\ \A d \in Deployment : WF_vars(Expires(d))

Spec == Init /\ [][Next]_vars /\ Fairness

-----------------------------------------------------------------------------
(* Requirements. *)

\* "Refetches are coalesced and never overlap", and the one that was owed when a
\* push landed mid-flight is not lost: it is owed only while a request is out.
NeverOverlap ==
    /\ Cardinality(requests) <= 1
    /\ fetching <=> requests # {}
    /\ (refetchQueued /\ mounted) => fetching

\* "An answer for the previous [environment] would repaint the whole dashboard
\* with the wrong resources": what replaces the screen is what was asked for last,
\* and an error shown is about that too.
OnlyWhatIsAskedFor ==
    [][/\ data' # data => /\ mounted
                          /\ data'.env = (IF environment = NoEnv THEN DefaultEnv
                                          ELSE environment)
       /\ (error' /\ ~error) => \E r \in requests : r.env = environment]_vars

\* What an environment shows never goes back in time.
ShownForwards ==
    [][(data # NoData /\ data' # NoData /\ data.env = data'.env)
         => data'.ver >= data.ver]_vars

\* A push reaches the screen without the help of the poll: what it announced is
\* shown in the end, or an error is, or nobody looks any more.
PushReachesScreen ==
    \A v \in Version :
        (pushed = v /\ mounted)
            ~> ((data # NoData /\ data.ver >= v) \/ error \/ ~mounted)

\* A Deploy button is not released while its build runs by a payload that covers
\* the build, unless the grace for a build never seen was over.
HeldWhileBuilding ==
    [][\A d \in DOMAIN waiters \ DOMAIN waiters' :
         dep[d] = "running" =>
           \/ ~mounted'
           \/ waiters[d].due
           \/ ~data'.whole \/ data'.env # HomeOf[d]]_vars

\* The two paths agree: even if no push ever comes, polling releases the button of
\* a build that has ended.
ButtonReleased ==
    WF_vars(PollFires) =>
      \A d \in Deployment :
        (d \in DOMAIN waiters /\ dep[d] = "ended" /\ mounted)
            ~> (d \notin DOMAIN waiters \/ ~mounted)

\* useActions.ts: deployAndWatch "stays pending until the live channel says the
\* build ended".
PendingUntilEnded ==
    [][\A d \in DOMAIN waiters \ DOMAIN waiters' :
         dep[d] = "running" => ~mounted' \/ waiters[d].due]_vars

\* useLiveDashboard.ts: "Nothing waits on a build forever, whatever the channel
\* does."
NothingWaitsForever ==
    WF_vars(PollFires) =>
      \A d \in Deployment :
        (d \in DOMAIN waiters /\ mounted) ~> (d \notin DOMAIN waiters \/ ~mounted)
=============================================================================
