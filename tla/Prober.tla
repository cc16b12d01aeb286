-------------------------------- MODULE Prober --------------------------------
(***************************************************************************)
(* The outbound probes, server/probes.ts: a self-rescheduling cycle that   *)
(* reads the fleet, checks every application over HTTP - and its           *)
(* certificate when that is due - and then every server over TCP, a few at *)
(* a time.  It is cut where the code awaits.                               *)
(*                                                                         *)
(* When the store rejects a result the cycle fails, but the other workers  *)
(* of its fan-out go on: they are the stray pool.                          *)
(***************************************************************************)
EXTENDS MapLimit

CONSTANTS
    App,
    Fqdn,         \* App -> its address: "http://", "https://", "bare", "odd" or "none"
    Only,         \* PROBE_APPS; {} is all of them
    Broken,       \* applications in every fleet that never answer
    Server,
    WithIp,       \* servers that have an address
    Down,         \* FAILURES_BEFORE_DOWN
    TlsEvery,     \* tlsIntervalMs, in cycles
    PruneEvery,   \* an hour, in cycles
    Overlap       \* whether a cycle may start while a stray pool is still at work

ASSUME ProberConstants ==
    /\ IsFiniteSet(App) /\ IsFiniteSet(Server)
    /\ Fqdn \in [App -> {"http://", "https://", "bare", "odd", "none"}]
    /\ Only \subseteq App /\ Broken \subseteq App /\ WithIp \subseteq Server
    /\ App \cap Server = {}
    /\ Down \in Nat \ {0} /\ TlsEvery \in Nat \ {0} /\ PruneEvery \in Nat \ {0}
    /\ Overlap \in BOOLEAN

VARIABLES
    probing,      \* start() was called, stop() not since
    probeTimer,        \* a timer is set
    probePhase,        \* inFlight: "none", or what the cycle awaits
    pools,        \* "cycle": the fan-out awaited; "stray": what a failed one left
    probed,        \* the applications and servers of the last cycle that read them
    applications, \* App -> its entry, for those known
    servers,      \* Server -> its entry, for those known
    sincePruned,       \* cycles since the store was pruned, up to PruneEvery
    told          \* history: App -> the last toast about it; "again" repeats one

proberVars == <<probing, probeTimer, probePhase, pools, probed, applications, servers,
                sincePruned, told>>

\* An entry: failures in a row, counted up to Down + 1, and the age of the last
\* certificate check in cycles; at TlsEvery there is none, or it is due.
ProbeEntry == [failures : 0 .. Down + 1, tls : 0 .. TlsEvery]
Fresh == [failures |-> 0, tls |-> TlsEvery]

\* A call in flight: the HTTP check with the entry read before it, or the TLS one.
ProbeCall == [stage : {"http", "tls", "tcp"}, previous : ProbeEntry]

ProbeMap(S, T) == UNION {[D -> T] : D \in SUBSET S}

ProberTypeOK ==
    /\ probing \in BOOLEAN /\ probeTimer \in BOOLEAN
    /\ probePhase \in {"none", "targets", "applications", "servers"}
    /\ Idle(pools["cycle"]) <=> probePhase \in {"none", "targets"}
    /\ DOMAIN pools = {"cycle", "stray"}
    /\ \A k \in DOMAIN pools :
         /\ pools[k].left \subseteq App \cup Server
         /\ DOMAIN pools[k].at \subseteq App \cup Server
         /\ \A i \in DOMAIN pools[k].at : pools[k].at[i] \in ProbeCall
    /\ probed \subseteq App \cup Server
    /\ applications \in ProbeMap(App, ProbeEntry)
    /\ servers \in ProbeMap(Server, BOOLEAN)
    /\ sincePruned \in 0 .. PruneEvery
    /\ told \in [App -> {"up", "down", "again"}]

ProberInit ==
    /\ probing = FALSE /\ probeTimer = FALSE
    /\ probePhase = "none"
    /\ pools = [k \in {"cycle", "stray"} |-> IdlePool]
    /\ probed = {}
    /\ applications = [a \in {} |-> Fresh]
    /\ servers = [s \in {} |-> TRUE]
    /\ sincePruned = PruneEvery
    /\ told = [a \in App |-> "up"]

\* run(): a cycle starts unless one is in flight; it asks for the targets.
ProbeRun == probePhase' = IF probePhase = "none" THEN "targets" ELSE probePhase

\* start() of a stopped prober; of a running one it does nothing.
StartProber ==
    /\ ~probing
    /\ Overlap \/ Idle(pools["stray"])
    /\ probing' = TRUE
    /\ ProbeRun
    /\ UNCHANGED <<probeTimer, pools, probed, applications, servers, sincePruned, told>>

\* stop(): a cycle in flight goes on.
StopProber ==
    /\ probing
    /\ probing' = FALSE /\ probeTimer' = FALSE
    /\ UNCHANGED <<probePhase, pools, probed, applications, servers, sincePruned, told>>

\* httpTargets: what the operator left in and parseTarget makes a URL of - the scheme
\* may be missing, any other than http and https is refused.
HttpTargets(apps) ==
    {a \in apps : /\ Only = {} \/ a \in Only
                  /\ Fqdn[a] \in {"http://", "https://", "bare"}}

Https == {a \in App : Fqdn[a] \in {"https://", "bare"}}

\* tcpTargets: the servers that have an address.
TcpTargets(hosts) == hosts \cap WithIp

\* checkHttp: any answer below 500 is up, a redirect or a refusal too; a 5xx, and nothing
\* within timeoutMs, are down.
Answer == {"below 500", "5xx", "nothing"}
IsUp(answer) == answer = "below 500"

Older(entry) == [entry EXCEPT !.tls = IF @ < TlsEvery THEN @ + 1 ELSE @]
WithOlder(call) == [call EXCEPT !.previous = Older(@)]

\* The timer fires, an interval after it was set.
ProbeTimerFires ==
    /\ probeTimer
    /\ Overlap \/ Idle(pools["stray"])
    /\ probeTimer' = FALSE
    /\ ProbeRun
    /\ applications' = [a \in DOMAIN applications |-> Older(applications[a])]
    /\ pools' = [pools EXCEPT !["stray"].at =
                   [a \in DOMAIN @ |-> WithOlder(@[a])]]
    /\ sincePruned' = IF sincePruned < PruneEvery THEN sincePruned + 1 ELSE sincePruned
    /\ UNCHANGED <<probing, probed, servers, told>>

\* Mutant of ProbeSettled: a cycle that failed does not set the timer again.
ProbeSettledSilently == probePhase' = "none" /\ UNCHANGED probeTimer

\* The cycle's promise settled: finally, schedule().
ProbeSettled == probePhase' = "none" /\ probeTimer' = probing

\* What the calls of a fan-out over applications begin with, `known` being the map.
Before(known) ==
    [a \in App |-> [stage |-> "http",
                    previous |-> IF a \in DOMAIN known THEN known[a] ELSE Fresh]]

Knock == [s \in Server |-> [stage |-> "tcp", previous |-> Fresh]]

\* Both fan-outs are over: the run is noted and, hourly, the store pruned.
ProbeCycleEnds ==
    /\ ProbeSettled
    /\ pools' = [pools EXCEPT !["cycle"] = IdlePool]
    /\ sincePruned' = IF sincePruned = PruneEvery THEN 0 ELSE sincePruned

\* The applications are done, and the servers S are next.
ServersNext(S) ==
    IF S = {} THEN ProbeCycleEnds
    ELSE \E batch \in FirstBatch(S) :
           /\ probePhase' = "servers"
           /\ pools' = [pools EXCEPT !["cycle"] = Launched(S, batch, Knock)]
           /\ UNCHANGED <<probeTimer, sincePruned>>

\* The fan-out over the applications A, then the one over the servers S.
ProbeFanOut(A, S) ==
    IF A = {} THEN ServersNext(S)
    ELSE \E batch \in FirstBatch(A) :
           /\ probePhase' = "applications"
           /\ pools' = [pools EXCEPT !["cycle"] = Launched(A, batch, Before(applications'))]
           /\ UNCHANGED <<probeTimer, sincePruned>>

\* Mutant of ProbeTargetsRead: what left the fleet is kept.
ProbeTargetsReadKeeping(apps, hosts) ==
    /\ probePhase = "targets"
    /\ Broken \subseteq apps
    /\ probed' = HttpTargets(apps) \cup TcpTargets(hosts)
    /\ UNCHANGED <<probing, applications, servers, told>>
    /\ ProbeFanOut(HttpTargets(apps), TcpTargets(hosts))

\* The fleet was read: what is no longer in it is dropped, then the fan-outs start.
ProbeTargetsRead(apps, hosts) ==
    LET A == HttpTargets(apps) S == TcpTargets(hosts) IN
    /\ probePhase = "targets"
    /\ Broken \subseteq apps
    /\ probed' = A \cup S
    /\ applications' = [a \in DOMAIN applications \cap A |-> applications[a]]
    /\ told' = [a \in App |-> IF a \in DOMAIN applications \ A THEN "up" ELSE told[a]]
    /\ servers' = [s \in DOMAIN servers \cap S |-> servers[s]]
    /\ UNCHANGED probing
    /\ ProbeFanOut(A, S)

\* The fleet could not be read: what is known is kept.
ProbeTargetsFail ==
    /\ probePhase = "targets"
    /\ ProbeSettled
    /\ UNCHANGED <<probing, pools, probed, applications, servers, sincePruned, told>>

\* The worker of pool k at item i goes on; the last one ends the fan-out.
ProberGoesOn(k, i, start) ==
    \E next \in Onwards(pools[k].left) :
      LET pool == Advanced(pools[k], i, next, start) IN
      IF k = "stray" \/ ~Idle(pool)
      THEN /\ pools' = [pools EXCEPT ![k] = pool]
           /\ UNCHANGED <<probePhase, probeTimer, sincePruned>>
      ELSE IF probePhase = "applications" THEN ServersNext(probed \cap Server) ELSE ProbeCycleEnds

\* Mutant of Announced: the outage is said at every failure from Down on.
AnnouncedRepeatedly(before, ok, failures, last) ==
    IF ~ok /\ failures >= Down THEN (IF last = "up" THEN "down" ELSE "again")
    ELSE IF ok /\ before >= Down THEN (IF last = "down" THEN "up" ELSE "again")
    ELSE last

\* announce: exactly at the threshold, and the recovery only of what was down.
Announced(before, ok, failures, last) ==
    IF ~ok /\ failures = Down THEN (IF last = "up" THEN "down" ELSE "again")
    ELSE IF ok /\ before >= Down THEN (IF last = "down" THEN "up" ELSE "again")
    ELSE last

\* The HTTP check of application a is answered, and the store takes the sample.
\* previous is what was known before the check was sent.
HttpAnswered(k, a, answer) ==
    LET previous == pools[k].at[a].previous
        ok == IsUp(answer)
        failures == IF ok THEN 0
                    ELSE IF previous.failures > Down THEN previous.failures
                    ELSE previous.failures + 1
    IN
    /\ pools[k].at[a].stage = "http"
    /\ a \in Broken => ~ok
    /\ applications' = [b \in DOMAIN applications \cup {a} |->
                          IF b = a THEN [failures |-> failures, tls |-> previous.tls]
                          ELSE applications[b]]
    /\ told' = [told EXCEPT ![a] = Announced(previous.failures, ok, failures, @)]
    /\ UNCHANGED <<probing, probed, servers>>
    /\ IF a \in Https /\ previous.tls = TlsEvery
       THEN /\ pools' = [pools EXCEPT ![k].at[a].stage = "tls"]
            /\ UNCHANGED <<probePhase, probeTimer, sincePruned>>
       ELSE ProberGoesOn(k, a, Before(applications'))

\* The store rejects the sample: the worker ends.  If its fan-out was awaited, the
\* cycle fails and the other workers are left to themselves.  Bound: one stray pool.
RecordFails(k, a) ==
    LET pool == Dropped(pools[k], a) IN
    /\ pools[k].at[a].stage = "http"
    /\ \/ /\ k = "stray"
          /\ pools' = [pools EXCEPT ![k] = IF Idle(pool) THEN IdlePool ELSE pool]
          /\ UNCHANGED <<probeTimer, probePhase>>
       \/ /\ k = "cycle"
          /\ Idle(pools["stray"])
          /\ pools' = [pools EXCEPT !["cycle"] = IdlePool,
                                    !["stray"] = IF Idle(pool) THEN IdlePool ELSE pool]
          /\ ProbeSettled
    /\ UNCHANGED <<probing, probed, applications, servers, sincePruned, told>>

\* The certificate check ended, one way or another: it is noted on the entry that is
\* there by now, if any.
TlsAnswered(k, a) ==
    /\ pools[k].at[a].stage = "tls"
    /\ applications' = [b \in DOMAIN applications |->
                          IF b = a THEN [applications[b] EXCEPT !.tls = 0]
                          ELSE applications[b]]
    /\ UNCHANGED <<probing, probed, servers, told>>
    /\ ProberGoesOn(k, a, Before(applications'))

\* The TCP check of server s ended.
TcpAnswered(s, ok) ==
    /\ probePhase = "servers"
    /\ servers' = [t \in DOMAIN servers \cup {s} |-> IF t = s THEN ok ELSE servers[t]]
    /\ UNCHANGED <<probing, probed, applications, told>>
    /\ ProberGoesOn("cycle", s, Knock)

AppCalls(k) == DOMAIN pools[k].at \cap App

ProberNext ==
    \/ StartProber \/ StopProber \/ ProbeTimerFires
    \/ \E apps \in SUBSET App, hosts \in SUBSET Server : ProbeTargetsRead(apps, hosts)
    \/ ProbeTargetsFail
    \/ \E k \in {"cycle", "stray"} : \E a \in AppCalls(k), answer \in Answer : HttpAnswered(k, a, answer)
    \/ \E k \in {"cycle", "stray"} : \E a \in AppCalls(k) : RecordFails(k, a)
    \/ \E k \in {"cycle", "stray"} : \E a \in AppCalls(k) : TlsAnswered(k, a)
    \/ \E s \in DOMAIN pools["cycle"].at \cap Server, ok \in BOOLEAN : TcpAnswered(s, ok)

\* Requests end by their own timeout, timers fire, and both Coolify and the store
\* answer again and again if they are asked again and again.
ProberFairness ==
    /\ WF_proberVars(ProbeTimerFires)
    /\ WF_proberVars(ProbeTargetsFail)
    /\ SF_proberVars(\E apps \in SUBSET App, hosts \in SUBSET Server : ProbeTargetsRead(apps, hosts))
    /\ \A k \in {"cycle", "stray"}, a \in App :
         /\ SF_proberVars(a \in AppCalls(k) /\ \E answer \in Answer : HttpAnswered(k, a, answer))
         /\ WF_proberVars(a \in AppCalls(k) /\ TlsAnswered(k, a))
    /\ \A s \in Server :
         WF_proberVars(s \in DOMAIN pools["cycle"].at /\ \E ok \in BOOLEAN : TcpAnswered(s, ok))

ProberSpec == ProberInit /\ [][ProberNext]_proberVars /\ ProberFairness

-----------------------------------------------------------------------------
(* Requirements. *)

\* Whatever a cycle meets - a fleet that cannot be read, a store that rejects - the
\* next one is set, and none starts while another is in flight.
ProbeLoop == INSTANCE SelfScheduling WITH
    running <- probing, armed <- probeTimer, busy <- probePhase # "none"
ProberSchedulesItself == ProbeLoop!Spec

\* "keeps a 40-application team from opening 40 sockets at once": with the workers
\* of a failed cycle counted, no more than Limit checks are out.
AtMostLimit ==
    Cardinality(DOMAIN pools["cycle"].at) + Cardinality(DOMAIN pools["stray"].at) <= Limit

\* "a deleted application stops showing an uptime": a late answer, of a certificate
\* or of a stray worker, brings back nothing that left the fleet.
NothingComesBack == DOMAIN applications \cup DOMAIN servers \subseteq probed

\* Announcements follow the measurements, through failing cycles and fleets that
\* change: the prober implements the outage detector.
Outages == INSTANCE OutageDetector WITH
    streak <- [a \in App |-> IF a \in DOMAIN applications THEN applications[a].failures ELSE 0],
    said <- told
ImplementsOutages == Outages!Spec

\* An application that never answers is said to be down as long as the prober runs,
\* even if others make cycles fail again and again.
OutageNoticed ==
    \A a \in HttpTargets(Broken) : <>[]probing => <>[](told[a] = "down")
=============================================================================
