------------------------------- MODULE Collector -------------------------------
(***************************************************************************)
(* The metrics collector, server/metrics.ts: while a browser watches, one  *)
(* SSH round trip per server and interval to its Sentinel agent, with the  *)
(* token that Coolify gives and the BFF caches (server/index.ts).          *)
(*                                                                         *)
(* Time is counted in intervals.  A gauge is a number of half percents, so *)
(* that two values may round to the same percent.                          *)
(***************************************************************************)
EXTENDS MapLimit

CONSTANTS
    Host,          \* servers of the fleet
    MaxGauge,      \* bound: half percents
    StaleAfter,    \* STALE_AFTER_MS, in intervals
    MaxTokens      \* bound: Host -> tokens Coolify generates for it

ASSUME CollectorConstants ==
    /\ IsFiniteSet(Host)
    /\ MaxGauge \in Nat /\ StaleAfter \in Nat
    /\ MaxTokens \in [Host -> Nat \ {0}]

VARIABLES
    collecting,    \* start() was called, stop() not since
    collectTimer,  \* a timer is set
    collectPhase,  \* inFlight: "none", or what the cycle awaits
    collectPool,   \* the fan-out of the cycle
    results,       \* what its calls have returned
    readings,      \* Host -> its reading, for those that have one
    since,         \* intervals since a cycle replaced them, up to past StaleAfter
    token,         \* Host -> the token Coolify has
    agent,         \* Host -> the token its Sentinel container was started with
    settings,      \* Host -> the cached settings
    distrusted,    \* history: Host -> its cached token was rejected
    moves          \* history: parity of the overview-changed pushes

collectorVars == <<collecting, collectTimer, collectPhase, collectPool, results,
                   readings, since, token, agent, settings, distrusted, moves>>

Source == {"sentinel", "sentinel-off", "stale", "error"}

\* A reading: its gauge, 0 when it has none, and the age its sample had when it was
\* read, which the note spells out.
Reading == [source : Source, gauge : 0 .. MaxGauge, noted : 0 .. StaleAfter]

Blank(source) == [source |-> source, gauge |-> 0, noted |-> 0]

\* Cached settings: fresh, past their TTL, or not there.
Settings == [state : {"none", "fresh", "old"}, token : Nat]
NoSettings == [state |-> "none", token |-> 0]

\* A call of collect: what it waits for, and the token it sends.
Collect == [stage : {"unreachable", "disabled", "settings", "ssh"}, token : Nat]

CollectorTypeOK ==
    /\ collecting \in BOOLEAN /\ collectTimer \in BOOLEAN
    /\ collectPhase \in {"none", "targets", "hosts"}
    /\ Idle(collectPool) <=> collectPhase \in {"none", "targets"}
    /\ collectPool.left \subseteq Host
    /\ \A h \in DOMAIN collectPool.at : h \in Host /\ collectPool.at[h] \in Collect
    /\ results \in UNION {[D -> Reading] : D \in SUBSET Host}
    /\ readings \in UNION {[D -> Reading] : D \in SUBSET Host}
    /\ since \in 0 .. StaleAfter + 1
    /\ \A h \in Host : token[h] \in 1 .. MaxTokens[h] /\ agent[h] \in 1 .. token[h]
    /\ settings \in [Host -> Settings]
    /\ distrusted \in [Host -> BOOLEAN]
    /\ moves \in {0, 1}

CollectorInit ==
    /\ collecting = FALSE /\ collectTimer = FALSE
    /\ collectPhase = "none"
    /\ collectPool = IdlePool
    /\ results = [h \in {} |-> Blank("error")]
    /\ readings = [h \in {} |-> Blank("error")] /\ since = 0
    /\ token = [h \in Host |-> 1] /\ agent = [h \in Host |-> 1]
    /\ settings = [h \in Host |-> NoSettings]
    /\ distrusted = [h \in Host |-> FALSE]
    /\ moves = 0

outside == <<token, agent, settings, distrusted>>

-----------------------------------------------------------------------------
(* The loop. *)

\* tick(): a cycle starts unless one is in flight.
CollectRun == collectPhase' = IF collectPhase = "none" THEN "targets" ELSE collectPhase

\* start() of a stopped collector: the first event stream opens.
StartCollector ==
    /\ ~collecting
    /\ collecting' = TRUE
    /\ CollectRun
    /\ UNCHANGED <<collectTimer, collectPool, results, readings, since, outside, moves>>

\* Mutant of StopCollector: the timer is left.
StopCollectorLeaky ==
    /\ collecting
    /\ collecting' = FALSE
    /\ UNCHANGED <<collectTimer, collectPhase, collectPool, results, readings, since, outside, moves>>

\* stop(): the last event stream closed.  A cycle in flight goes on.
StopCollector ==
    /\ collecting
    /\ collecting' = FALSE /\ collectTimer' = FALSE
    /\ UNCHANGED <<collectPhase, collectPool, results, readings, since, outside, moves>>

\* The cycle's promise settled: finally, schedule().
CollectSettled == collectPhase' = "none" /\ collectTimer' = collecting

\* Some reading shows a sample, and so grows old.
HasSample == \E h \in DOMAIN readings : readings[h].source = "sentinel"

\* An interval passes, and the timer fires if one is set.
IntervalPasses ==
    /\ collectTimer' = FALSE
    /\ IF collectTimer THEN CollectRun ELSE UNCHANGED collectPhase
    /\ since' = IF HasSample /\ since <= StaleAfter THEN since + 1 ELSE since
    /\ UNCHANGED <<collecting, collectPool, results, readings, outside, moves>>

-----------------------------------------------------------------------------
(* The cycle. *)

\* Mutant of VisiblyDiffers: the gauges are compared as they come.
VisiblyDiffersRaw(before, after) ==
    <<before.source, before.noted, before.gauge>> # <<after.source, after.noted, after.gauge>>

\* visiblyDiffers: another source, another note, or another whole percent.
VisiblyDiffers(before, after) ==
    \/ before.source # after.source
    \/ before.noted # after.noted
    \/ before.gauge \div 2 # after.gauge \div 2

\* All calls are back: the readings are replaced, and one push says so if any of
\* them looks different.
CycleEnds(found) ==
    /\ CollectSettled
    /\ collectPool' = IdlePool /\ since' = 0
    /\ results' = [h \in {} |-> Blank("error")]
    /\ readings' = [h \in DOMAIN readings \cup DOMAIN found |->
                      IF h \in DOMAIN found THEN found[h] ELSE readings[h]]
    /\ moves' = IF \E h \in DOMAIN found :
                     h \in DOMAIN readings => VisiblyDiffers(readings[h], found[h])
                THEN 1 - moves ELSE moves

\* What collect does first: without an agent to ask, it has its answer at once.
Opening(off, unreachable) ==
    [h \in Host |-> [stage |-> IF h \in unreachable THEN "unreachable"
                               ELSE IF h \in off THEN "disabled" ELSE "settings",
                     token |-> 0]]

\* The fleet was read, with what Coolify thinks of each server: servers that left
\* are dropped, and the fan-out starts.
HostsRead(fleet, off, unreachable) ==
    /\ collectPhase = "targets"
    /\ readings' = [h \in DOMAIN readings \cap fleet |-> readings[h]]
    /\ UNCHANGED <<collecting, results, since, outside, moves>>
    /\ \/ fleet = {} /\ CollectSettled /\ UNCHANGED collectPool
       \/ /\ fleet # {}
          /\ collectPhase' = "hosts"
          /\ \E batch \in FirstBatch(fleet) :
               collectPool' = Launched(fleet, batch, Opening(off, unreachable))
          /\ UNCHANGED collectTimer

\* The fleet could not be read: the readings stay as they are.
HostsFail ==
    /\ collectPhase = "targets"
    /\ CollectSettled
    /\ UNCHANGED <<collecting, collectPool, results, readings, since, outside, moves>>

\* collect(h) returns r, and its worker goes on.  Whether the next server can be
\* asked was settled when the fleet was read.
Returned(h, r) ==
    \E next \in Onwards(collectPool.left) : \E off \in SUBSET next : \E unreachable \in SUBSET (next \ off) :
      LET pool == Advanced(collectPool, h, next, Opening(off, unreachable))
          found == [g \in DOMAIN results \cup {h} |-> IF g = h THEN r ELSE results[g]]
      IN
      /\ UNCHANGED collecting
      /\ IF Idle(pool) THEN CycleEnds(found)
         ELSE /\ collectPool' = pool
              /\ results' = found
              /\ UNCHANGED <<collectTimer, collectPhase, readings, since, moves>>

\* degradedMetrics: Coolify cannot reach the server, or its metrics are off.
Degraded(h) ==
    /\ h \in DOMAIN collectPool.at
    /\ \/ collectPool.at[h].stage = "unreachable" /\ Returned(h, Blank("error"))
       \/ collectPool.at[h].stage = "disabled" /\ Returned(h, Blank("sentinel-off"))
    /\ UNCHANGED outside

Asks(h) == h \in DOMAIN collectPool.at /\ collectPool.at[h].stage = "settings"

\* The settings say on, and hold a token: the agent is asked with it.
Send(h, t) ==
    /\ collectPool' = [collectPool EXCEPT !.at[h] = [stage |-> "ssh", token |-> t]]
    /\ UNCHANGED <<collecting, collectTimer, collectPhase, results, readings, since, moves>>

\* Settings from the cache: fresh, or past their TTL when Coolify cannot be reached.
SettingsCached(h) ==
    /\ Asks(h)
    /\ settings[h].state # "none"
    /\ Send(h, settings[h].token)
    /\ UNCHANGED outside

\* Settings from Coolify, which the cache keeps.
SettingsLoaded(h) ==
    /\ Asks(h)
    /\ settings[h].state # "fresh"
    /\ settings' = [settings EXCEPT ![h] = [state |-> "fresh", token |-> token[h]]]
    /\ distrusted' = [distrusted EXCEPT ![h] = FALSE]
    /\ Send(h, token[h])
    /\ UNCHANGED <<token, agent>>

\* No settings: Coolify failed and nothing is cached.  Or settings that end the
\* matter: metrics off, no token for our ability, or one no shell may see.
SettingsUseless(h) ==
    /\ Asks(h)
    /\ \/ settings[h].state = "none" /\ Returned(h, Blank("error"))
       \/ Returned(h, Blank("sentinel-off"))
       \/ Returned(h, Blank("error"))
    /\ UNCHANGED outside

Connected(h) == h \in DOMAIN collectPool.at /\ collectPool.at[h].stage = "ssh"

\* SSH failed, or what came back is not two series.
AgentSilent(h) ==
    /\ Connected(h)
    /\ Returned(h, Blank("error"))
    /\ UNCHANGED outside

\* Mutant of TokenRejected: nobody is told.
TokenRejectedQuietly(h) ==
    /\ Connected(h)
    /\ collectPool.at[h].token # agent[h]
    /\ distrusted' = [distrusted EXCEPT ![h] = TRUE]
    /\ UNCHANGED <<settings, token, agent>>
    /\ Returned(h, Blank("error"))

\* The agent answers "Unauthorized": onTokenRejected drops the cached settings.
TokenRejected(h) ==
    /\ Connected(h)
    /\ collectPool.at[h].token # agent[h]
    /\ settings' = [settings EXCEPT ![h] = NoSettings]
    /\ distrusted' = [distrusted EXCEPT ![h] = TRUE]
    /\ UNCHANGED <<token, agent>>
    /\ Returned(h, Blank("error"))

\* The agent answers with its newest sample, `age` old, or with none.
AgentAnswers(h, gauge, age) ==
    /\ Connected(h)
    /\ collectPool.at[h].token = agent[h]
    /\ Returned(h, IF age <= StaleAfter
                   THEN [source |-> "sentinel", gauge |-> gauge, noted |-> age]
                   ELSE Blank("stale"))
    /\ UNCHANGED outside

-----------------------------------------------------------------------------
(* Outside the collector. *)

inside == <<collecting, collectTimer, collectPhase, collectPool, results, readings, since, moves>>

SettingsExpire(h) ==
    /\ settings[h].state = "fresh"
    /\ settings' = [settings EXCEPT ![h].state = "old"]
    /\ UNCHANGED <<inside, token, agent, distrusted>>

\* Someone regenerates a server's token in Coolify ...
TokenRegenerated(h) ==
    /\ token[h] < MaxTokens[h]
    /\ token' = [token EXCEPT ![h] = @ + 1]
    /\ UNCHANGED <<inside, agent, settings, distrusted>>

\* ... and its Sentinel container is restarted with it.
AgentRestarted(h) ==
    /\ agent[h] # token[h]
    /\ agent' = [agent EXCEPT ![h] = token[h]]
    /\ UNCHANGED <<inside, token, settings, distrusted>>

CollectorNext ==
    \/ StartCollector \/ StopCollector \/ IntervalPasses
    \/ \E fleet \in SUBSET Host : \E off \in SUBSET fleet : \E unreachable \in SUBSET (fleet \ off) :
         HostsRead(fleet, off, unreachable)
    \/ HostsFail
    \/ \E h \in Host : Degraded(h)
    \/ \E h \in Host : SettingsCached(h)
    \/ \E h \in Host : SettingsLoaded(h)
    \/ \E h \in Host : SettingsUseless(h)
    \/ \E h \in Host : AgentSilent(h)
    \/ \E h \in Host : TokenRejected(h)
    \/ \E h \in Host, gauge \in 0 .. MaxGauge, age \in 0 .. StaleAfter + 1 : AgentAnswers(h, gauge, age)
    \/ \E h \in Host : SettingsExpire(h)
    \/ \E h \in Host : TokenRegenerated(h)
    \/ \E h \in Host : AgentRestarted(h)

CollectorSpec == CollectorInit /\ [][CollectorNext]_collectorVars

-----------------------------------------------------------------------------
(* Requirements. *)

\* stop and start around a cycle - the last tab closes, another opens - neither
\* double the loop nor end it.
CollectLoop == INSTANCE SelfScheduling WITH
    running <- collecting, armed <- collectTimer, busy <- collectPhase # "none"
CollectorSchedulesItself == CollectLoop!Spec

\* "drop it so the next cycle asks for the current one instead of failing again": no
\* agent is asked with a token it rejected before Coolify was asked for its own.
RejectedTokenIsRefreshed == \A h \in Host : Connected(h) => ~distrusted[h]

\* What a reader of the gauges sees of a reading.
Seen(r) == <<r.source, r.gauge \div 2, r.noted>>

\* "told when a gauge actually moved": a cycle that changes what a reader sees says
\* so, once, and one that does not keeps quiet.
PushedIffSeen ==
    [][(moves' # moves) <=>
       \E h \in DOMAIN readings' : h \in DOMAIN readings => Seen(readings'[h]) # Seen(readings[h])
      ]_collectorVars

\* The code does not keep this one; the README says why.  "A reading older
\* than this is not shown": whoever opens a tab finds no reading that passes for
\* current and is not.
CurrentOnArrival ==
    [][StartCollector =>
         \A h \in DOMAIN readings :
            readings[h].source = "sentinel" => readings[h].noted + since <= StaleAfter]_collectorVars
=============================================================================
