--------------------------- MODULE ComponentsProofs ---------------------------
(***************************************************************************)
(* Proofs about components that Components puts side by side, one section  *)
(* each, for every value of the constants.  A behaviour of Components is   *)
(* one of each of them, since those that do not move stay in an initial    *)
(* state of theirs.                                                        *)
(***************************************************************************)
EXTENDS Collector, Actions, Session, Pages, Widgets, LogTicker, Store, Overview, MapLimitProofs,
        SequenceTheorems, WellFoundedInduction

-----------------------------------------------------------------------------
(* The metrics collector: one loop, and tokens that are trusted. *)

\* The calls keep to the fleet, and are in flight exactly during the fan-out; a timer
\* is set only between two cycles, and only while somebody watches.
Rounds ==
    /\ collecting \in BOOLEAN /\ collectTimer \in BOOLEAN
    /\ collectPhase \in {"none", "targets", "hosts"}
    /\ collectPool \in PoolOver(Host, Collect)
    /\ Idle(collectPool) <=> collectPhase \in {"none", "targets"}
    /\ collectTimer => collecting /\ collectPhase = "none"
    /\ moves \in {0, 1}

Gauges ==
    /\ results \in UNION {[D -> Reading] : D \in SUBSET Host}
    /\ readings \in UNION {[D -> Reading] : D \in SUBSET Host}
    /\ since \in 0 .. StaleAfter + 1

Tokens ==
    /\ token \in [Host -> Nat] /\ agent \in [Host -> Nat]
    /\ \A h \in Host : token[h] \in 1 .. MaxTokens[h] /\ agent[h] \in 1 .. token[h]
    /\ settings \in [Host -> Settings]
    /\ distrusted \in [Host -> BOOLEAN]

\* What the cache holds has not been rejected since Coolify was asked, and what is sent
\* came from the cache or from Coolify.
Trusted ==
    \A h \in Host :
        /\ settings[h].state # "none" => ~distrusted[h]
        /\ Connected(h) => ~distrusted[h]

CInv == Rounds /\ Gauges /\ Tokens /\ Trusted

\* A reading without a sample is one.
LEMMA BlankTyped == \A source \in Source : Blank(source) \in Reading
BY CollectorConstants DEF Blank, Reading

\* A map from servers to readings that grows by one, or is cut down.
LEMMA ReadingsOf ==
  ASSUME NEW f \in UNION {[D -> Reading] : D \in SUBSET Host}
  PROVE  DOMAIN f \subseteq Host /\ \A h \in DOMAIN f : f[h] \in Reading
OBVIOUS

LEMMA ReadingsTyped ==
  ASSUME NEW D \in SUBSET Host, NEW f \in [D -> Reading]
  PROVE  f \in UNION {[E -> Reading] : E \in SUBSET Host}
OBVIOUS

\* No call begins by sending a token.
LEMMA OpeningTyped ==
  ASSUME NEW off, NEW unreachable
  PROVE  \A h \in Host : /\ Opening(off, unreachable)[h] \in Collect
                         /\ Opening(off, unreachable)[h].stage # "ssh"
BY DEF Opening, Collect

LEMMA InitCInv == CollectorInit => CInv
<1> SUFFICES ASSUME CollectorInit PROVE CInv
  OBVIOUS
<1>1. Idle(collectPool) /\ collectPool \in PoolOver(Host, Collect)
  BY IdlePoolOver DEF CollectorInit
<1>2. Rounds
  BY <1>1 DEF CollectorInit, Rounds
<1>3. Gauges
  <2>1. results \in [{} -> Reading] /\ readings \in [{} -> Reading]
    BY DEF CollectorInit
  <2>2. /\ results \in UNION {[D -> Reading] : D \in SUBSET Host}
        /\ readings \in UNION {[D -> Reading] : D \in SUBSET Host}
    BY <2>1, ReadingsTyped
  <2>3. 0 \in 0 .. StaleAfter + 1
    BY CollectorConstants
  <2> QED BY <2>2, <2>3 DEF CollectorInit, Gauges
<1>4. Tokens /\ Trusted
  <2>1. \A h \in Host : MaxTokens[h] \in Nat /\ MaxTokens[h] >= 1
    BY CollectorConstants
  <2>2. Tokens
    BY <2>1 DEF CollectorInit, Tokens, NoSettings, Settings
  <2>3. \A h \in Host : ~Connected(h)
    BY <1>1 DEF Connected, Idle
  <2> QED BY <2>2, <2>3 DEF CollectorInit, Trusted, NoSettings
<1> QED BY <1>2, <1>3, <1>4 DEF CInv

\* A cycle that ends replaces the readings of the servers it asked.
LEMMA EndsCInv ==
  ASSUME Rounds, Gauges, collectPhase = "hosts", NEW found,
         found \in UNION {[D -> Reading] : D \in SUBSET Host},
         CycleEnds(found), UNCHANGED collecting
  PROVE  Rounds' /\ Gauges' /\ Idle(collectPool')
<1>1. Idle(collectPool') /\ collectPool' \in PoolOver(Host, Collect)
  BY IdlePoolOver DEF CycleEnds
<1>2. Rounds'
  BY <1>1 DEF Rounds, CycleEnds, CollectSettled
<1>3. /\ DOMAIN readings \subseteq Host /\ \A h \in DOMAIN readings : readings[h] \in Reading
      /\ DOMAIN found \subseteq Host /\ \A h \in DOMAIN found : found[h] \in Reading
  BY ReadingsOf DEF Gauges
<1>4. readings' \in [DOMAIN readings \cup DOMAIN found -> Reading]
  BY <1>3 DEF CycleEnds
<1>5. readings' \in UNION {[D -> Reading] : D \in SUBSET Host}
  BY <1>3, <1>4, ReadingsTyped
<1>6. results' \in [{} -> Reading]
  BY DEF CycleEnds
<1>7. results' \in UNION {[D -> Reading] : D \in SUBSET Host}
  BY <1>6, ReadingsTyped
<1>8. since' \in 0 .. StaleAfter + 1
  BY CollectorConstants DEF CycleEnds
<1> QED BY <1>1, <1>2, <1>5, <1>7, <1>8 DEF Gauges

\* What the calls have returned, with h's.
Found(h, r) == [g \in DOMAIN results \cup {h} |-> IF g = h THEN r ELSE results[g]]

\* The pool becomes `pool`, or was the last of its cycle.
Proceeds(pool, found) ==
    IF Idle(pool) THEN CycleEnds(found)
    ELSE /\ collectPool' = pool
         /\ results' = found
         /\ UNCHANGED <<collectTimer, collectPhase, readings, since, moves>>

\* A call that returns leaves the other calls as they are, and the one its worker goes
\* on to has sent no token yet.
LEMMA ReturnedCInv ==
  ASSUME Rounds, Gauges, NEW h \in DOMAIN collectPool.at, NEW r \in Reading, Returned(h, r)
  PROVE  /\ Rounds' /\ Gauges'
         /\ \A g \in Host : Connected(g)' => Connected(g) /\ g # h
<1>1. PICK next, start :
        /\ next \in Onwards(collectPool.left)
        /\ \A g \in Host : start[g] \in Collect /\ start[g].stage # "ssh"
        /\ Proceeds(Advanced(collectPool, h, next, start), Found(h, r))
        /\ UNCHANGED collecting
  BY OpeningTyped DEF Returned, Proceeds, Found
<1> DEFINE pool == Advanced(collectPool, h, next, start)
<1>0. collectPool \in PoolOver(Host, Collect)
  BY DEF Rounds
<1>2. collectPhase = "hosts" /\ h \in Host
  BY PoolOverCalls DEF Rounds, Idle
<1>3. Found(h, r) \in UNION {[D -> Reading] : D \in SUBSET Host}
  <2>1. DOMAIN results \subseteq Host /\ \A g \in DOMAIN results : results[g] \in Reading
    BY ReadingsOf DEF Gauges
  <2>2. /\ Found(h, r) \in [DOMAIN results \cup {h} -> Reading]
        /\ DOMAIN results \cup {h} \subseteq Host
    BY <1>2, <2>1 DEF Found
  <2> QED BY <2>2, ReadingsTyped
<1>4. CASE Idle(pool)
  <2>1. CycleEnds(Found(h, r)) /\ UNCHANGED collecting
    BY <1>1, <1>4 DEF Proceeds
  <2>2. Rounds' /\ Gauges' /\ Idle(collectPool')
    BY <1>2, <1>3, <2>1, EndsCInv
  <2> QED BY <2>2 DEF Connected, Idle
<1>5. CASE ~Idle(pool)
  <2>1. /\ collectPool' = pool /\ results' = Found(h, r)
        /\ UNCHANGED <<collecting, collectTimer, collectPhase, readings, since, moves>>
    BY <1>1, <1>5 DEF Proceeds
  <2>2. pool \in PoolOver(Host, Collect)
    <3>1. IsFiniteSet(Host)
      BY CollectorConstants
    <3>2. \A g \in Host : start[g] \in Collect
      BY <1>1
    <3> QED BY <1>0, <1>1, <3>1, <3>2, AdvancedOver
  <2>3. \A g \in DOMAIN pool.at :
          \/ g \in Host /\ pool.at[g] = start[g]
          \/ g \in DOMAIN collectPool.at \ {h} /\ pool.at[g] = collectPool.at[g]
    <3>1. next \subseteq Host
      BY <1>1, PoolOverCalls DEF Rounds, Onwards
    <3> QED BY <3>1 DEF Advanced
  <2> HIDE DEF pool
  <2>4. Rounds' /\ Gauges'
    BY <1>2, <1>3, <1>5, <2>1, <2>2 DEF Rounds, Gauges
  <2>5. ASSUME NEW g \in Host, Connected(g)' PROVE Connected(g) /\ g # h
    BY <1>1, <2>1, <2>3, <2>5 DEF Connected
  <2> QED BY <2>4, <2>5
<1> QED BY <1>4, <1>5

\* What stays as it is when the tokens and their settings do.
LEMMA OutsideCInv ==
  ASSUME Tokens, Trusted, UNCHANGED outside,
         \A h \in Host : Connected(h)' => Connected(h)
  PROVE  Tokens' /\ Trusted'
<1>1. Tokens'
  BY DEF Tokens, outside
<1>2. Trusted'
  BY DEF Trusted, outside
<1> QED BY <1>1, <1>2

\* Starting, stopping, and the timer.
LEMMA LoopCInv ==
  ASSUME CInv, StartCollector \/ StopCollector \/ IntervalPasses
  PROVE  CInv'
<1>1. UNCHANGED <<collectPool, results, readings, outside, moves>>
  BY DEF StartCollector, StopCollector, IntervalPasses
<1>2. Rounds'
  <2>1. /\ Idle(collectPool)' <=> Idle(collectPool)
        /\ UNCHANGED <<collectPool, moves>>
    BY <1>1
  <2>2. CASE StartCollector
    BY <2>1, <2>2 DEF CInv, Rounds, StartCollector, CollectRun
  <2>3. CASE StopCollector
    BY <2>1, <2>3 DEF CInv, Rounds, StopCollector
  <2>4. CASE IntervalPasses
    BY <2>1, <2>4 DEF CInv, Rounds, IntervalPasses, CollectRun
  <2> QED BY <2>2, <2>3, <2>4
<1>3. Gauges'
  <2>1. since' \in 0 .. StaleAfter + 1
    BY CollectorConstants DEF CInv, Gauges, StartCollector, StopCollector, IntervalPasses
  <2> QED BY <1>1, <2>1 DEF CInv, Gauges
<1>4. \A h \in Host : Connected(h)' => Connected(h)
  BY <1>1 DEF Connected
<1> QED BY <1>1, <1>2, <1>3, <1>4, OutsideCInv DEF CInv

\* The fleet is read: readings of servers that left go, and the fan-out starts.
LEMMA HostsReadCInv ==
  ASSUME CInv, NEW fleet \in SUBSET Host, NEW off, NEW unreachable,
         HostsRead(fleet, off, unreachable)
  PROVE  CInv'
<1>1. /\ collectPhase = "targets" /\ UNCHANGED <<collecting, results, since, outside, moves>>
      /\ Idle(collectPool) /\ ~collectTimer
  BY DEF CInv, Rounds, HostsRead
<1>2. readings' \in UNION {[D -> Reading] : D \in SUBSET Host}
  <2>1. DOMAIN readings \subseteq Host /\ \A h \in DOMAIN readings : readings[h] \in Reading
    BY ReadingsOf DEF CInv, Gauges
  <2>2. readings' \in [DOMAIN readings \cap fleet -> Reading]
    BY <2>1 DEF HostsRead
  <2> QED BY <2>1, <2>2, ReadingsTyped
<1>3. Gauges'
  BY <1>1, <1>2 DEF CInv, Gauges
<1>4. CASE fleet = {} /\ CollectSettled /\ UNCHANGED collectPool
  <2>1. Rounds'
    BY <1>1, <1>4 DEF CInv, Rounds, CollectSettled
  <2>2. \A h \in Host : Connected(h)' => Connected(h)
    BY <1>4 DEF Connected
  <2> QED BY <1>1, <1>3, <2>1, <2>2, OutsideCInv DEF CInv
<1>5. CASE /\ fleet # {} /\ collectPhase' = "hosts" /\ UNCHANGED collectTimer
           /\ \E batch \in FirstBatch(fleet) :
                collectPool' = Launched(fleet, batch, Opening(off, unreachable))
  <2>1. PICK start : /\ \A h \in Host : start[h] \in Collect /\ start[h].stage # "ssh"
                     /\ \E batch \in FirstBatch(fleet) : collectPool' = Launched(fleet, batch, start)
    BY <1>5, OpeningTyped
  <2>2. PICK batch \in FirstBatch(fleet) : collectPool' = Launched(fleet, batch, start)
    BY <2>1
  <2>3. IsFiniteSet(fleet) /\ \A h \in fleet : start[h] \in Collect
    BY <2>1, CollectorConstants, FS_Subset
  <2>4. /\ collectPool' \in PoolOver(fleet, Collect) /\ ~Idle(collectPool')
        /\ batch \subseteq fleet /\ DOMAIN collectPool'.at = batch
        /\ \A h \in batch : collectPool'.at[h] = start[h]
    BY <1>5, <2>2, <2>3, LaunchedOver
  <2>5. collectPool' \in PoolOver(Host, Collect)
    BY <2>4, PoolOverMore
  <2>6. Rounds'
    BY <1>1, <1>5, <2>4, <2>5 DEF CInv, Rounds
  <2>7. \A h \in Host : ~Connected(h)'
    BY <2>1, <2>4 DEF Connected
  <2> QED BY <1>1, <1>3, <2>6, <2>7, OutsideCInv DEF CInv
<1> QED BY <1>4, <1>5 DEF HostsRead

\* The fleet cannot be read.
LEMMA HostsFailCInv ==
  ASSUME CInv, HostsFail
  PROVE  CInv'
<1>1. Rounds' /\ Gauges'
  BY DEF CInv, Rounds, Gauges, HostsFail, CollectSettled
<1>2. \A h \in Host : Connected(h)' => Connected(h)
  BY DEF HostsFail, Connected
<1> QED BY <1>1, <1>2, OutsideCInv DEF CInv, HostsFail

\* A call returns, and nothing outside the collector changes.
LEMMA ReturnsCInv ==
  ASSUME CInv, NEW h \in DOMAIN collectPool.at, NEW r \in Reading, Returned(h, r), UNCHANGED outside
  PROVE  CInv'
<1>1. /\ Rounds' /\ Gauges'
      /\ \A g \in Host : Connected(g)' => Connected(g) /\ g # h
  BY ReturnedCInv DEF CInv
<1> QED BY <1>1, OutsideCInv DEF CInv

\* A call sends a token: the others stay as they are.
LEMMA SendCInv ==
  ASSUME Rounds, Gauges, NEW h \in Host, Asks(h), NEW t \in Nat, Send(h, t)
  PROVE  /\ Rounds' /\ Gauges'
         /\ \A g \in Host \ {h} : Connected(g)' => Connected(g)
<1>1. /\ collectPool.left \subseteq Host /\ DOMAIN collectPool.at \subseteq Host
      /\ collectPool.at \in [DOMAIN collectPool.at -> Collect]
      /\ collectPool \in [left : SUBSET Host, at : UNION {[D -> Collect] : D \in SUBSET Host}]
  BY PoolOverCalls DEF Rounds, PoolOver
<1>2. [stage |-> "ssh", token |-> t] \in Collect
  BY DEF Collect
<1>3. /\ collectPool' = [left |-> collectPool.left, at |-> collectPool'.at]
      /\ collectPool'.at = [collectPool.at EXCEPT ![h] = [stage |-> "ssh", token |-> t]]
  BY <1>1 DEF Send
<1>4. collectPool'.at \in [DOMAIN collectPool.at -> Collect]
  BY <1>1, <1>2, <1>3
<1>5. collectPool' \in PoolOver(Host, Collect)
  BY <1>1, <1>3, <1>4 DEF PoolOver
<1>6. Rounds'
  BY <1>3, <1>4, <1>5 DEF Rounds, Send, Idle, Asks
<1>7. Gauges'
  BY DEF Gauges, Send
<1>8. \A g \in Host \ {h} : Connected(g)' => Connected(g)
  BY <1>3, <1>4 DEF Connected
<1> QED BY <1>6, <1>7, <1>8

\* Settings from the cache are trusted: the token goes out.
LEMMA CachedCInv ==
  ASSUME CInv, NEW h \in Host, SettingsCached(h)
  PROVE  CInv'
<1>1. Asks(h) /\ settings[h].state # "none" /\ Send(h, settings[h].token) /\ UNCHANGED outside
  BY DEF SettingsCached
<1>2. settings[h].token \in Nat
  BY DEF CInv, Tokens, Settings
<1>3. Rounds' /\ Gauges' /\ \A g \in Host \ {h} : Connected(g)' => Connected(g)
  BY <1>1, <1>2, SendCInv DEF CInv
<1>4. Tokens' /\ Trusted'
  BY <1>1, <1>3 DEF CInv, Tokens, Trusted, outside
<1> QED BY <1>3, <1>4 DEF CInv

\* Settings from Coolify hold its current token, which nobody has rejected yet.
LEMMA LoadedCInv ==
  ASSUME CInv, NEW h \in Host, SettingsLoaded(h)
  PROVE  CInv'
<1>1. token[h] \in Nat
  BY DEF CInv, Tokens
<1>2. Rounds' /\ Gauges' /\ \A g \in Host \ {h} : Connected(g)' => Connected(g)
  BY <1>1, SendCInv DEF CInv, SettingsLoaded
<1>3. [state |-> "fresh", token |-> token[h]] \in Settings
  BY <1>1 DEF Settings
<1>4. Tokens'
  BY <1>3 DEF CInv, Tokens, SettingsLoaded
<1>5. Trusted'
  BY <1>2 DEF CInv, Tokens, Trusted, SettingsLoaded
<1> QED BY <1>2, <1>4, <1>5 DEF CInv

\* A rejected token: the call is over, and the cache forgets the settings.
LEMMA RejectedCInv ==
  ASSUME CInv, NEW h \in Host, TokenRejected(h)
  PROVE  CInv'
<1>1. /\ Rounds' /\ Gauges'
      /\ \A g \in Host : Connected(g)' => Connected(g) /\ g # h
  BY BlankTyped, ReturnedCInv DEF CInv, TokenRejected, Connected, Source
<1>2. NoSettings \in Settings
  BY DEF NoSettings, Settings
<1>3. Tokens'
  BY <1>2 DEF CInv, Tokens, TokenRejected
<1>4. Trusted'
  BY <1>1 DEF CInv, Tokens, Trusted, TokenRejected, NoSettings
<1> QED BY <1>1, <1>3, <1>4 DEF CInv

\* The agent's sample becomes a reading.
LEMMA AnswersCInv ==
  ASSUME CInv, NEW h \in Host, NEW gauge \in 0 .. MaxGauge, NEW age \in 0 .. StaleAfter + 1,
         AgentAnswers(h, gauge, age)
  PROVE  CInv'
<1>1. PICK r : /\ Returned(h, r)
               /\ r = IF age <= StaleAfter
                      THEN [source |-> "sentinel", gauge |-> gauge, noted |-> age]
                      ELSE Blank("stale")
  BY DEF AgentAnswers
<1>2. r \in Reading
  BY <1>1, BlankTyped, CollectorConstants DEF Reading, Source
<1> QED BY <1>1, <1>2, ReturnsCInv DEF AgentAnswers, Connected

\* The world around the collector: settings age, tokens and agents change.
LEMMA AroundCInv ==
  ASSUME CInv, NEW h \in Host, SettingsExpire(h) \/ TokenRegenerated(h) \/ AgentRestarted(h)
  PROVE  CInv'
<1>1. UNCHANGED inside /\ UNCHANGED distrusted
  BY DEF SettingsExpire, TokenRegenerated, AgentRestarted
<1>2. Rounds' /\ Gauges'
  BY <1>1 DEF CInv, Rounds, Gauges, inside
<1>3. \A g \in Host : Connected(g)' <=> Connected(g)
  BY <1>1 DEF Connected, inside
<1>4. CASE SettingsExpire(h)
  <2>1. settings[h] \in Settings
    BY DEF CInv, Tokens
  <2>2. [settings[h] EXCEPT !.state = "old"] \in Settings
    BY <2>1 DEF Settings
  <2>3. /\ settings' \in [Host -> Settings]
        /\ settings' = [settings EXCEPT ![h] = [settings[h] EXCEPT !.state = "old"]]
    BY <1>4, <2>2 DEF CInv, Tokens, SettingsExpire
  <2>4. Tokens'
    BY <1>4, <2>3 DEF CInv, Tokens, SettingsExpire
  <2>5. Trusted'
    BY <1>1, <1>3, <1>4, <2>3 DEF CInv, Tokens, Trusted, SettingsExpire
  <2> QED BY <1>2, <2>4, <2>5 DEF CInv
<1>5. CASE TokenRegenerated(h)
  <2>1. \A g \in Host : MaxTokens[g] \in Nat
    BY CollectorConstants
  <2>2. Tokens'
    BY <1>5, <2>1 DEF CInv, Tokens, TokenRegenerated
  <2>3. Trusted'
    BY <1>1, <1>3, <1>5 DEF CInv, Trusted, TokenRegenerated
  <2> QED BY <1>2, <2>2, <2>3 DEF CInv
<1>6. CASE AgentRestarted(h)
  <2>1. Tokens'
    BY <1>6 DEF CInv, Tokens, AgentRestarted
  <2>2. Trusted'
    BY <1>1, <1>3, <1>6 DEF CInv, Trusted, AgentRestarted
  <2> QED BY <1>2, <2>1, <2>2 DEF CInv
<1> QED BY <1>4, <1>5, <1>6

LEMMA NextCInv == CInv /\ [CollectorNext]_collectorVars => CInv'
<1> SUFFICES ASSUME CInv, [CollectorNext]_collectorVars PROVE CInv'
  OBVIOUS
<1>1. CASE StartCollector \/ StopCollector \/ IntervalPasses
  BY <1>1, LoopCInv
<1>2. CASE \E fleet \in SUBSET Host : \E off \in SUBSET fleet :
             \E unreachable \in SUBSET (fleet \ off) : HostsRead(fleet, off, unreachable)
  BY <1>2, HostsReadCInv
<1>3. CASE HostsFail
  BY <1>3, HostsFailCInv
<1>4. ASSUME NEW h \in Host, Degraded(h) \/ SettingsUseless(h) \/ AgentSilent(h)
      PROVE  CInv'
  <2>1. h \in DOMAIN collectPool.at /\ UNCHANGED outside
    BY <1>4 DEF Degraded, SettingsUseless, AgentSilent, Asks, Connected
  <2>2. Returned(h, Blank("error")) \/ Returned(h, Blank("sentinel-off"))
    BY <1>4 DEF Degraded, SettingsUseless, AgentSilent
  <2>3. Blank("error") \in Reading /\ Blank("sentinel-off") \in Reading
    BY BlankTyped DEF Source
  <2> QED BY <2>1, <2>2, <2>3, ReturnsCInv
<1>5. ASSUME NEW h \in Host, SettingsCached(h) \/ SettingsLoaded(h) \/ TokenRejected(h)
      PROVE  CInv'
  BY <1>5, CachedCInv, LoadedCInv, RejectedCInv
<1>6. CASE \E h \in Host, gauge \in 0 .. MaxGauge, age \in 0 .. StaleAfter + 1 :
             AgentAnswers(h, gauge, age)
  BY <1>6, AnswersCInv
<1>7. ASSUME NEW h \in Host, SettingsExpire(h) \/ TokenRegenerated(h) \/ AgentRestarted(h)
      PROVE  CInv'
  BY <1>7, AroundCInv
<1>8. CASE UNCHANGED collectorVars
  BY <1>8 DEF CInv, Rounds, Gauges, Tokens, Trusted, Connected, collectorVars
<1> QED BY <1>1, <1>2, <1>3, <1>4, <1>5, <1>6, <1>7, <1>8 DEF CollectorNext

LEMMA AlwaysCInv == CollectorSpec => []CInv
<1> QED BY InitCInv, NextCInv, PTL DEF CollectorSpec

\* Types of the collector: calls are in flight during the fan-out and at no other time,
\* and an agent was started with a token Coolify has generated.
THEOREM CollectorTypeCorrect == CollectorSpec => []CollectorTypeOK
<1>1. CInv => CollectorTypeOK
  <2> SUFFICES ASSUME CInv PROVE CollectorTypeOK
    OBVIOUS
  <2>1. /\ collectPool.left \subseteq Host /\ DOMAIN collectPool.at \subseteq Host
        /\ \A h \in DOMAIN collectPool.at : collectPool.at[h] \in Collect
    BY PoolOverCalls DEF CInv, Rounds
  <2> QED BY <2>1 DEF CInv, Rounds, Gauges, Tokens, CollectorTypeOK
<1> QED BY <1>1, AlwaysCInv, PTL

\* No agent is asked with a token it rejected before Coolify was asked for its own:
\* whoever rejects it takes the settings out of the cache, and no other call of the
\* same server is in flight that could have taken them before.
THEOREM RejectedTokensRefreshed == CollectorSpec => []RejectedTokenIsRefreshed
<1>1. CInv => RejectedTokenIsRefreshed
  BY DEF CInv, Trusted, RejectedTokenIsRefreshed
<1> QED BY <1>1, AlwaysCInv, PTL

\* What a call that returns is for the loop: the end of its run, or nothing.
LEMMA ReturnedLoop ==
  ASSUME CInv, NEW h \in DOMAIN collectPool.at, NEW r, Returned(h, r)
  PROVE  CollectLoop!Finish \/ UNCHANGED CollectLoop!vars
<1>1. collectPhase = "hosts" /\ UNCHANGED collecting
  BY DEF CInv, Rounds, Idle, Returned
<1>2. (collectPhase' = "none" /\ collectTimer' = collecting) \/ UNCHANGED <<collectTimer, collectPhase>>
  BY DEF Returned, CycleEnds, CollectSettled
<1>3. CASE collectPhase' = "none" /\ collectTimer' = collecting
  BY <1>1, <1>3 DEF CollectLoop!Finish
<1>4. CASE UNCHANGED <<collectTimer, collectPhase>>
  BY <1>1, <1>4 DEF CollectLoop!vars
<1> QED BY <1>2, <1>3, <1>4

\* The collector is a loop that schedules itself, whatever a cycle meets and however
\* often the last tab closes and the first one opens: one cycle at a time, and a timer
\* after each.
THEOREM CollectorKeepsScheduling == CollectorSpec => CollectorSchedulesItself
<1>1. CollectorInit => CollectLoop!Init
  BY DEF CollectorInit, CollectLoop!Init
<1>2. CInv /\ [CollectorNext]_collectorVars => [CollectLoop!Next]_(CollectLoop!vars)
  <2> SUFFICES ASSUME CInv, [CollectorNext]_collectorVars
               PROVE  [CollectLoop!Next]_(CollectLoop!vars)
    OBVIOUS
  <2>1. CASE StartCollector
    <3>1. CollectLoop!Start
      BY <2>1 DEF StartCollector, CollectRun, CollectLoop!Start
    <3> QED BY <3>1 DEF CollectLoop!Next
  <2>2. CASE StopCollector
    <3>1. CollectLoop!Stop
      BY <2>2 DEF StopCollector, CollectLoop!Stop
    <3> QED BY <3>1 DEF CollectLoop!Next
  <2>3. CASE IntervalPasses
    <3>1. CASE collectTimer
      <4>1. CollectLoop!Fire
        BY <2>3, <3>1 DEF IntervalPasses, CollectRun, CInv, Rounds, CollectLoop!Fire
      <4> QED BY <4>1 DEF CollectLoop!Next
    <3>2. CASE ~collectTimer
      <4>1. collectTimer' = collectTimer
        BY <2>3, <3>2 DEF IntervalPasses, CInv, Rounds
      <4> QED BY <2>3, <3>2, <4>1 DEF IntervalPasses, CollectLoop!vars
    <3> QED BY <3>1, <3>2
  <2>4. CASE \E fleet \in SUBSET Host : \E off \in SUBSET fleet :
               \E unreachable \in SUBSET (fleet \ off) : HostsRead(fleet, off, unreachable)
    <3>1. /\ collectPhase = "targets" /\ UNCHANGED collecting
          /\ \/ collectPhase' = "none" /\ collectTimer' = collecting
             \/ collectPhase' = "hosts" /\ UNCHANGED collectTimer
      BY <2>4 DEF HostsRead, CollectSettled
    <3>2. CASE collectPhase' = "none" /\ collectTimer' = collecting
      BY <3>1, <3>2 DEF CollectLoop!Finish, CollectLoop!Next
    <3>3. CASE collectPhase' = "hosts" /\ UNCHANGED collectTimer
      BY <3>1, <3>3 DEF CollectLoop!vars
    <3> QED BY <3>1, <3>2, <3>3
  <2>5. CASE HostsFail
    BY <2>5 DEF HostsFail, CollectSettled, CollectLoop!Finish, CollectLoop!Next
  <2>6. ASSUME NEW h \in Host, NEW r, Returned(h, r), h \in DOMAIN collectPool.at
        PROVE  [CollectLoop!Next]_(CollectLoop!vars)
    BY <2>6, ReturnedLoop DEF CollectLoop!Next
  <2>7. ASSUME NEW h \in Host, Degraded(h) \/ SettingsUseless(h) \/ AgentSilent(h) \/ TokenRejected(h)
        PROVE  [CollectLoop!Next]_(CollectLoop!vars)
    <3>1. /\ h \in DOMAIN collectPool.at
          /\ Returned(h, Blank("error")) \/ Returned(h, Blank("sentinel-off"))
      BY <2>7 DEF Degraded, SettingsUseless, AgentSilent, TokenRejected, Asks, Connected
    <3> QED BY <2>6, <3>1
  <2>8. ASSUME NEW h \in Host, NEW gauge, NEW age, AgentAnswers(h, gauge, age)
        PROVE  [CollectLoop!Next]_(CollectLoop!vars)
    BY <2>6, <2>8 DEF AgentAnswers, Connected
  <2>9. ASSUME NEW h \in Host, \/ SettingsCached(h) \/ SettingsLoaded(h) \/ SettingsExpire(h)
                               \/ TokenRegenerated(h) \/ AgentRestarted(h)
        PROVE  [CollectLoop!Next]_(CollectLoop!vars)
    BY <2>9 DEF SettingsCached, SettingsLoaded, Send, SettingsExpire, TokenRegenerated, AgentRestarted,
                inside, CollectLoop!vars
  <2>10. CASE UNCHANGED collectorVars
    BY <2>10 DEF collectorVars, CollectLoop!vars
  <2> QED BY <2>1, <2>2, <2>3, <2>4, <2>5, <2>7, <2>8, <2>9, <2>10 DEF CollectorNext
<1> QED BY <1>1, <1>2, AlwaysCInv, PTL DEF CollectorSpec, CollectorSchedulesItself, CollectLoop!Spec

\* A reader sees another reading.
Appears(h) == h \in DOMAIN readings => Seen(readings'[h]) # Seen(readings[h])

\* A cycle that ends pushes if a reader sees another reading for it.
LEMMA EndsSeen ==
  ASSUME CInv, NEW found \in UNION {[D -> Reading] : D \in SUBSET Host}, CycleEnds(found)
  PROVE  (moves' # moves) <=> \E h \in DOMAIN readings' : Appears(h)
<1>1. (moves' # moves) <=>
        \E h \in DOMAIN found : h \in DOMAIN readings => VisiblyDiffers(readings[h], found[h])
  BY DEF CInv, Rounds, CycleEnds
<1>2. /\ DOMAIN readings' = DOMAIN readings \cup DOMAIN found
      /\ \A h \in DOMAIN readings' : readings'[h] = IF h \in DOMAIN found THEN found[h] ELSE readings[h]
  BY DEF CycleEnds
<1>3. \A before, after : VisiblyDiffers(before, after) <=> Seen(after) # Seen(before)
  BY DEF VisiblyDiffers, Seen
<1>4. \A h \in DOMAIN readings' \ DOMAIN found : ~Appears(h)
  BY <1>2 DEF Appears
<1>5. \A h \in DOMAIN found : Appears(h) <=> (h \in DOMAIN readings => VisiblyDiffers(readings[h], found[h]))
  BY <1>2, <1>3 DEF Appears
<1> QED BY <1>1, <1>2, <1>4, <1>5

\* No push, and the readings stay or are cut down.
LEMMA QuietSeen ==
  ASSUME UNCHANGED moves, DOMAIN readings' \subseteq DOMAIN readings,
         \A h \in DOMAIN readings' : readings'[h] = readings[h]
  PROVE  (moves' # moves) <=> \E h \in DOMAIN readings' : Appears(h)
BY DEF Appears

\* A cycle that changes what a reader sees of the gauges says so, once, and one that
\* does not keeps quiet: whatever the fleet, and whatever the agents answer.
THEOREM PushesMatter == CollectorSpec => PushedIffSeen
<1>1. CInv /\ [CollectorNext]_collectorVars =>
        ((moves' # moves) <=> \E h \in DOMAIN readings' : Appears(h))
  <2> SUFFICES ASSUME CInv, [CollectorNext]_collectorVars
               PROVE  (moves' # moves) <=> \E h \in DOMAIN readings' : Appears(h)
    OBVIOUS
  <2>1. CASE UNCHANGED <<readings, moves>>
    BY <2>1, QuietSeen
  <2>2. ASSUME NEW fleet, NEW off, NEW unreachable, HostsRead(fleet, off, unreachable)
        PROVE  (moves' # moves) <=> \E h \in DOMAIN readings' : Appears(h)
    BY <2>2, QuietSeen DEF HostsRead
  <2>3. ASSUME NEW h \in Host, h \in DOMAIN collectPool.at, NEW r \in Reading, Returned(h, r)
        PROVE  (moves' # moves) <=> \E g \in DOMAIN readings' : Appears(g)
    <3>1. \/ UNCHANGED <<readings, moves>>
          \/ CycleEnds(Found(h, r))
      BY <2>3 DEF Returned, Found
    <3>2. /\ DOMAIN results \subseteq Host /\ \A g \in DOMAIN results : results[g] \in Reading
      BY ReadingsOf DEF CInv, Gauges
    <3>3. Found(h, r) \in [DOMAIN results \cup {h} -> Reading]
      BY <3>2 DEF Found
    <3>4. Found(h, r) \in UNION {[D -> Reading] : D \in SUBSET Host}
      BY <3>2, <3>3, ReadingsTyped
    <3> QED BY <2>1, <3>1, <3>4, EndsSeen
  <2>4. ASSUME NEW h \in Host, Degraded(h) \/ SettingsUseless(h) \/ AgentSilent(h) \/ TokenRejected(h)
        PROVE  (moves' # moves) <=> \E g \in DOMAIN readings' : Appears(g)
    <3>1. /\ h \in DOMAIN collectPool.at
          /\ Returned(h, Blank("error")) \/ Returned(h, Blank("sentinel-off"))
      BY <2>4 DEF Degraded, SettingsUseless, AgentSilent, TokenRejected, Asks, Connected
    <3>2. Blank("error") \in Reading /\ Blank("sentinel-off") \in Reading
      BY BlankTyped DEF Source
    <3> QED BY <2>3, <3>1, <3>2
  <2>5. ASSUME NEW h \in Host, NEW gauge \in 0 .. MaxGauge, NEW age \in 0 .. StaleAfter + 1,
               AgentAnswers(h, gauge, age)
        PROVE  (moves' # moves) <=> \E g \in DOMAIN readings' : Appears(g)
    <3>1. PICK r : /\ Returned(h, r)
                   /\ r = IF age <= StaleAfter
                          THEN [source |-> "sentinel", gauge |-> gauge, noted |-> age]
                          ELSE Blank("stale")
      BY <2>5 DEF AgentAnswers
    <3>2. r \in Reading
      BY <3>1, BlankTyped, CollectorConstants DEF Reading, Source
    <3> QED BY <2>3, <2>5, <3>1, <3>2 DEF AgentAnswers, Connected
  <2>6. ASSUME \/ StartCollector \/ StopCollector \/ IntervalPasses \/ HostsFail
               \/ UNCHANGED collectorVars
               \/ \E h \in Host : \/ SettingsCached(h) \/ SettingsLoaded(h) \/ SettingsExpire(h)
                                  \/ TokenRegenerated(h) \/ AgentRestarted(h)
        PROVE  UNCHANGED <<readings, moves>>
    BY <2>6 DEF StartCollector, StopCollector, IntervalPasses, HostsFail, SettingsCached, SettingsLoaded,
                Send, SettingsExpire, TokenRegenerated, AgentRestarted, inside, collectorVars
  <2> QED BY <2>1, <2>2, <2>4, <2>5, <2>6 DEF CollectorNext
<1>2. CInv /\ [CollectorNext]_collectorVars =>
        [(moves' # moves) <=>
           \E h \in DOMAIN readings' : h \in DOMAIN readings => Seen(readings'[h]) # Seen(readings[h])
        ]_collectorVars
  BY <1>1 DEF Appears
<1> QED BY <1>2, AlwaysCInv, PTL DEF CollectorSpec, PushedIffSeen

-----------------------------------------------------------------------------
(* The write side: what is out of date is explained. *)

\* A request on its way has not acted before it was answered, and has acted once if the
\* answer is good; one that is over was reported as it went, or may be got to late.
Request == [at : {"idle", "sent", "answered", "over"}, kind : AllKinds \cup {"none"},
            method : {"?", "POST", "GET"}, learning : BOOLEAN, acted : {0, 1},
            answer : Answers \cup {"none"}, report : {"none", "failed", "queued", "done", "skipped"}]

Honest(r) ==
    /\ r.learning => Learns(r.kind)
    /\ r.at = "idle" => r.acted = 0
    /\ r.at \in {"idle", "sent", "answered"} => r.report = "none"
    /\ r.at = "sent" => r.acted = 0
    /\ r.at = "answered" =>
         /\ r.answer # "none"
         /\ r.acted = 1 <=> r.answer = "ok"
         /\ Learns(r.kind) /\ r.answer # "405" /\ r.method = "POST" => "POST" \in takes
    /\ r.at = "over" =>
         /\ r.report \in {"queued", "done"} => r.acted = 1
         /\ r.report = "skipped" => r.acted = 0
         /\ r.report = "failed" /\ r.answer = "none" => r.acted = 0

\* The verb that worked is taken, POST being taken for good once it is.
Calls ==
    /\ takes \in SUBSET {"POST", "GET"}
    /\ verb \in {"?", "POST", "GET"}
    /\ verb = "POST" => "POST" \in takes
    /\ call \in [Click -> Request]
    /\ \A c \in Click : Honest(call[c])

\* The groups call c of `calls` still has to drop.
News(calls, c) == IF calls[c].acted > 0 /\ calls[c].at # "over" THEN Changed(calls[c].kind) ELSE {}

ActInv == Calls /\ StaleIsExplained

\* What is out of date, group by group: nobody will be told of it, or a call still has to
\* drop it, or a webhook on its way is about it.
ByGroup(groups, debts, calls, sent) ==
    \A g \in groups : \/ g \in debts
                      \/ \E c \in Click : g \in News(calls, c)
                      \/ \E h \in sent : g \in Touched(h.event)

LEMMA Explaining ==
  ASSUME NEW groups, NEW debts, NEW calls, NEW sent
  PROVE  ByGroup(groups, debts, calls, sent) <=>
           groups \subseteq
             debts \cup (UNION {Changed(calls[c].kind) : c \in {d \in Click : calls[d].acted > 0 /\ calls[d].at # "over"}})
                   \cup (UNION {Touched(h.event) : h \in sent})
<1> DEFINE telling == {d \in Click : calls[d].acted > 0 /\ calls[d].at # "over"}
           ofCalls == UNION {Changed(calls[c].kind) : c \in telling}
           ofHooks == UNION {Touched(h.event) : h \in sent}
<1>1. ASSUME NEW g PROVE g \in ofCalls <=> \E c \in Click : g \in News(calls, c)
  <2>1. g \in ofCalls <=> \E c \in telling : g \in Changed(calls[c].kind)
    OBVIOUS
  <2>2. \A c \in Click : g \in News(calls, c) <=> c \in telling /\ g \in Changed(calls[c].kind)
    BY DEF News
  <2> QED BY <2>1, <2>2
<1>2. ASSUME NEW g PROVE g \in ofHooks <=> \E h \in sent : g \in Touched(h.event)
  OBVIOUS
<1>3. groups \subseteq debts \cup ofCalls \cup ofHooks <=> ByGroup(groups, debts, calls, sent)
  <2> HIDE DEF ofCalls, ofHooks
  <2> QED BY <1>1, <1>2 DEF ByGroup
<1> QED BY <1>3

LEMMA Explained ==
  /\ StaleIsExplained <=> ByGroup(stale, owed, call, hooks)
  /\ StaleIsExplained' <=> ByGroup(stale', owed', call', hooks')
BY Explaining DEF StaleIsExplained

LEMMA InitActInv == ActionInit => ActInv
<1> SUFFICES ASSUME ActionInit PROVE ActInv
  OBVIOUS
<1>1. NoCall \in Request /\ Honest(NoCall)
  BY DEF NoCall, Request, Honest
<1>2. Calls
  BY <1>1, ActionConstants DEF ActionInit, Calls
<1> QED BY <1>2 DEF ActionInit, ActInv, StaleIsExplained

\* One request changes, to an honest one.
LEMMA OneCall ==
  ASSUME Calls, NEW c \in Click, NEW r \in Request, Honest(r),
         call' = [call EXCEPT ![c] = r], UNCHANGED <<takes, verb>>
  PROVE  Calls'
BY DEF Calls, Honest

\* ... which adds no news, and takes none that is not told: what was explained stays so.
LEMMA StillExplained ==
  ASSUME StaleIsExplained, NEW c \in Click,
         \A d \in Click \ {c} : call'[d] = call[d],
         \A h \in hooks : h \in hooks',
         \A g \in stale' : g \in stale \/ g \in owed' \/ g \in News(call', c),
         \A g \in stale' : g \in owed \/ g \in News(call, c) => g \in owed' \/ g \in News(call', c)
  PROVE  StaleIsExplained'
<1>1. \A d \in Click \ {c} : News(call', d) = News(call, d)
  BY DEF News
<1> QED BY <1>1, Explained DEF ByGroup

\* The caches are told of everything an action changes.
LEMMA ToldAll == \A kind : Changed(kind) \subseteq Invalidated(kind)
BY DEF Changed, Invalidated

LEMMA SubmitActInv ==
  ASSUME ActInv, NEW c \in Click, NEW kind \in Kinds[c], Submit(c, kind)
  PROVE  ActInv'
<1>1. PICK r : /\ call' = [call EXCEPT ![c] = r]
               /\ r = [NoCall EXCEPT !.at = "sent", !.kind = kind,
                                     !.method = IF Learns(kind) /\ verb = "GET" THEN "GET" ELSE "POST",
                                     !.learning = Learns(kind) /\ verb = "?"]
  BY DEF Submit
<1>2. kind \in AllKinds /\ UNCHANGED <<takes, verb, stale, owed, hooks>> /\ call[c].at \in {"idle", "over"}
  BY ActionConstants DEF Submit
<1>3. r \in Request /\ r.at = "sent" /\ r.acted = 0 /\ r.report = "none" /\ (r.learning => Learns(r.kind))
  BY <1>1, <1>2 DEF NoCall, Request, Learns
<1>4. Honest(r)
  BY <1>3 DEF Honest
<1>5. Calls'
  BY <1>1, <1>2, <1>3, <1>4, OneCall DEF ActInv
<1>6. News(call, c) = {}
  BY <1>2 DEF ActInv, Calls, Honest, News
<1>7. call \in [Click -> Request]
  BY DEF ActInv, Calls
<1>8. StaleIsExplained'
  BY <1>1, <1>2, <1>6, <1>7, StillExplained DEF ActInv
<1> QED BY <1>5, <1>8 DEF ActInv

LEMMA HandledActInv ==
  ASSUME ActInv, NEW c \in Click, NEW reply \in Answers, Handled(c, reply)
  PROVE  ActInv'
<1>1. call[c] \in Request /\ Honest(call[c]) /\ call \in [Click -> Request] /\ Calls /\ StaleIsExplained
  BY DEF ActInv, Calls
<1>2. PICK r : r = [call[c] EXCEPT !.at = "answered", !.answer = reply,
                                   !.acted = call[c].acted + (IF reply = "ok" THEN 1 ELSE 0)]
  OBVIOUS
<1>3. /\ call[c].at = "sent" /\ call[c].acted = 0
      /\ reply = "405" <=> Learns(call[c].kind) /\ call[c].method \notin takes
      /\ UNCHANGED <<takes, verb, owed, hooks>>
      /\ call' = [call EXCEPT ![c] = r]
      /\ stale' = stale \cup (IF reply = "ok" THEN Changed(call[c].kind) ELSE {})
  BY <1>1, <1>2 DEF Handled, Honest
<1>4. /\ r \in Request /\ r.at = "answered" /\ r.kind = call[c].kind /\ r.method = call[c].method
      /\ r.learning = call[c].learning /\ r.report = "none" /\ r.answer = reply
      /\ r.acted = IF reply = "ok" THEN 1 ELSE 0
  <2>1. call[c].report = "none"
    BY <1>1, <1>3 DEF Honest
  <2>2. r = [call[c] EXCEPT !.at = "answered", !.answer = reply,
                            !.acted = IF reply = "ok" THEN 1 ELSE 0]
    BY <1>2, <1>3
  <2> QED BY <1>1, <2>1, <2>2 DEF Request
<1>5. Honest(r)
  BY <1>1, <1>3, <1>4 DEF Honest, Answers
<1>6. Calls'
  BY <1>1, <1>3, <1>4, <1>5, OneCall
<1>7. News(call, c) = {}
  BY <1>3 DEF News
<1>8. News(call', c) = IF reply = "ok" THEN Changed(call[c].kind) ELSE {}
  BY <1>1, <1>3, <1>4 DEF News
<1>9. StaleIsExplained'
  BY <1>1, <1>3, <1>7, <1>8, StillExplained
<1> QED BY <1>6, <1>9 DEF ActInv

LEMMA TryGetActInv ==
  ASSUME ActInv, NEW c \in Click, TryGet(c)
  PROVE  ActInv'
<1>1. call[c] \in Request /\ Honest(call[c]) /\ call \in [Click -> Request] /\ Calls /\ StaleIsExplained
  BY DEF ActInv, Calls
<1>2. PICK r : r = [call[c] EXCEPT !.at = "sent", !.method = "GET"]
  OBVIOUS
<1>3. /\ call[c].at = "answered" /\ call[c].answer = "405"
      /\ UNCHANGED <<takes, verb, stale, owed, hooks>>
      /\ call' = [call EXCEPT ![c] = r]
  BY <1>1, <1>2 DEF TryGet
<1>4. call[c].acted = 0 /\ call[c].report = "none"
  BY <1>1, <1>3 DEF Honest, Request
<1>5. /\ r \in Request /\ r.at = "sent" /\ r.acted = 0 /\ r.report = "none"
      /\ r.learning = call[c].learning /\ r.kind = call[c].kind
  BY <1>1, <1>2, <1>4 DEF Request
<1>6. Honest(r)
  BY <1>1, <1>5 DEF Honest
<1>7. Calls'
  BY <1>1, <1>3, <1>5, <1>6, OneCall
<1>8. News(call, c) = {}
  BY <1>4 DEF News
<1>9. StaleIsExplained'
  BY <1>1, <1>3, <1>8, StillExplained
<1> QED BY <1>7, <1>9 DEF ActInv

\* What is left of a request that is over.
LEMMA OverRequest ==
  ASSUME NEW c \in Click, call[c] \in Request, call \in [Click -> Request],
         NEW report \in {"failed", "queued", "done", "skipped"}
  PROVE  \E r \in Request :
           /\ Over(c, report) = [call EXCEPT ![c] = r]
           /\ r.at = "over" /\ r.acted = call[c].acted /\ r.report = report /\ ~r.learning
           /\ r.answer = "none" => report = "failed" /\ call[c].answer = "none"
<1>1. PICK late : late = (report = "failed" /\ call[c].answer = "none")
  OBVIOUS
<1>2. PICK r : r = [NoCall EXCEPT !.at = "over", !.report = report, !.acted = call[c].acted,
                                  !.kind = IF late THEN call[c].kind ELSE @,
                                  !.answer = IF late THEN "none" ELSE "error"]
  OBVIOUS
<1>3. Over(c, report) = [call EXCEPT ![c] = r]
  BY <1>1, <1>2 DEF Over
<1>4. r = [at |-> "over", kind |-> IF late THEN call[c].kind ELSE "none", method |-> "?", learning |-> FALSE,
           acted |-> call[c].acted, answer |-> IF late THEN "none" ELSE "error", report |-> report]
  BY <1>2 DEF NoCall
<1>5. call[c].kind \in AllKinds \cup {"none"} /\ call[c].acted \in {0, 1}
  BY DEF Request
<1>6. /\ r \in Request /\ r.at = "over" /\ r.acted = call[c].acted /\ r.report = report /\ ~r.learning
      /\ r.answer = IF late THEN "none" ELSE "error"
  BY <1>4, <1>5 DEF Request, Answers
<1> QED BY <1>1, <1>3, <1>6

LEMMA ReceivedActInv ==
  ASSUME ActInv, NEW c \in Click, Received(c)
  PROVE  ActInv'
<1>1. call[c] \in Request /\ Honest(call[c]) /\ call \in [Click -> Request] /\ Calls /\ StaleIsExplained
  BY DEF ActInv, Calls
<1>2. PICK good : good = (call[c].answer \in {"ok", "skipped"})
  OBVIOUS
<1>3. PICK report : report = IF good THEN Outcome(call[c].kind, call[c].answer) ELSE "failed"
  OBVIOUS
<1>4. /\ call[c].at = "answered" /\ call' = Over(c, report)
      /\ verb' = IF call[c].learning /\ good THEN call[c].method ELSE verb
      /\ stale' = stale \ (IF good THEN Invalidated(call[c].kind) ELSE {})
      /\ owed' = owed \ (IF good THEN Invalidated(call[c].kind) ELSE {})
      /\ UNCHANGED <<takes, hooks>>
  BY <1>2, <1>3 DEF Received, Drop
<1>5. /\ report \in {"failed", "queued", "done", "skipped"}
      /\ report \in {"queued", "done"} => call[c].answer = "ok"
      /\ report = "skipped" => call[c].answer # "ok"
      /\ report = "failed" => call[c].answer # "ok"
      /\ call[c].answer # "none" /\ (call[c].acted = 1 <=> call[c].answer = "ok")
  BY <1>1, <1>2, <1>3, <1>4 DEF Outcome, Honest
<1>6. PICK r \in Request :
           /\ Over(c, report) = [call EXCEPT ![c] = r]
           /\ r.at = "over" /\ r.acted = call[c].acted /\ r.report = report /\ ~r.learning
           /\ r.answer = "none" => report = "failed" /\ call[c].answer = "none"
  BY <1>1, <1>5, OverRequest
<1>7. Honest(r)
  BY <1>5, <1>6 DEF Honest, Request
<1>8. Calls'
  <2>1. call' = [call EXCEPT ![c] = r] /\ call' \in [Click -> Request]
    BY <1>1, <1>4, <1>6
  <2>2. \A d \in Click : Honest(call[d])'
    BY <1>1, <1>4, <1>7, <2>1 DEF Calls, Honest
  <2>3. verb' \in {"?", "POST", "GET"} /\ (verb' = "POST" => "POST" \in takes)
    BY <1>1, <1>2, <1>4 DEF Calls, Honest, Request
  <2> QED BY <1>1, <1>4, <2>1, <2>2, <2>3 DEF Calls
<1>9. \A g \in stale' : g \notin News(call, c)
  <2>1. News(call, c) \subseteq (IF good THEN Changed(call[c].kind) ELSE {})
    <3>1. call[c].acted \in {0, 1}
      BY <1>1 DEF Request
    <3>2. call[c].acted > 0 => call[c].answer = "ok"
      BY <1>5, <3>1
    <3>3. call[c].answer = "ok" => good
      BY <1>2
    <3> QED BY <3>2, <3>3 DEF News
  <2> QED BY <1>4, <2>1, ToldAll
<1>10. /\ \A d \in Click \ {c} : call'[d] = call[d]
       /\ \A g \in stale' : g \in stale /\ (g \in owed => g \in owed')
  BY <1>1, <1>4, <1>6
<1>11. StaleIsExplained'
  BY <1>1, <1>4, <1>9, <1>10, StillExplained
<1> QED BY <1>8, <1>11 DEF ActInv

LEMMA LostActInv ==
  ASSUME ActInv, NEW c \in Click, Lost(c)
  PROVE  ActInv'
<1>1. call[c] \in Request /\ Honest(call[c]) /\ call \in [Click -> Request] /\ Calls /\ StaleIsExplained
  BY DEF ActInv, Calls
<1>2. PICK r \in Request :
           /\ Over(c, "failed") = [call EXCEPT ![c] = r]
           /\ r.at = "over" /\ r.acted = call[c].acted /\ r.report = "failed" /\ ~r.learning
           /\ r.answer = "none" => call[c].answer = "none"
  BY <1>1, OverRequest
<1>3. call[c].at \in {"sent", "answered"} /\ UNCHANGED <<takes, verb, stale, hooks>>
  BY DEF Lost
<1>4. Honest(r)
  BY <1>1, <1>2, <1>3 DEF Honest
<1>5. call' = [call EXCEPT ![c] = r]
  BY <1>2 DEF Lost
<1>6. Calls'
  BY <1>1, <1>3, <1>4, <1>5, OneCall
<1>7. \A g \in stale : g \in owed \/ g \in News(call, c) => g \in owed'
  BY DEF Lost, News
<1>8. StaleIsExplained'
  BY <1>1, <1>3, <1>5, <1>7, StillExplained
<1> QED BY <1>6, <1>8 DEF ActInv

LEMMA LateActInv ==
  ASSUME ActInv, NEW c \in Click, HandledLate(c)
  PROVE  ActInv'
<1>1. call[c] \in Request /\ Honest(call[c]) /\ call \in [Click -> Request] /\ Calls /\ StaleIsExplained
  BY DEF ActInv, Calls
<1>2. PICK r : r = [call[c] EXCEPT !.answer = "ok", !.acted = call[c].acted + 1]
  OBVIOUS
<1>3. /\ call[c].at = "over" /\ call[c].report = "failed" /\ call[c].acted = 0
      /\ UNCHANGED <<takes, verb, hooks>>
      /\ call' = [call EXCEPT ![c] = r]
      /\ stale' = stale \cup Changed(call[c].kind) /\ owed' = owed \cup Changed(call[c].kind)
  BY <1>1, <1>2 DEF HandledLate, Honest
<1>4. /\ r \in Request /\ r.at = "over" /\ r.report = "failed" /\ r.answer = "ok" /\ r.acted = 1
      /\ r.learning = call[c].learning /\ r.kind = call[c].kind
  <2>1. r = [call[c] EXCEPT !.answer = "ok", !.acted = 1]
    BY <1>2, <1>3
  <2> QED BY <1>1, <1>3, <2>1 DEF Request, Answers
<1>5. Honest(r)
  BY <1>1, <1>4 DEF Honest
<1>6. Calls'
  BY <1>1, <1>3, <1>4, <1>5, OneCall
<1>7. News(call, c) = {}
  BY <1>3 DEF News
<1>8. StaleIsExplained'
  BY <1>1, <1>3, <1>7, StillExplained
<1> QED BY <1>6, <1>8 DEF ActInv

\* Coolify's own changes, its webhooks, and time: no request changes.
LEMMA WorldCalls ==
  ASSUME Calls, UNCHANGED <<verb, call>>, UNCHANGED takes \/ Upgrade
  PROVE  Calls'
<1>1. CASE UNCHANGED takes
  BY <1>1 DEF Calls, Honest
<1>2. CASE Upgrade
  <2>1. takes = {"GET"} /\ takes' = {"POST"}
    BY <1>2 DEF Upgrade
  <2>2. \A c \in Click : Honest(call[c])'
    BY <2>1 DEF Calls, Honest
  <2> QED BY <2>1, <2>2 DEF Calls
<1> QED BY <1>1, <1>2

LEMMA WorldActInv ==
  ASSUME ActInv,
         \/ Upgrade \/ (\E event \in Events : Happens(event))
         \/ (\E h \in hooks : Delivered(h) \/ Undelivered(h)) \/ (\E g \in stale : Expire(g))
  PROVE  ActInv'
<1>1. UNCHANGED <<verb, call>> /\ (UNCHANGED takes \/ Upgrade)
  BY DEF Upgrade, Happens, Delivered, Undelivered, Expire
<1>2. Calls'
  BY <1>1, WorldCalls DEF ActInv
<1>3. call' = call
  BY <1>1
<1>4. ByGroup(stale, owed, call, hooks) /\ (StaleIsExplained' <=> ByGroup(stale', owed', call, hooks'))
  BY <1>3, Explained DEF ActInv
<1>5. CASE Upgrade
  <2>1. stale' = stale /\ owed' = owed /\ hooks' = hooks
    BY <1>5 DEF Upgrade
  <2> QED BY <1>2, <1>4, <2>1 DEF ActInv
<1>6. ASSUME NEW event \in Events, Happens(event) PROVE StaleIsExplained'
  <2>1. PICK h : h = [event |-> event, of |-> happened, tries |-> MaxTries]
    OBVIOUS
  <2>2. hooks' = hooks \cup {h} /\ h.event = event /\ stale' = stale \cup Touched(event) /\ owed' = owed
    BY <1>6, <2>1 DEF Happens
  <2> QED BY <1>4, <2>2 DEF ByGroup
<1>7. ASSUME NEW h \in hooks, Delivered(h) PROVE StaleIsExplained'
  <2>1. \A i \in hooks \ {h} : i \in hooks'
    BY <1>7 DEF Delivered, Leaves
  <2>2. \A g \in stale' : g \in stale /\ g \notin HookInvalidates(h.event)
    BY <1>7 DEF Delivered
  <2>3. \A g \in stale' : g \in owed \/ g \in Touched(h.event) => g \in owed'
    BY <1>7, <2>2 DEF Delivered
  <2> QED BY <1>4, <2>1, <2>2, <2>3 DEF ByGroup
<1>8. ASSUME NEW h \in hooks, Undelivered(h) PROVE StaleIsExplained'
  <2>1. /\ hooks' = hooks \ {h} /\ stale' = stale
        /\ \A g \in stale : g \in owed \/ g \in Touched(h.event) => g \in owed'
    BY <1>8 DEF Undelivered
  <2> QED BY <1>4, <2>1 DEF ByGroup
<1>9. ASSUME NEW g \in stale, Expire(g) PROVE StaleIsExplained'
  <2>1. hooks' = hooks /\ stale' = stale \ {g} /\ owed' = owed \ {g}
    BY <1>9 DEF Expire, Drop
  <2> QED BY <1>4, <2>1 DEF ByGroup
<1> QED BY <1>2, <1>5, <1>6, <1>7, <1>8, <1>9 DEF ActInv

LEMMA AlwaysActInv == ActionSpec => []ActInv
<1>1. ActInv /\ [ActionNext]_actionVars => ActInv'
  <2> SUFFICES ASSUME ActInv, [ActionNext]_actionVars PROVE ActInv'
    OBVIOUS
  <2>1. CASE \E c \in Click : \E kind \in Kinds[c] : Submit(c, kind)
    BY <2>1, SubmitActInv
  <2>2. CASE \E c \in Click, reply \in Answers : Handled(c, reply)
    BY <2>2, HandledActInv
  <2>3. CASE \E c \in Click : TryGet(c) \/ Received(c) \/ Lost(c) \/ HandledLate(c)
    BY <2>3, TryGetActInv, ReceivedActInv, LostActInv, LateActInv
  <2>4. CASE \/ Upgrade \/ (\E event \in Events : Happens(event))
             \/ (\E h \in hooks : Delivered(h) \/ Undelivered(h)) \/ (\E g \in stale : Expire(g))
    BY <2>4, WorldActInv
  <2>5. CASE UNCHANGED actionVars
    BY <2>5 DEF actionVars, ActInv, Calls, Honest, StaleIsExplained
  <2> QED BY <2>1, <2>2, <2>3, <2>4, <2>5 DEF ActionNext
<1> QED BY <1>1, InitActInv, PTL DEF ActionSpec

\* Nothing in the cache is out of date but for news that is on its way, was lost, or that
\* no webhook tells of: however many browsers click, whatever Coolify answers and in
\* which order the webhooks come.
THEOREM StaleExplained == ActionSpec => []StaleIsExplained
<1>1. ActInv => StaleIsExplained
  BY DEF ActInv
<1> QED BY <1>1, AlwaysActInv, PTL

\* A click acts once at most, whichever verbs were tried; what is reported as done or
\* queued was done, what is reported as skipped was not; a POST that is remembered is
\* taken.
THEOREM ActsOnce == ActionSpec => []ActedOnce
<1>1. ActInv => ActedOnce
  <2> SUFFICES ASSUME ActInv PROVE ActedOnce
    OBVIOUS
  <2>1. \A c \in Click : call[c] \in Request /\ Honest(call[c])
    BY DEF ActInv, Calls
  <2>2. \A c \in Click : call[c].at \in {"idle", "sent", "answered"} => call[c].report = "none"
    BY <2>1 DEF Honest
  <2>3. \A c \in Click : call[c].acted \in {0, 1} /\ call[c].at \in {"idle", "sent", "answered", "over"}
    BY <2>1 DEF Request
  <2> QED BY <2>1, <2>2, <2>3 DEF ActInv, Calls, Honest, ActedOnce
<1> QED BY <1>1, AlwaysActInv, PTL

-----------------------------------------------------------------------------
(* The pages that ask on their own: what they show is what was asked for last. *)

Asked == [skip : Nat, live : BOOLEAN]

\* Whoever still counts was asked for the page that is turned to, and when nobody does
\* any more its rows are there, or the page says that they are not.
TurnsInv ==
    /\ skipped \in Nat /\ turns \subseteq Asked
    /\ listError \in BOOLEAN
    /\ \A t \in turns : t.live => mountedPage /\ t.skip = skipped
    /\ mountedPage /\ (\A t \in turns : ~t.live) => listError \/ listing.skip = skipped
    /\ ~mountedPage => listing = NoPage

LoadOf == [n : Nat, stage : {"ask", "logs"}, read : Nat, mine : BOOLEAN]

\* A load that met no other reads the application as it is, and then shows it.
LoadsInv ==
    /\ facts \in Nat /\ loads \subseteq LoadOf
    /\ ~overlapped =>
         /\ \A l, m \in loads : l = m
         /\ loads = {} /\ ~detailError => detail \in {0, facts}
         /\ \A l \in loads : /\ l.stage = "ask" => l.read \in {0, facts}
                             /\ l.stage = "logs" /\ ~detailError => detail = facts

PagesInv == TurnsInv /\ LoadsInv

LEMMA InitPagesInv == PagesInit => PagesInv
<1> SUFFICES ASSUME PagesInit PROVE PagesInv
  OBVIOUS
<1>1. TurnsInv
  BY DEF PagesInit, HistoryInit, TurnsInv, NoPage
<1>2. LoadsInv
  BY DEF PagesInit, DetailInit, LoadsInv
<1> QED BY <1>1, <1>2 DEF PagesInv

\* After the effect the one request that counts is the one it sends.
LEMMA TurnTurns ==
  ASSUME TurnsInv, NEW skip \in Nat, Turn(skip), mountedPage'
  PROVE  TurnsInv'
<1>1. \A t \in turns : [t EXCEPT !.live = FALSE] \in Asked /\ ~[t EXCEPT !.live = FALSE].live
  BY DEF TurnsInv, Asked
<1>2. PICK mine : mine = [skip |-> skip, live |-> TRUE]
  OBVIOUS
<1>3. mine \in Asked /\ mine.live /\ mine.skip = skip
  BY <1>2 DEF Asked
<1>4. /\ turns' = {[t EXCEPT !.live = FALSE] : t \in turns} \cup {mine}
      /\ skipped' = skip /\ listError' = FALSE
  BY <1>2 DEF Turn
<1>5. \A t \in turns' : t \in Asked /\ (t.live => t = mine)
  BY <1>1, <1>3, <1>4
<1>6. mine \in turns'
  BY <1>4
<1> QED BY <1>3, <1>4, <1>5, <1>6 DEF TurnsInv

\* The pager and the answers of the history.
LEMMA HistoryTurns ==
  ASSUME TurnsInv,
         \/ Mounts \/ LeavesPage \/ Newer \/ Older
         \/ \E t \in turns, total \in 0 .. MaxTotal : TurnAnswered(t, total)
         \/ \E t \in turns : TurnFails(t)
  PROVE  TurnsInv' /\ UNCHANGED detailVars
<1> USE PageConstants
<1>1. CASE Mounts
  BY <1>1, TurnTurns DEF Mounts
<1>2. CASE LeavesPage
  <2>1. \A t \in turns : [t EXCEPT !.live = FALSE] \in Asked /\ ~[t EXCEPT !.live = FALSE].live
    BY DEF TurnsInv, Asked
  <2>2. \A t \in turns' : t \in Asked /\ ~t.live
    BY <1>2, <2>1 DEF LeavesPage
  <2> QED BY <1>2, <2>2 DEF LeavesPage, TurnsInv, NoPage
<1>3. CASE Newer
  <2>1. (IF skipped > PageSize THEN skipped - PageSize ELSE 0) \in Nat
    BY DEF TurnsInv
  <2> QED BY <1>3, <2>1, TurnTurns DEF Newer
<1>4. CASE Older
  <2>1. skipped + PageSize \in Nat
    BY DEF TurnsInv
  <2> QED BY <1>4, <2>1, TurnTurns DEF Older
<1>5. ASSUME NEW t \in turns, NEW total, TurnAnswered(t, total)
      PROVE  TurnsInv' /\ UNCHANGED detailVars
  <2>1. t.live => listing'.skip = skipped
    BY <1>5 DEF TurnAnswered, Counts, TurnsInv
  <2>2. ~t.live => listing' = listing
    BY <1>5 DEF TurnAnswered, Counts
  <2>3. t.live => mountedPage
    BY DEF TurnsInv
  <2>4. turns' = turns \ {t} /\ UNCHANGED <<mountedPage, skipped, listError, detailVars>>
    BY <1>5 DEF TurnAnswered
  <2>5. CASE t.live
    BY <2>1, <2>3, <2>4, <2>5 DEF TurnsInv
  <2>6. CASE ~t.live
    BY <2>2, <2>4, <2>6 DEF TurnsInv
  <2> QED BY <2>5, <2>6
<1>6. ASSUME NEW t \in turns, TurnFails(t)
      PROVE  TurnsInv' /\ UNCHANGED detailVars
  <2>1. /\ turns' = turns \ {t} /\ UNCHANGED <<mountedPage, skipped, listing, detailVars>>
        /\ listError' = (t.live \/ listError)
    BY <1>6 DEF TurnFails, Counts
  <2>2. CASE t.live
    <3>1. listError' = TRUE
      BY <2>1, <2>2
    <3> QED BY <2>1, <3>1 DEF TurnsInv
  <2>3. CASE ~t.live
    <3>1. listError' = listError
      BY <2>1, <2>3 DEF TurnsInv
    <3> QED BY <2>1, <2>3, <3>1 DEF TurnsInv
  <2> QED BY <2>2, <2>3
<1> QED BY <1>1, <1>2, <1>3, <1>4, <1>5, <1>6

\* A load that begins met another, or is the only one.
LEMMA BeginsLoads ==
  ASSUME LoadsInv, NEW mine \in BOOLEAN, Loads(mine), facts' \in Nat
  PROVE  LoadsInv'
<1>1. PICK n \in 1 .. MaxLoads : loads' = loads \cup {[n |-> n, stage |-> "ask", read |-> 0, mine |-> mine]}
  BY DEF Loads
<1>2. PICK new : new = [n |-> n, stage |-> "ask", read |-> 0, mine |-> mine]
  OBVIOUS
<1>3. /\ new \in LoadOf /\ new.stage = "ask" /\ new.read = 0 /\ loads' = loads \cup {new}
      /\ overlapped' = (loads # {})
  BY <1>1, <1>2 DEF LoadOf, Loads
<1>4. CASE loads = {}
  <2>1. \A l \in loads' : l = new
    BY <1>3, <1>4
  <2>2. loads' # {} /\ loads' \subseteq LoadOf
    BY <1>3, <1>4
  <2> QED BY <1>3, <2>1, <2>2 DEF LoadsInv
<1>5. CASE loads # {}
  <2>1. overlapped'
    BY <1>3, <1>5
  <2> QED BY <1>3, <2>1 DEF LoadsInv
<1> QED BY <1>4, <1>5

\* The detail: a load is replaced by itself one step further, or is over.
LEMMA DetailLoads ==
  ASSUME LoadsInv,
         \/ Refresh \/ Acts
         \/ \E l \in loads : Reads(l) \/ DetailArrives(l, TRUE) \/ DetailArrives(l, FALSE) \/ LogsArrive(l)
  PROVE  LoadsInv' /\ UNCHANGED historyVars
<1>1. CASE Refresh
  BY <1>1, BeginsLoads DEF Refresh, LoadsInv
<1>2. CASE Acts
  <2>1. Loads(TRUE) /\ facts' = facts + 1 /\ UNCHANGED historyVars
    BY <1>2 DEF Acts
  <2>2. facts' \in Nat
    BY <2>1 DEF LoadsInv
  <2> QED BY <2>1, <2>2, BeginsLoads
<1>3. ASSUME NEW l \in loads, Reads(l) PROVE LoadsInv' /\ UNCHANGED historyVars
  <2>1. PICK next : next = [l EXCEPT !.read = facts]
    OBVIOUS
  <2>2. /\ loads' = (loads \ {l}) \cup {next} /\ UNCHANGED <<facts, detail, detailError, overlapped, historyVars>>
        /\ next \in LoadOf /\ next.stage = l.stage /\ next.read = facts
    BY <1>3, <2>1 DEF Reads, LoadsInv, LoadOf
  <2>3. CASE ~overlapped
    <3>1. loads' = {next} /\ (l.stage = "logs" /\ ~detailError => detail = facts)
      BY <2>2, <2>3 DEF LoadsInv
    <3> QED BY <2>2, <3>1 DEF LoadsInv
  <2>4. CASE overlapped
    BY <2>2, <2>4 DEF LoadsInv
  <2> QED BY <2>3, <2>4
<1>4. ASSUME NEW l \in loads, NEW ok \in BOOLEAN, DetailArrives(l, ok)
      PROVE  LoadsInv' /\ UNCHANGED historyVars
  <2>1. PICK next : next = [l EXCEPT !.stage = "logs", !.read = 0]
    OBVIOUS
  <2>2. /\ loads' = (loads \ {l}) \cup {next} /\ UNCHANGED <<facts, overlapped, historyVars>>
        /\ next \in LoadOf /\ next.stage = "logs" /\ next.read = 0
        /\ l.stage = "ask" /\ (ok => l.read # 0 /\ detail' = l.read) /\ (~ok => detailError')
    BY <1>4, <2>1 DEF DetailArrives, LoadsInv, LoadOf
  <2>3. CASE ~overlapped
    <3>1. loads' = {next} /\ l.read \in {0, facts}
      BY <2>2, <2>3 DEF LoadsInv
    <3>2. ~detailError' => detail' = facts
      BY <2>2, <3>1
    <3> QED BY <2>2, <3>1, <3>2 DEF LoadsInv
  <2>4. CASE overlapped
    BY <2>2, <2>4 DEF LoadsInv
  <2> QED BY <2>3, <2>4
<1>5. ASSUME NEW l \in loads, LogsArrive(l) PROVE LoadsInv' /\ UNCHANGED historyVars
  <2>1. /\ loads' = loads \ {l} /\ UNCHANGED <<facts, detail, detailError, overlapped, historyVars>>
        /\ l.stage = "logs"
    BY <1>5 DEF LogsArrive
  <2>2. CASE ~overlapped
    <3>1. loads' = {} /\ (~detailError => detail = facts)
      BY <2>1, <2>2 DEF LoadsInv
    <3> QED BY <2>1, <3>1 DEF LoadsInv
  <2>3. CASE overlapped
    BY <2>1, <2>3 DEF LoadsInv
  <2> QED BY <2>2, <2>3
<1> QED BY <1>1, <1>2, <1>3, <1>4, <1>5

\* The rows are those of the page the buttons speak of, and what is shown of an
\* application is not older than an action that is over: whatever was asked for in
\* between, in whatever order the answers come, and whichever of them fail.
THEOREM PagesCurrent == PagesSpec => []PagesAreCurrent
<1>1. PagesInv /\ [PagesNext]_pageVars => PagesInv'
  <2> SUFFICES ASSUME PagesInv, [PagesNext]_pageVars PROVE PagesInv'
    OBVIOUS
  <2>1. UNCHANGED detailVars => LoadsInv'
    BY DEF PagesInv, LoadsInv, detailVars
  <2>2. UNCHANGED historyVars => TurnsInv'
    BY DEF PagesInv, TurnsInv, historyVars
  <2>3. \/ TurnsInv' /\ UNCHANGED detailVars
        \/ LoadsInv' /\ UNCHANGED historyVars
        \/ UNCHANGED pageVars
    BY HistoryTurns, DetailLoads DEF PagesNext, PagesInv
  <2>4. UNCHANGED pageVars => UNCHANGED detailVars /\ UNCHANGED historyVars
    BY DEF pageVars
  <2> QED BY <2>1, <2>2, <2>3, <2>4 DEF PagesInv
<1>2. PagesInv => PagesAreCurrent
  BY DEF PagesInv, TurnsInv, LoadsInv, PagesAreCurrent, RowsOfThePage, DetailAfterAct
<1> QED BY <1>1, <1>2, InitPagesInv, PTL DEF PagesSpec

-----------------------------------------------------------------------------
(* The log of a build in a tab: frames and payloads fit together. *)

\* Unless the poller began anew while the tab held a tail: the lines are the beginning of
\* the log, or fewer than the poller has pushed, so that no frame lands among them.
LinesInv ==
    /\ built \in Nat /\ pushed \in 0 .. built
    /\ held \in Seq(Nat)
    /\ restarted \in BOOLEAN
    /\ ~restarted => /\ Contiguous(held)
                     /\ Beginning(held) \/ Len(held) < pushed
                     /\ complete => Beginning(held)

\* The lines from the first to n, and those after `from` up to n.
LEMMA UptoLines ==
  ASSUME NEW n \in Nat
  PROVE  /\ Upto(n) \in Seq(Nat) /\ Len(Upto(n)) = n /\ Beginning(Upto(n)) /\ Contiguous(Upto(n))
         /\ \A i \in 1 .. n : Upto(n)[i] = i
<1>1. Upto(n) \in [1 .. n -> Nat] /\ \A i \in 1 .. n : Upto(n)[i] = i
  BY DEF Upto
<1>2. Upto(n) \in Seq(Nat)
  BY <1>1, SeqDef
<1>3. Len(Upto(n)) = n
  BY <1>1, <1>2, LenProperties
<1>4. Beginning(Upto(n))
  BY <1>3 DEF Beginning
<1>5. Contiguous(Upto(n))
  BY <1>1, <1>3 DEF Contiguous
<1> QED BY <1>1, <1>2, <1>3, <1>4, <1>5

LEMMA TailLines ==
  ASSUME NEW to \in Nat, NEW from \in Nat, from < to
  PROVE  LET tail == SubSeq(Upto(to), from + 1, to) IN
         /\ tail \in Seq(Nat) /\ Len(tail) = to - from
         /\ \A i \in 1 .. to - from : tail[i] = from + i
<1>1. \A i \in from + 1 .. to : Upto(to)[i] \in Nat /\ Upto(to)[i] = i
  BY UptoLines
<1>2. /\ SubSeq(Upto(to), from + 1, to) \in Seq(Nat)
      /\ Len(SubSeq(Upto(to), from + 1, to)) = IF from + 1 <= to THEN to - (from + 1) + 1 ELSE 0
      /\ \A i \in 1 .. to - (from + 1) + 1 : SubSeq(Upto(to), from + 1, to)[i] = Upto(to)[from + 1 + i - 1]
  BY <1>1, SubSeqProperties
<1>3. \A i \in 1 .. to - from : SubSeq(Upto(to), from + 1, to)[i] = from + i
  <2> TAKE i \in 1 .. to - from
  <2>1. i \in 1 .. to - (from + 1) + 1 /\ from + i \in from + 1 .. to /\ from + 1 + i - 1 = from + i
    OBVIOUS
  <2> QED BY <1>1, <1>2, <2>1
<1> QED BY <1>2, <1>3

\* A sequence of numbers that count from 1 is the beginning of the log.
LEMMA CountedLines ==
  ASSUME NEW lines \in Seq(Nat), \A i \in 1 .. Len(lines) : lines[i] = i
  PROVE  Beginning(lines)
<1>1. Len(lines) \in Nat
  BY LenProperties
<1>2. Upto(Len(lines)) \in Seq(Nat) /\ Len(Upto(Len(lines))) = Len(lines)
      /\ \A i \in 1 .. Len(lines) : Upto(Len(lines))[i] = i
  BY <1>1, UptoLines
<1> QED BY <1>2, SeqEqual DEF Beginning

\* A frame lands where it belongs, whatever is there.
LEMMA FramedTyped ==
  ASSUME NEW lines \in Seq(Nat), NEW to \in Nat, NEW from \in Nat, from < to
  PROVE  Framed(lines, from, to) \in Seq(Nat)
<1>1. SubSeq(Upto(to), from + 1, to) \in Seq(Nat)
  BY TailLines
<1>2. CASE Len(lines) < from
  BY <1>1, <1>2 DEF Framed
<1>3. CASE ~(Len(lines) < from)
  <2>1. Len(lines) \in Nat
    BY LenProperties
  <2>2. \A i \in 1 .. from : lines[i] \in Nat
    BY <1>3, <2>1, ElementOfSeq
  <2>3. SubSeq(lines, 1, from) \in Seq(Nat)
    BY <2>2, SubSeqProperties
  <2> QED BY <1>1, <1>3, <2>3, ConcatProperties DEF Framed
<1> QED BY <1>2, <1>3

\* ... and if it lands after the beginning of the log, or past all that is there, then
\* what is there afterwards has no gap.
LEMMA FramedLines ==
  ASSUME NEW lines \in Seq(Nat), NEW to \in Nat, NEW from \in Nat, from < to,
         Beginning(lines) \/ Len(lines) < from
  PROVE  /\ Contiguous(Framed(lines, from, to))
         /\ Beginning(Framed(lines, from, to)) \/ Len(Framed(lines, from, to)) < to
<1> DEFINE tail == SubSeq(Upto(to), from + 1, to)
<1>1. tail \in Seq(Nat) /\ Len(tail) = to - from /\ \A i \in 1 .. to - from : tail[i] = from + i
  BY TailLines
<1>2. Len(lines) \in Nat
  BY LenProperties
<1>3. CASE Len(lines) < from
  <2>1. Framed(lines, from, to) = tail
    BY <1>3 DEF Framed
  <2> HIDE DEF tail
  <2>2. Contiguous(tail)
    BY <1>1 DEF Contiguous
  <2> QED BY <1>1, <1>2, <1>3, <2>1, <2>2
<1>4. CASE ~(Len(lines) < from)
  <2> DEFINE head == SubSeq(lines, 1, from)
  <2>1. \A i \in 1 .. from : lines[i] = i /\ lines[i] \in Nat
    <3>1. lines = Upto(Len(lines))
      BY <1>2, <1>4 DEF Beginning
    <3>2. \A i \in 1 .. Len(lines) : Upto(Len(lines))[i] = i
      BY <1>2, UptoLines
    <3>3. \A i \in 1 .. from : i \in 1 .. Len(lines) /\ i \in Nat
      BY <1>2, <1>4
    <3> QED BY <3>1, <3>2, <3>3
  <2>2. head \in Seq(Nat) /\ Len(head) = from /\ \A i \in 1 .. from : head[i] = i
    <3>1. /\ head \in Seq(Nat) /\ Len(head) = IF 1 <= from THEN from - 1 + 1 ELSE 0
          /\ \A i \in 1 .. from - 1 + 1 : head[i] = lines[1 + i - 1]
      BY <2>1, SubSeqProperties
    <3> HIDE DEF head
    <3>2. \A i \in 1 .. from : i \in 1 .. from - 1 + 1 /\ 1 + i - 1 = i
      OBVIOUS
    <3> QED BY <2>1, <3>1, <3>2
  <2>3. Framed(lines, from, to) = head \o tail
    BY <1>4 DEF Framed
  <2> HIDE DEF head, tail
  <2>4. /\ head \o tail \in Seq(Nat) /\ Len(head \o tail) = Len(head) + Len(tail)
        /\ \A i \in 1 .. Len(head) + Len(tail) :
             (head \o tail)[i] = IF i <= Len(head) THEN head[i] ELSE tail[i - Len(head)]
    BY <1>1, <2>2, ConcatProperties
  <2>5. Len(head \o tail) = to /\ \A i \in 1 .. to : (head \o tail)[i] = i
    <3>1. Len(head) + Len(tail) = to
      BY <1>1, <2>2
    <3>2. ASSUME NEW i \in 1 .. to PROVE (head \o tail)[i] = i
      <4>1. CASE i <= from
        BY <2>2, <2>4, <3>1, <4>1
      <4>2. CASE ~(i <= from)
        <5>1. i - from \in 1 .. to - from /\ from + (i - from) = i
          BY <4>2
        <5> QED BY <1>1, <2>2, <2>4, <3>1, <4>2, <5>1
      <4> QED BY <4>1, <4>2
    <3> QED BY <2>4, <3>1, <3>2
  <2>6. Beginning(head \o tail)
    BY <2>4, <2>5, CountedLines
  <2>7. Contiguous(head \o tail)
    BY <2>5 DEF Contiguous
  <2> QED BY <2>3, <2>6, <2>7
<1> QED BY <1>3, <1>4

\* No line at all.
LEMMA NoLines == <<>> \in Seq(Nat) /\ Beginning(<<>>) /\ Contiguous(<<>>)
<1>1. PICK none : none = <<>>
  OBVIOUS
<1>2. none \in Seq(Nat) /\ Len(none) = 0
  BY <1>1, EmptySeq
<1>3. \A i \in 1 .. Len(none) : none[i] = i
  BY <1>2
<1>4. Beginning(none)
  BY <1>2, <1>3, CountedLines
<1>5. Contiguous(none)
  BY <1>2 DEF Contiguous
<1> QED BY <1>1, <1>2, <1>4, <1>5

LEMMA InitLinesInv == LogInit => LinesInv
<1> SUFFICES ASSUME LogInit PROVE LinesInv
  OBVIOUS
<1>1. held \in Seq(Nat) /\ Beginning(held) /\ Contiguous(held)
  BY NoLines DEF LogInit
<1>2. built = 0 /\ pushed = 0 /\ restarted = FALSE /\ complete = FALSE
  BY DEF LogInit
<1>3. built \in Nat /\ pushed \in 0 .. built
  BY <1>2
<1>4. restarted \in BOOLEAN /\ ~complete
  BY <1>2
<1> QED BY <1>1, <1>3, <1>4 DEF LinesInv

\* A frame lands, or passes this tab by.
LEMMA PollerLines ==
  ASSUME LinesInv, NEW n \in 0 .. built, PollerReads(n)
  PROVE  LinesInv'
<1>1. PICK from : from = IF n - pushed > FrameLines THEN n - FrameLines ELSE pushed
  OBVIOUS
<1>2. /\ n > pushed /\ pushed' = n /\ built' = built
      /\ \/ complete' = FALSE /\ Holds(Framed(held, from, n))
         \/ UNCHANGED <<held, complete, restarted>>
  BY <1>1 DEF PollerReads
<1>3. n \in Nat /\ from \in Nat /\ from < n /\ pushed <= from /\ pushed' \in 0 .. built'
  BY <1>1, <1>2, TickerConstants DEF LinesInv
<1>4. held \in Seq(Nat) /\ Len(held) \in Nat /\ built \in Nat /\ pushed \in Nat
  BY LenProperties DEF LinesInv
<1>5. CASE complete' = FALSE /\ Holds(Framed(held, from, n))
  <2>1. held' \in Seq(Nat) /\ held' = Framed(held, from, n)
    BY <1>3, <1>4, <1>5, FramedTyped DEF Holds
  <2>2. restarted' = (restarted /\ ~Beginning(held'))
    BY <1>5, <2>1 DEF Holds
  <2>3. CASE ~restarted
    <3>1. Beginning(held) \/ Len(held) < from
      BY <1>3, <1>4, <2>3 DEF LinesInv
    <3>2. Contiguous(held') /\ (Beginning(held') \/ Len(held') < n)
      BY <1>3, <1>4, <2>1, <3>1, FramedLines
    <3>3. restarted' = FALSE
      BY <2>2, <2>3
    <3> QED BY <1>2, <1>3, <1>4, <1>5, <2>1, <3>2, <3>3 DEF LinesInv
  <2>4. CASE restarted /\ Beginning(held')
    <3>1. restarted' = FALSE
      BY <2>2, <2>4
    <3>2. Len(held') \in Nat
      BY <2>1, LenProperties
    <3>3. Contiguous(held')
      BY <2>4, <3>2, UptoLines DEF Beginning
    <3> QED BY <1>2, <1>3, <1>4, <1>5, <2>1, <2>4, <3>1, <3>3 DEF LinesInv
  <2>5. CASE restarted /\ ~Beginning(held')
    <3>1. restarted' = TRUE
      BY <2>2, <2>5
    <3> QED BY <1>2, <1>3, <1>4, <2>1, <3>1 DEF LinesInv
  <2> QED BY <2>3, <2>4, <2>5 DEF LinesInv
<1>6. CASE UNCHANGED <<held, complete, restarted>>
  <2>1. Contiguous(held)' = Contiguous(held) /\ Beginning(held)' = Beginning(held)
    BY <1>6
  <2>2. Len(held) < pushed => Len(held)' < pushed'
    BY <1>2, <1>3, <1>4, <1>6
  <2> QED BY <1>2, <1>3, <1>4, <1>6, <2>1, <2>2 DEF LinesInv
<1> QED BY <1>2, <1>5, <1>6

\* A payload holds the longer of two logs, or none.
LEMMA PayloadLines ==
  ASSUME LinesInv, (\E n \in 0 .. built : PayloadHas(n)) \/ PayloadLacks
  PROVE  LinesInv'
<1>1. UNCHANGED <<built, pushed>> /\ held \in Seq(Nat) /\ Len(held) \in Nat /\ built \in Nat /\ pushed \in 0 .. built
  BY LenProperties DEF PayloadHas, PayloadLacks, LinesInv
<1>2. ASSUME held' \in Seq(Nat), Beginning(held'), restarted' = (restarted /\ ~Beginning(held'))
      PROVE  LinesInv'
  <2>1. Len(held') \in Nat
    BY <1>2, LenProperties
  <2>2. Contiguous(held')
    BY <1>2, <2>1, UptoLines DEF Beginning
  <2>3. restarted' = FALSE
    BY <1>2
  <2> QED BY <1>1, <1>2, <2>2, <2>3 DEF LinesInv
<1>3. CASE PayloadLacks
  <2>1. <<>> \in Seq(Nat) /\ Beginning(<<>>)
    BY NoLines
  <2> QED BY <1>2, <1>3, <2>1 DEF PayloadLacks, Holds
<1>4. ASSUME NEW n \in 0 .. built, PayloadHas(n) PROVE LinesInv'
  <2>1. n \in Nat
    BY <1>1
  <2>2. CASE n > Len(held)
    <3>1. held' = Upto(n) /\ restarted' = (restarted /\ ~Beginning(held'))
      BY <1>4, <2>2 DEF PayloadHas, Holds
    <3> QED BY <1>2, <2>1, <3>1, UptoLines
  <2>3. CASE ~(n > Len(held))
    <3>1. held' = held /\ restarted' = (restarted /\ ~Beginning(held)) /\ complete' = (n = built)
      BY <1>4, <2>3 DEF PayloadHas, Holds
    <3>2. CASE Beginning(held)
      BY <1>1, <1>2, <3>1, <3>2
    <3>3. CASE ~Beginning(held)
      <4>1. restarted' = restarted /\ restarted \in BOOLEAN
        BY <3>1, <3>3 DEF LinesInv
      <4>2. ~restarted => Contiguous(held) /\ Len(held) < pushed
        BY <3>3 DEF LinesInv
      <4>3. ~restarted => n # built
        BY <1>1, <2>1, <2>3, <4>2
      <4> QED BY <1>1, <3>1, <4>1, <4>2, <4>3 DEF LinesInv
    <3> QED BY <3>2, <3>3
  <2> QED BY <2>2, <2>3
<1> QED BY <1>3, <1>4

\* The poller stops with the last stream, and the history knows if the tab held a tail.
LEMMA StreamLines ==
  ASSUME LinesInv, NEW mine, NEW theirs, Streaming(mine, theirs)
  PROVE  LinesInv'
<1>1. UNCHANGED <<built, held, complete>> /\ held \in Seq(Nat) /\ built \in Nat /\ pushed \in 0 .. built
  BY DEF Streaming, LinesInv
<1>2. pushed' = IF mine \/ theirs THEN pushed ELSE 0
  BY DEF Streaming
<1>3. restarted' = (restarted \/ (~mine /\ ~theirs /\ ~Beginning(held))) /\ restarted \in BOOLEAN
  BY DEF Streaming, LinesInv
<1>4. CASE mine \/ theirs
  <2>1. pushed' = pushed /\ restarted' = restarted
    BY <1>2, <1>3, <1>4
  <2> QED BY <1>1, <2>1 DEF LinesInv
<1>5. CASE ~mine /\ ~theirs /\ Beginning(held)
  <2>1. pushed' = 0 /\ restarted' = restarted
    BY <1>2, <1>3, <1>5
  <2> QED BY <1>1, <1>5, <2>1 DEF LinesInv
<1>6. CASE ~mine /\ ~theirs /\ ~Beginning(held)
  <2>1. pushed' = 0 /\ restarted' = TRUE
    BY <1>2, <1>3, <1>6
  <2> QED BY <1>1, <2>1 DEF LinesInv
<1> QED BY <1>4, <1>5, <1>6

\* What a tab shows of the log of a running build has no gap and no repetition, and is the
\* log from its first line when a payload that had all of it lands - unless the poller
\* began anew while the tab held a tail: for frames and logs of any length, lists of any
\* age, and tabs that come and go.
THEOREM LogsInOrder == LogSpec => []LogInOrder
<1>1. LinesInv /\ [LogNext]_logVars => LinesInv'
  <2> SUFFICES ASSUME LinesInv, [LogNext]_logVars PROVE LinesInv'
    OBVIOUS
  <2>1. CASE Builds
    <3>1. built' = built + 1 /\ complete' = FALSE /\ UNCHANGED <<pushed, held, restarted>>
      BY <2>1 DEF Builds
    <3> QED BY <3>1 DEF LinesInv
  <2>2. CASE \E n \in 0 .. built : PollerReads(n)
    BY <2>2, PollerLines
  <2>3. CASE (\E n \in 0 .. built : PayloadHas(n)) \/ PayloadLacks
    BY <2>3, PayloadLines
  <2>4. CASE Streaming(~watching, others) \/ Streaming(watching, ~others)
    BY <2>4, StreamLines
  <2>5. CASE UNCHANGED logVars
    BY <2>5 DEF logVars, LinesInv
  <2> QED BY <2>1, <2>2, <2>3, <2>4, <2>5 DEF LogNext
<1>2. LinesInv => LogInOrder
  BY DEF LinesInv, LogInOrder
<1> QED BY <1>1, <1>2, InitLinesInv, PTL DEF LogSpec

-----------------------------------------------------------------------------
(* The palette and the ticker. *)

\* What is armed was armed since the palette opened, while it is open.
ArmedInv ==
    /\ open => shownArmed = pressedOnce
    /\ ~open => shownArmed = Nobody

LEMMA PaletteArmed ==
  ASSUME ArmedInv, PaletteNext
  PROVE  ArmedInv' /\ (ran' # ran /\ ran' \in Asking => shownArmed = ran')
<1>1. CASE Opens
  BY <1>1 DEF Opens, ArmedInv
<1>2. CASE Closes
  BY <1>2 DEF Closes, ArmedInv
<1>3. CASE Forgets
  BY <1>3 DEF Forgets, ArmedInv
<1>4. ASSUME NEW matched, Types(matched)
      PROVE  ArmedInv' /\ ran' = ran
  BY <1>4 DEF Types, ArmedInv
<1>5. ASSUME NEW step, Arrow(step)
      PROVE  ArmedInv' /\ ran' = ran
  BY <1>5 DEF Arrow, ArmedInv
<1>6. ASSUME NEW i, Hovers(i)
      PROVE  ArmedInv' /\ ran' = ran
  BY <1>6 DEF Hovers, ArmedInv
<1>7. ASSUME NEW list, Refreshes(list)
      PROVE  ArmedInv' /\ ran' = ran
  BY <1>7 DEF Refreshes, ArmedInv
<1>8. ASSUME NEW i, Presses(i)
      PROVE  ArmedInv' /\ (ran' # ran /\ ran' \in Asking => shownArmed = ran')
  <2>1. PICK chosen : chosen = Items[i]
    OBVIOUS
  <2>2. CASE chosen \in Asking /\ pressedOnce # chosen
    BY <1>8, <2>1, <2>2 DEF Presses, ArmedInv
  <2>3. CASE ~(chosen \in Asking /\ pressedOnce # chosen)
    BY <1>8, <2>1, <2>3 DEF Presses, ArmedInv
  <2> QED BY <2>2, <2>3
<1> QED BY <1>1, <1>2, <1>3, <1>4, <1>5, <1>6, <1>7, <1>8 DEF PaletteNext

\* "destructive entries ask once": whatever list the palette is given and however it
\* refreshes, an entry that asks first runs on its second press, both of one opening.
THEOREM DestructiveAsks == WidgetSpec => DestructiveAsksOnce
<1>1. WidgetInit => ArmedInv
  BY DEF WidgetInit, PaletteInit, ArmedInv
<1>2. ArmedInv /\ [WidgetNext]_widgetVars =>
        ArmedInv' /\ (ran' # ran /\ ran' \in Asking => shownArmed = ran')
  <2> SUFFICES ASSUME ArmedInv, [WidgetNext]_widgetVars
               PROVE  ArmedInv' /\ (ran' # ran /\ ran' \in Asking => shownArmed = ran')
    OBVIOUS
  <2>1. CASE PaletteNext
    BY <2>1, PaletteArmed
  <2>2. CASE UNCHANGED paletteVars
    BY <2>2 DEF paletteVars, ArmedInv
  <2>3. TickerNext => UNCHANGED paletteVars
    BY DEF TickerNext, Cancels, Resumes, Streams, Blurs, Sharpens, LogIs
  <2>4. UNCHANGED widgetVars => UNCHANGED paletteVars
    BY DEF widgetVars
  <2> QED BY <2>1, <2>2, <2>3, <2>4 DEF WidgetNext
<1>3. ArmedInv /\ [WidgetNext]_widgetVars => ArmedInv'
  BY <1>2
<1>4. ArmedInv /\ [WidgetNext]_widgetVars =>
        [ran' # ran /\ ran' \in Asking => shownArmed = ran']_widgetVars
  BY <1>2
<1> QED BY <1>1, <1>3, <1>4, PTL DEF WidgetSpec, DestructiveAsksOnce

\* A line that is blurring, or a timer that will blur one, is of a log with lines whose
\* deployment has not been cancelled.
BlurInv ==
    /\ logLines \in Nat /\ index \in Int
    /\ cancelled \in BOOLEAN /\ streaming \in BOOLEAN
    /\ timer \in {"none", "wait", "blur"}
    /\ cancelled => ~swapping
    /\ timer # "none" => ~cancelled /\ logLines > 0

LEMMA EffectBlur ==
  ASSUME NEW lines \in Nat, NEW at, NEW stream, NEW over \in BOOLEAN, Effect(lines, at, stream, over)
  PROVE  /\ timer' \in {"none", "wait", "blur"}
         /\ timer' # "none" => ~over /\ lines > 0
         /\ over \/ lines = 0 => ~swapping'
         /\ ~over /\ lines > 0 => swapping' = swapping
BY DEF Effect

\* The next line is in the log, and one of the newest on a stream.
LEMMA NextIndexNew ==
  ASSUME BlurInv, logLines > 0
  PROVE  NextIndex(index) \in Int /\ (streaming => logLines - NextIndex(index) <= Backlog)
<1>1. logLines \in Nat /\ index \in Int /\ Backlog \in Nat
  BY WidgetConstants DEF BlurInv
<1>2. CASE streaming
  BY <1>1, <1>2 DEF NextIndex, Larger, Smaller
<1>3. CASE ~streaming
  <2>1. (index + 1) % logLines \in Int
    BY <1>1
  <2> QED BY <1>3, <2>1 DEF NextIndex
<1> QED BY <1>2, <1>3

Sharp ==
    /\ cancelled' => ~swapping'
    /\ timer = "blur" /\ swapping /\ ~swapping' /\ streaming' /\ ~cancelled' /\ logLines' > 0
         => logLines' - index' <= Backlog

LEMMA TickerBlur ==
  ASSUME BlurInv, TickerNext
  PROVE  BlurInv' /\ Sharp
<1>1. CASE Cancels
  <2>1. Effect(logLines, index, streaming, TRUE) /\ cancelled' = TRUE /\ UNCHANGED <<logLines, index, streaming>>
    BY <1>1 DEF Cancels
  <2> QED BY <2>1, EffectBlur DEF BlurInv, Sharp
<1>2. CASE Resumes
  <2>1. Effect(logLines, index, streaming, FALSE) /\ cancelled /\ cancelled' = FALSE
        /\ UNCHANGED <<logLines, index, streaming>>
    BY <1>2 DEF Resumes
  <2> QED BY <2>1, EffectBlur DEF BlurInv, Sharp
<1>3. CASE Streams
  <2>1. Effect(logLines, index, streaming', cancelled) /\ streaming' \in BOOLEAN
        /\ UNCHANGED <<logLines, index, cancelled>>
    BY <1>3 DEF Streams, BlurInv
  <2> QED BY <2>1, EffectBlur DEF BlurInv, Sharp
<1>4. CASE Blurs
  BY <1>4 DEF Blurs, BlurInv, Sharp
<1>5. CASE Sharpens
  <2>1. logLines > 0 /\ ~cancelled
    BY <1>5 DEF Sharpens, BlurInv
  <2>2. /\ index' = NextIndex(index) /\ swapping' = FALSE /\ timer' \in {"none", "wait"}
        /\ UNCHANGED <<logLines, cancelled, streaming>>
    BY <1>5 DEF Sharpens
  <2> QED BY <2>1, <2>2, NextIndexNew DEF BlurInv, Sharp
<1>6. ASSUME NEW n \in 0 .. Longest, LogIs(n) PROVE BlurInv' /\ Sharp
  <2>1. n \in Nat
    BY WidgetConstants
  <2>2. Effect(n, index, streaming, cancelled) /\ logLines' = n /\ UNCHANGED <<index, streaming, cancelled>>
    BY <1>6 DEF LogIs
  <2> QED BY <2>1, <2>2, EffectBlur DEF BlurInv, Sharp
<1> QED BY <1>1, <1>2, <1>3, <1>4, <1>5, <1>6 DEF TickerNext

\* "cancelling mid-swap can never leave the line blurred out", and a line that sharpens on
\* a stream is one of the newest: for logs of any length, in whatever order the timers,
\* the lines and the button come.
THEOREM TickerCurrent == WidgetSpec => TickerIsCurrent
<1>1. WidgetInit => BlurInv
  <2> SUFFICES ASSUME WidgetInit PROVE BlurInv
    OBVIOUS
  <2>1. logLines \in Nat /\ index \in Int /\ timer = "none"
    BY DEF WidgetInit, TickerInit
  <2>2. cancelled \in BOOLEAN /\ streaming \in BOOLEAN /\ ~cancelled
    BY DEF WidgetInit, TickerInit
  <2> QED BY <2>1, <2>2 DEF BlurInv
<1>2. BlurInv /\ [WidgetNext]_widgetVars => BlurInv' /\ Sharp
  <2> SUFFICES ASSUME BlurInv, [WidgetNext]_widgetVars
               PROVE  BlurInv' /\ Sharp
    OBVIOUS
  <2>1. CASE TickerNext
    BY <2>1, TickerBlur
  <2>2. CASE UNCHANGED tickerVars
    BY <2>2 DEF tickerVars, BlurInv, Sharp
  <2>3. PaletteNext => UNCHANGED tickerVars
    BY DEF PaletteNext, Opens, Closes, Forgets, Types, Arrow, Hovers, Presses, Refreshes
  <2>4. UNCHANGED widgetVars => UNCHANGED tickerVars
    BY DEF widgetVars
  <2> QED BY <2>1, <2>2, <2>3, <2>4 DEF WidgetNext
<1>3. BlurInv /\ [WidgetNext]_widgetVars => BlurInv'
  BY <1>2
<1>4. BlurInv /\ [WidgetNext]_widgetVars =>
        [/\ cancelled' => ~swapping'
         /\ timer = "blur" /\ swapping /\ ~swapping' /\ streaming' /\ ~cancelled' /\ logLines' > 0
              => logLines' - index' <= Backlog]_widgetVars
  BY <1>2 DEF Sharp
<1> QED BY <1>1, <1>3, <1>4, PTL DEF WidgetSpec, TickerIsCurrent

-----------------------------------------------------------------------------
(* The front door: how many wrong passwords are compared in a row. *)

Ask == [of : {"get", "post", "delete", "app"}, got : {"nothing", "in", "out", "broken", "body"}]

\* A form has one request under way at most.
AsksInv ==
    /\ asks \in [Tab -> SUBSET Ask]
    /\ \A t \in Tab : \A a, b \in asks[t] : a.of = "post" /\ b.of = "post" => a = b

\* The tabs whose password was let past the gate and is still to be compared.
Past == {t \in Tab : \E a \in asks[t] : a.of = "post" /\ a.got = "body"}

\* The most wrong passwords there are in a row without a lockout between two of them.
Most == MaxAttempts + Cardinality(Tab) - 1

\* The limiter counts a row of wrong passwords that began after a lockout's time without
\* one, and forgets them after the last of them has been as long ago.
Counted ==
    /\ minute \in Nat /\ wrong \in Seq(Nat)
    /\ entry \in [count : Nat, until : Nat]
    /\ entry.count <= Len(wrong)
    /\ Len(wrong) > 0 => IF entry.count > 0 THEN entry.until = wrong[Len(wrong)] + Lockout
                         ELSE minute >= wrong[Len(wrong)] + Lockout
    /\ entry.count > 0 /\ entry.count < Len(wrong) =>
         wrong[Len(wrong) - entry.count + 1] - wrong[Len(wrong) - entry.count] >= Lockout

\* Once the door is shut, only those past the gate add to the row.
Crowd == Gate(entry) => entry.count + Cardinality(Past) <= Most

\* No row is longer than that.
Spaced(times) ==
    \A i \in 1 .. Len(times) : i + Most <= Len(times) =>
      \E k \in i .. i + Most - 1 : times[k + 1] - times[k] >= Lockout

DoorInv == AsksInv /\ Counted /\ Crowd /\ Spaced(wrong)

LEMMA TabsCounted ==
  /\ IsFiniteSet(Past) /\ Past \subseteq Tab
  /\ Cardinality(Past) \in Nat /\ Cardinality(Tab) \in Nat /\ Cardinality(Past) <= Cardinality(Tab)
<1>1. IsFiniteSet(Tab) /\ Past \subseteq Tab
  BY SessionConstants DEF Past
<1> QED BY <1>1, FS_Subset, FS_CardinalityType

LEMMA InitDoorInv == SessionInit => DoorInv
<1> SUFFICES ASSUME SessionInit PROVE DoorInv
  OBVIOUS
<1>1. AsksInv
  <2>1. PICK a : a = [of |-> "get", got |-> "nothing"]
    OBVIOUS
  <2>2. a \in Ask /\ asks = [t \in Tab |-> {a}]
    BY <2>1 DEF Ask, SessionInit
  <2> QED BY <2>2 DEF AsksInv
<1>2. wrong \in Seq(Nat) /\ Len(wrong) = 0
  BY EmptySeq DEF SessionInit
<1>3. entry \in [count : Nat, until : Nat] /\ entry.count = 0 /\ minute \in Nat
  BY DEF SessionInit, NoEntry
<1>4. Counted
  BY <1>2, <1>3 DEF Counted
<1>5. Crowd
  BY <1>3, SessionConstants DEF Crowd, Gate
<1>6. Spaced(wrong)
  BY <1>2 DEF Spaced
<1> QED BY <1>1, <1>4, <1>5, <1>6 DEF DoorInv

\* An answer, a reading of one, and a request: the form's is never the second.
LEMMA GetsAsks ==
  ASSUME AsksInv, NEW t \in Tab, NEW a \in asks[t],
         NEW result \in {"nothing", "in", "out", "broken", "body"}, Gets(t, a, result)
  PROVE  /\ AsksInv'
         /\ result # "body" => Past' \subseteq Past
         /\ a.of = "post" /\ result # "body" => Past' = Past \ {t}
         /\ Past' \subseteq Past \cup {t}
<1>1. PICK next : next = [a EXCEPT !.got = result]
  OBVIOUS
<1>2. asks' = [asks EXCEPT ![t] = (asks[t] \ {a}) \cup {next}] /\ asks \in [Tab -> SUBSET Ask]
  BY <1>1 DEF Gets, AsksInv
<1>3. a \in Ask /\ next \in Ask /\ next.of = a.of /\ next.got = result
  BY <1>1, <1>2 DEF Ask
<1>4. asks' \in [Tab -> SUBSET Ask] /\ asks'[t] = (asks[t] \ {a}) \cup {next}
      /\ \A u \in Tab \ {t} : asks'[u] = asks[u]
  BY <1>2, <1>3
<1>5. AsksInv'
  BY <1>3, <1>4 DEF AsksInv
<1>6. \A u \in Tab \ {t} : u \in Past' <=> u \in Past
  BY <1>4 DEF Past
<1>7. result # "body" => (t \in Past' => t \in Past)
  BY <1>3, <1>4 DEF Past
<1>8. a.of = "post" /\ result # "body" => t \notin Past'
  BY <1>3, <1>4 DEF Past, AsksInv
<1>9. Past \subseteq Tab /\ Past' \subseteq Tab
  BY DEF Past
<1> QED BY <1>5, <1>6, <1>7, <1>8, <1>9

LEMMA ReadAsks ==
  ASSUME AsksInv, NEW t \in Tab, NEW a, Read(t, a)
  PROVE  AsksInv' /\ Past' \subseteq Past
<1>1. asks' = [asks EXCEPT ![t] = asks[t] \ {a}] /\ asks \in [Tab -> SUBSET Ask]
  BY DEF Read, AsksInv
<1>2. asks' \in [Tab -> SUBSET Ask] /\ \A u \in Tab : asks'[u] \subseteq asks[u]
  BY <1>1
<1> QED BY <1>2 DEF AsksInv, Past

LEMMA SendsAsks ==
  ASSUME AsksInv, NEW t \in Tab, NEW of \in {"get", "post", "delete", "app"}, ~Awaits(t, of), Sends(t, of)
  PROVE  AsksInv' /\ Past' \subseteq Past
<1>1. PICK new : new = [of |-> of, got |-> "nothing"]
  OBVIOUS
<1>2. new \in Ask /\ new.of = of /\ new.got = "nothing"
  BY <1>1 DEF Ask
<1>3. asks' = [asks EXCEPT ![t] = asks[t] \cup {new}] /\ asks \in [Tab -> SUBSET Ask]
  BY <1>1 DEF Sends, AsksInv
<1>4. asks' \in [Tab -> SUBSET Ask] /\ asks'[t] = asks[t] \cup {new}
      /\ \A u \in Tab \ {t} : asks'[u] = asks[u]
  BY <1>2, <1>3
<1>5. AsksInv'
  BY <1>2, <1>4 DEF AsksInv, Awaits
<1>6. \A u \in Tab : u \in Past' => u \in Past
  BY <1>2, <1>4 DEF Past
<1> QED BY <1>5, <1>6 DEF Past

\* Everything but a password that comes to the gate or is compared leaves the limiter alone.
LEMMA QuietDoor ==
  ASSUME DoorInv, AsksInv', Past' \subseteq Past, UNCHANGED <<minute, entry, wrong>>
  PROVE  DoorInv'
<1>1. Cardinality(Past') \in Nat /\ Cardinality(Past') <= Cardinality(Past) /\ Cardinality(Past) \in Nat
  BY TabsCounted, FS_Subset, FS_CardinalityType
<1>2. Counted'
  BY DEF DoorInv, Counted
<1>3. Gate(entry)' <=> Gate(entry)
  BY DEF Gate
<1>4. entry.count \in Nat /\ Most \in Int /\ Most' = Most
  BY TabsCounted, SessionConstants DEF DoorInv, Counted, Most
<1>5. Crowd'
  BY <1>1, <1>3, <1>4 DEF DoorInv, Crowd
<1>6. Spaced(wrong)'
  BY <1>4 DEF DoorInv, Spaced
<1> QED BY <1>2, <1>5, <1>6 DEF DoorInv

\* Time opens doors and shuts none.
LEMMA MinuteDoor ==
  ASSUME DoorInv, MinutePasses
  PROVE  DoorInv'
<1>1. minute' = minute + 1 /\ UNCHANGED <<entry, asks, wrong>> /\ minute \in Nat /\ entry.until \in Nat
  BY DEF MinutePasses, DoorInv, Counted
<1>2. AsksInv' /\ Past' = Past
  BY <1>1 DEF DoorInv, AsksInv, Past
<1>3. Counted'
  <2>1. Len(wrong) > 0 => wrong[Len(wrong)] \in Nat
    BY LenProperties, ElementOfSeq DEF DoorInv, Counted
  <2> QED BY <1>1, <2>1, SessionConstants DEF DoorInv, Counted
<1>4. Gate(entry)' => Gate(entry)
  BY <1>1 DEF Gate
<1>5. Crowd'
  BY <1>1, <1>2, <1>4 DEF DoorInv, Crowd, Most
<1>6. Spaced(wrong)'
  BY <1>1 DEF DoorInv, Spaced, Most
<1> QED BY <1>2, <1>3, <1>5, <1>6 DEF DoorInv

\* A password comes to the gate: an entry whose time is over is forgotten, and whoever is
\* let past meets a row that has room for every tab.
LEMMA ArrivesDoor ==
  ASSUME DoorInv, NEW t \in Tab, NEW a \in asks[t], PostArrives(t, a)
  PROVE  DoorInv'
<1>1. PICK result : result = IF Gate(entry) THEN "out" ELSE "body"
  OBVIOUS
<1>2. /\ a.of = "post" /\ Gets(t, a, result) /\ result \in {"nothing", "in", "out", "broken", "body"}
      /\ entry' = (IF entry.until <= minute THEN NoEntry ELSE entry)
      /\ UNCHANGED <<minute, cookie, screen, wrong>>
  BY <1>1 DEF PostArrives
<1>3. AsksInv' /\ Past' \subseteq Past \cup {t} /\ (result # "body" => Past' \subseteq Past)
  BY <1>2, GetsAsks DEF DoorInv
<1>4. /\ minute \in Nat /\ wrong \in Seq(Nat) /\ Len(wrong) \in Nat
      /\ entry.count \in Nat /\ entry.until \in Nat
  BY LenProperties DEF DoorInv, Counted
<1>5. Counted'
  <2>1. CASE entry.until <= minute
    <3>1. entry' \in [count : Nat, until : Nat] /\ entry'.count = 0
      BY <1>2, <2>1 DEF NoEntry
    <3>2. Len(wrong) > 0 => minute >= wrong[Len(wrong)] + Lockout
      BY <1>4, <2>1 DEF DoorInv, Counted
    <3> QED BY <1>2, <1>4, <3>1, <3>2 DEF Counted
  <2>2. CASE ~(entry.until <= minute)
    <3>1. entry' = entry
      BY <1>2, <2>2
    <3> QED BY <1>2, <3>1 DEF DoorInv, Counted
  <2> QED BY <2>1, <2>2
<1>6. Crowd'
  <2>1. Gate(entry)' => Gate(entry) /\ entry' = entry
    BY <1>2, <1>4, SessionConstants DEF Gate, NoEntry
  <2>2. Gate(entry) => Past' \subseteq Past
    BY <1>1, <1>3
  <2>3. Past' \subseteq Past => Cardinality(Past') \in Nat /\ Cardinality(Past') <= Cardinality(Past)
    BY TabsCounted, FS_Subset, FS_CardinalityType
  <2>4. Most \in Int /\ Most' = Most /\ Cardinality(Past) \in Nat
    BY TabsCounted, SessionConstants DEF Most
  <2> QED BY <1>4, <2>1, <2>2, <2>3, <2>4 DEF DoorInv, Crowd
<1>7. Spaced(wrong)'
  BY <1>2 DEF DoorInv, Spaced, Most
<1> QED BY <1>3, <1>5, <1>6, <1>7 DEF DoorInv

\* A row that grows by a wrong password stays spaced if the limiter has counted no more
\* than that, from one that came late enough.
LEMMA SpacedMore ==
  ASSUME NEW times, NEW more, NEW n \in Nat, Len(times) = n, Len(more) = n + 1,
         \A i \in 1 .. n : more[i] = times[i],
         Spaced(times), Most \in Int, NEW count \in 1 .. n + 1, count <= Most,
         count < n + 1 => more[n + 1 - count + 1] - more[n + 1 - count] >= Lockout
  PROVE  Spaced(more)
<1>1. Most >= 1
  OBVIOUS
<1>2. ASSUME NEW i \in 1 .. n + 1, i + Most <= n + 1
      PROVE  \E k \in i .. i + Most - 1 : more[k + 1] - more[k] >= Lockout
  <2>1. CASE i + Most <= n
    <3>1. i \in 1 .. n
      BY <1>1, <2>1
    <3>2. PICK k \in i .. i + Most - 1 : times[k + 1] - times[k] >= Lockout
      BY <2>1, <3>1 DEF Spaced
    <3>3. k \in 1 .. n /\ k + 1 \in 1 .. n
      BY <1>1, <2>1, <3>1
    <3>4. more[k + 1] = times[k + 1] /\ more[k] = times[k]
      BY <3>3
    <3> QED BY <3>2, <3>4
  <2>2. CASE i + Most = n + 1
    <3>1. n + 1 - count \in i .. i + Most - 1 /\ count < n + 1
      BY <1>1, <2>2
    <3> QED BY <3>1
  <2> QED BY <1>1, <1>2, <2>1, <2>2
<1> QED BY <1>2 DEF Spaced

\* A wrong password: the row goes on if the last one is less than a lockout ago, and
\* begins anew otherwise.
LEMMA WrongDoor ==
  ASSUME DoorInv, NEW t \in Tab, NEW a \in asks[t], PostCompared(t, a, FALSE)
  PROVE  DoorInv'
<1>1. /\ a.of = "post" /\ a.got = "body" /\ Gets(t, a, "out")
      /\ entry' = Failed /\ wrong' = Append(wrong, minute) /\ UNCHANGED <<minute, cookie, screen>>
  BY DEF PostCompared
<1>2. AsksInv' /\ Past' = Past \ {t} /\ t \in Past
  BY <1>1, GetsAsks DEF DoorInv, Past
<1>3. Cardinality(Past') = Cardinality(Past) - 1 /\ Cardinality(Past) >= 1
  BY <1>2, TabsCounted, FS_RemoveElement, FS_EmptySet, FS_CardinalityType
<1>4. Cardinality(Past) \in Nat /\ Cardinality(Tab) \in Nat /\ Cardinality(Past) <= Cardinality(Tab)
  BY TabsCounted
<1>5. Most = MaxAttempts + Cardinality(Tab) - 1 /\ Most' = Most /\ Most \in Int /\ MaxAttempts \in Nat \ {0}
      /\ Lockout \in Nat \ {0}
  BY <1>4, SessionConstants DEF Most
<1>6. /\ minute \in Nat /\ wrong \in Seq(Nat) /\ Len(wrong) \in Nat
      /\ entry.count \in Nat /\ entry.until \in Nat /\ entry.count <= Len(wrong)
      /\ \A i \in 1 .. Len(wrong) : wrong[i] \in Nat
  BY LenProperties, ElementOfSeq DEF DoorInv, Counted
<1>7. /\ wrong' \in Seq(Nat) /\ Len(wrong') = Len(wrong) + 1
      /\ \A i \in 1 .. Len(wrong) : wrong'[i] = wrong[i]
      /\ wrong'[Len(wrong) + 1] = minute
  BY <1>1, <1>6, AppendProperties
<1> DEFINE live == entry.count > 0 /\ entry.until > minute
<1>8. /\ entry'.count = IF live THEN entry.count + 1 ELSE 1
      /\ entry'.until = minute + Lockout
      /\ entry' \in [count : Nat, until : Nat]
  BY <1>1, <1>5, <1>6 DEF Failed
<1>9. entry'.count \in 1 .. Len(wrong) + 1
  BY <1>6, <1>8
<1>10. entry'.count <= Most /\ (entry'.count >= MaxAttempts => entry'.count + Cardinality(Past') <= Most)
  <2>1. CASE live /\ entry.count >= MaxAttempts
    <3>1. entry.count + Cardinality(Past) <= Most
      BY <2>1 DEF DoorInv, Crowd, Gate
    <3>2. entry'.count = entry.count + 1
      BY <1>8, <2>1
    <3> QED BY <1>3, <1>4, <1>5, <1>6, <3>1, <3>2
  <2>2. CASE ~(live /\ entry.count >= MaxAttempts)
    <3>1. entry'.count <= MaxAttempts
      BY <1>5, <1>6, <1>8, <2>2
    <3> QED BY <1>3, <1>4, <1>5, <1>9, <3>1
  <2> QED BY <2>1, <2>2
<1>11. entry'.count < Len(wrong') =>
         wrong'[Len(wrong') - entry'.count + 1] - wrong'[Len(wrong') - entry'.count] >= Lockout
  <2>1. CASE live
    <3>1. entry'.count = entry.count + 1 /\ entry.count > 0
      BY <1>8, <2>1
    <3>2. ASSUME entry'.count < Len(wrong')
          PROVE  /\ entry.count < Len(wrong)
                 /\ Len(wrong') - entry'.count = Len(wrong) - entry.count
                 /\ Len(wrong) - entry.count \in 1 .. Len(wrong)
                 /\ Len(wrong) - entry.count + 1 \in 1 .. Len(wrong)
      <4>1. Len(wrong') = Len(wrong) + 1 /\ Len(wrong) \in Nat /\ entry.count \in Nat
        BY <1>6, <1>7
      <4> QED BY <3>1, <3>2, <4>1
    <3>3. entry.count < Len(wrong) =>
            wrong[Len(wrong) - entry.count + 1] - wrong[Len(wrong) - entry.count] >= Lockout
      BY <3>1 DEF DoorInv, Counted
    <3> QED BY <1>7, <3>2, <3>3
  <2>2. CASE ~live
    <3>1. entry'.count = 1
      BY <1>8, <2>2
    <3>2. ASSUME Len(wrong) > 0 PROVE minute - wrong[Len(wrong)] >= Lockout
      <4>1. wrong[Len(wrong)] \in Nat
        BY <1>6, <3>2
      <4>2. CASE entry.count > 0
        <5>1. entry.until = wrong[Len(wrong)] + Lockout /\ entry.until <= minute
          BY <1>6, <2>2, <3>2, <4>2 DEF DoorInv, Counted
        <5> QED BY <1>5, <1>6, <4>1, <5>1
      <4>3. CASE ~(entry.count > 0)
        <5>1. minute >= wrong[Len(wrong)] + Lockout
          BY <3>2, <4>3 DEF DoorInv, Counted
        <5> QED BY <1>5, <1>6, <4>1, <5>1
      <4> QED BY <4>2, <4>3
    <3>3. ASSUME entry'.count < Len(wrong')
          PROVE  /\ Len(wrong) > 0
                 /\ Len(wrong') - entry'.count = Len(wrong)
                 /\ Len(wrong) \in 1 .. Len(wrong)
      BY <1>6, <1>7, <3>1, <3>3
    <3> QED BY <1>7, <3>1, <3>2, <3>3
  <2> QED BY <2>1, <2>2
<1> HIDE DEF live
<1>12. Counted'
  <2>1. wrong'[Len(wrong')] = minute /\ entry'.count > 0 /\ entry'.count <= Len(wrong')
    BY <1>7, <1>9
  <2> QED BY <1>1, <1>6, <1>7, <1>8, <1>11, <2>1 DEF Counted
<1>13. Crowd'
  BY <1>5, <1>10 DEF Crowd, Gate
<1>14. Spaced(wrong')
  <2>1. Spaced(wrong) /\ Most \in Int
    BY <1>5 DEF DoorInv
  <2>2. PICK times, more, n, count :
          times = wrong /\ more = wrong' /\ n = Len(wrong) /\ count = entry'.count
    OBVIOUS
  <2>3. n \in Nat /\ Len(times) = n /\ Len(more) = n + 1 /\ Spaced(times)
    BY <1>6, <1>7, <2>1, <2>2
  <2>4. \A i \in 1 .. n : more[i] = times[i]
    BY <1>7, <2>2
  <2>5. count \in 1 .. n + 1 /\ count <= Most
    BY <1>9, <1>10, <2>2
  <2>6. count < n + 1 => more[n + 1 - count + 1] - more[n + 1 - count] >= Lockout
    <3>1. Len(wrong') = n + 1 /\ n \in Nat /\ entry'.count \in Nat
      BY <1>7, <2>2, <2>3, <2>5
    <3>2. entry'.count < n + 1 =>
            wrong'[n + 1 - entry'.count + 1] - wrong'[n + 1 - entry'.count] >= Lockout
      BY ONLY <1>11, <3>1
    <3> QED BY ONLY <2>2, <3>2
  <2>7. Spaced(more)
    BY <2>1, <2>3, <2>4, <2>5, <2>6, SpacedMore
  <2> QED BY <2>2, <2>7
<1>15. Spaced(wrong)'
  BY <1>5, <1>14 DEF Spaced
<1> QED BY <1>2, <1>12, <1>13, <1>15 DEF DoorInv

\* The right password: the row is over.
LEMMA RightDoor ==
  ASSUME DoorInv, NEW t \in Tab, NEW a \in asks[t], PostCompared(t, a, TRUE)
  PROVE  DoorInv'
<1>1. Gets(t, a, "in") /\ entry' = NoEntry /\ wrong' = <<>> /\ UNCHANGED <<minute, screen>>
  BY DEF PostCompared
<1>2. AsksInv'
  BY <1>1, GetsAsks DEF DoorInv
<1>3. wrong' \in Seq(Nat) /\ Len(wrong') = 0
  BY <1>1, EmptySeq
<1>4. entry' \in [count : Nat, until : Nat] /\ entry'.count = 0 /\ minute' \in Nat
  BY <1>1 DEF NoEntry, DoorInv, Counted
<1>5. Counted'
  BY <1>3, <1>4 DEF Counted
<1>6. Crowd'
  BY <1>4, SessionConstants DEF Crowd, Gate
<1>7. Spaced(wrong)'
  BY <1>3 DEF Spaced
<1> QED BY <1>2, <1>5, <1>6, <1>7 DEF DoorInv

LEMMA TabDoor ==
  ASSUME DoorInv, NEW t \in Tab, OfTab(t)
  PROVE  DoorInv'
<1> USE DEF DoorInv
<1>1. ASSUME NEW a \in asks[t], \/ AnswerGet(t, a) \/ Guard(t, a) \/ AnswerDelete(t, a) \/ Breaks(t, a)
                                \/ FirstAnswer(t, a) \/ SignedIn(t, a) \/ LockedOut(t, a) \/ SignedOut(t, a)
      PROVE  DoorInv'
  <2>1. /\ UNCHANGED <<minute, entry, wrong>>
        /\ Read(t, a) \/ \E result \in {"in", "out", "broken"} : Gets(t, a, result)
    BY <1>1 DEF AnswerGet, Guard, AnswerDelete, Breaks, FirstAnswer, SignedIn, LockedOut, SignedOut
  <2>2. AsksInv' /\ Past' \subseteq Past
    BY <2>1, GetsAsks, ReadAsks
  <2> QED BY <2>1, <2>2, QuietDoor
<1>2. ASSUME SignIn(t) \/ AskApp(t) \/ SignOut(t)
      PROVE  DoorInv'
  <2>1. /\ UNCHANGED <<minute, entry, wrong>>
        /\ \E of \in {"get", "post", "delete", "app"} : ~Awaits(t, of) /\ Sends(t, of)
    BY <1>2 DEF SignIn, AskApp, SignOut
  <2>2. AsksInv' /\ Past' \subseteq Past
    BY <2>1, SendsAsks
  <2> QED BY <2>1, <2>2, QuietDoor
<1>3. ASSUME NEW a \in asks[t], NEW right \in BOOLEAN, PostCompared(t, a, right)
      PROVE  DoorInv'
  BY <1>3, WrongDoor, RightDoor
<1>4. ASSUME NEW a \in asks[t], PostArrives(t, a)
      PROVE  DoorInv'
  BY <1>4, ArrivesDoor
<1> QED BY <1>1, <1>2, <1>3, <1>4 DEF OfTab

\* "The door shuts": however many tabs a browser has and however their requests meet, no
\* more wrong passwords are compared in a row without a lockout's time between two of them
\* than the limiter allows and the tabs that were past its gate; and it is shut only so
\* long after the last of them.
THEOREM TheDoorShuts == SessionSpec => []DoorShuts
<1>1. DoorInv /\ [SessionNext]_sessionVars => DoorInv'
  <2> SUFFICES ASSUME DoorInv, [SessionNext]_sessionVars PROVE DoorInv'
    OBVIOUS
  <2>1. CASE UNCHANGED sessionVars
    <3>1. UNCHANGED <<minute, entry, wrong, asks>>
      BY <2>1 DEF sessionVars
    <3>2. AsksInv' /\ Past' = Past
      BY <3>1 DEF DoorInv, AsksInv, Past
    <3> QED BY <3>1, <3>2, QuietDoor
  <2> QED BY <2>1, MinuteDoor, TabDoor DEF SessionNext
<1>2. DoorInv => DoorShuts
  <2> SUFFICES ASSUME DoorInv PROVE DoorShuts
    OBVIOUS
  <2>1. Len(wrong) \in Nat /\ Most \in Int /\ Most = MaxAttempts + Cardinality(Tab) - 1
        /\ MaxAttempts \in Nat \ {0} /\ Cardinality(Tab) \in Nat
        /\ entry.count \in Nat /\ entry.count <= Len(wrong)
    BY LenProperties, TabsCounted, SessionConstants DEF DoorInv, Counted, Most
  <2>2. \A i \in 1 .. Len(wrong) :
          LET row == i + MaxAttempts + Cardinality(Tab) - 1 IN
          row <= Len(wrong) => \E k \in i .. row - 1 : wrong[k + 1] - wrong[k] >= Lockout
    <3> TAKE i \in 1 .. Len(wrong)
    <3>1. PICK row : row = i + MaxAttempts + Cardinality(Tab) - 1
      OBVIOUS
    <3>2. row = i + Most /\ row \in Int /\ Most \in Int
      BY <2>1, <3>1
    <3>3. i + Most <= Len(wrong) => \E k \in i .. i + Most - 1 : wrong[k + 1] - wrong[k] >= Lockout
      BY DEF DoorInv, Spaced
    <3>4. row <= Len(wrong) => \E k \in i .. row - 1 : wrong[k + 1] - wrong[k] >= Lockout
      <4>1. row - 1 = i + Most - 1
        BY <3>2
      <4>2. i .. row - 1 = i .. i + Most - 1 /\ (row <= Len(wrong) <=> i + Most <= Len(wrong))
        BY ONLY <3>2, <4>1
      <4> QED BY ONLY <3>3, <4>2
    <3> QED BY <3>1, <3>4
  <2>3. ASSUME Gate(entry) PROVE Len(wrong) >= MaxAttempts /\ minute < wrong[Len(wrong)] + Lockout
    <3>1. entry.count >= MaxAttempts /\ entry.until > minute
      BY <2>3 DEF Gate
    <3>2. Len(wrong) > 0 /\ entry.count > 0
      BY <2>1, <3>1
    <3>3. entry.until = wrong[Len(wrong)] + Lockout
      BY <3>2 DEF DoorInv, Counted
    <3> QED BY <2>1, <3>1, <3>3
  <2> QED BY <2>2, <2>3 DEF DoorShuts
<1> QED BY <1>1, <1>2, InitDoorInv, PTL DEF SessionSpec

-----------------------------------------------------------------------------
(* The store: the rows of the file and those of the fallback. *)

\* A list of rows of which every two are as many hours apart as there are steps between.
Spread(list) ==
    \A i \in 1 .. Len(list) :
        /\ list[i] <= clock
        /\ \A j \in 1 .. Len(list) : i < j => list[j] - list[i] >= (j - i) * HourlyGap

\* The fallback has rows of the file, and lacks only what fell off its full list.
Mirrors(times, list) ==
    /\ \A i \in 1 .. Len(list) : list[i] \in times
    /\ \A t \in times : \/ \E i \in 1 .. Len(list) : list[i] = t
                        \/ Len(list) = RowLimit /\ t < list[1]

RowsInv ==
    /\ clock \in Nat /\ booted \in Nat
    /\ rows \in [Env -> SUBSET (0 .. clock)]
    /\ rowList \in [Env -> Seq(Nat)]
    /\ \A e \in Env :
         /\ Len(rowList[e]) <= RowLimit
         /\ \A t, u \in rows[e] : t < u => u - t >= HourlyGap
         /\ Spread(rowList[e])
         /\ booted = 0 => Mirrors(rows[e], rowList[e])

\* Two facts of multiplication.
LEMMA OneMore == ASSUME NEW a \in Nat, NEW b \in Nat PROVE (a + 1) * b = a * b + b
OBVIOUS

LEMMA AtLeastOnce == ASSUME NEW a \in Nat \ {0}, NEW b \in Nat PROVE a * b >= b
<1>1. PICK c \in Nat : a = c + 1
  <2>1. a - 1 \in Nat /\ a = (a - 1) + 1
    OBVIOUS
  <2> QED BY <2>1
<1>2. a * b = c * b + b
  BY <1>1, OneMore
<1>3. c * b \in Nat
  OBVIOUS
<1> QED BY <1>2, <1>3

\* The rows of a spread list ascend, an hour or more at a time.
LEMMA SpreadAscends ==
  ASSUME NEW list \in Seq(Nat), Spread(list),
         NEW i \in 1 .. Len(list), NEW j \in 1 .. Len(list), i < j
  PROVE  list[j] - list[i] >= HourlyGap /\ list[i] < list[j]
<1>1. list[j] \in Nat /\ list[i] \in Nat /\ i \in Nat /\ j \in Nat
  BY LenProperties, ElementOfSeq
<1>2. PICK a : a = j - i
  OBVIOUS
<1>3. a \in Nat \ {0} /\ HourlyGap \in Nat \ {0}
  BY <1>1, <1>2, StoreConstants
<1>4. list[j] - list[i] >= a * HourlyGap
  BY <1>2 DEF Spread
<1>5. a * HourlyGap >= HourlyGap /\ a * HourlyGap \in Nat
  BY <1>3, AtLeastOnce
<1>6. list[j] - list[i] >= HourlyGap
  <2>1. PICK hours : hours = a * HourlyGap
    OBVIOUS
  <2>2. PICK young, old : young = list[j] /\ old = list[i]
    OBVIOUS
  <2>3. hours \in Nat /\ young \in Nat /\ old \in Nat /\ young - old >= hours /\ hours >= HourlyGap
    BY <1>1, <1>4, <1>5, <2>1, <2>2
  <2>4. young - old >= HourlyGap
    BY ONLY <1>3, <2>3
  <2> QED BY <2>2, <2>4
<1>7. list[i] < list[j]
  BY <1>1, <1>3, <1>6
<1> QED BY <1>6, <1>7

\* What push and shift make of a list: all of it or all but the oldest, then the new one.
LEMMA CappedIs ==
  ASSUME NEW S, NEW list \in Seq(S), NEW x \in S, NEW limit \in Nat \ {0}, Len(list) <= limit
  PROVE  \E s \in {0, 1} :
           /\ Capped(list, x, limit) \in Seq(S)
           /\ Len(Capped(list, x, limit)) = Len(list) + 1 - s
           /\ \A i \in 1 .. Len(list) - s : Capped(list, x, limit)[i] = list[i + s]
           /\ Capped(list, x, limit)[Len(list) + 1 - s] = x
           /\ s = 1 <=> Len(list) = limit
<1>1. Len(list) \in Nat /\ limit \in Nat \ {0}
  BY LenProperties
<1>2. CASE Len(list) < limit
  <2>1. Capped(list, x, limit) = Append(list, x)
    BY <1>2 DEF Capped
  <2>2. /\ Append(list, x) \in Seq(S) /\ Len(Append(list, x)) = Len(list) + 1
        /\ \A i \in 1 .. Len(list) : Append(list, x)[i] = list[i]
        /\ Append(list, x)[Len(list) + 1] = x
    BY <1>1, AppendProperties
  <2>3. /\ Len(Append(list, x)) = Len(list) + 1 - 0
        /\ \A i \in 1 .. Len(list) - 0 : Append(list, x)[i] = list[i + 0]
        /\ Append(list, x)[Len(list) + 1 - 0] = x
    BY <1>1, <2>2
  <2> QED BY <1>1, <1>2, <2>1, <2>2, <2>3
<1>3. CASE ~(Len(list) < limit)
  <2>1. Capped(list, x, limit) = Append(Tail(list), x) /\ list # <<>> /\ Len(list) = limit
    BY <1>1, <1>3, EmptySeq DEF Capped
  <2>2. /\ Tail(list) \in Seq(S) /\ Len(Tail(list)) = Len(list) - 1
        /\ \A i \in 1 .. Len(list) - 1 : Tail(list)[i] = list[i + 1]
    BY <1>1, <2>1, HeadTailProperties
  <2>3. PICK rest : rest = Tail(list)
    OBVIOUS
  <2>4. /\ Append(rest, x) \in Seq(S) /\ Len(Append(rest, x)) = Len(rest) + 1
        /\ \A i \in 1 .. Len(rest) : Append(rest, x)[i] = rest[i]
        /\ Append(rest, x)[Len(rest) + 1] = x
    BY <2>2, <2>3, AppendProperties
  <2>5. /\ Append(rest, x) \in Seq(S) /\ Len(Append(rest, x)) = Len(list) + 1 - 1
        /\ \A i \in 1 .. Len(list) - 1 : Append(rest, x)[i] = list[i + 1]
        /\ Append(rest, x)[Len(list) + 1 - 1] = x
    BY <1>1, <2>2, <2>3, <2>4
  <2> QED BY <2>1, <2>3, <2>5
<1> QED BY <1>2, <1>3

\* The same of the rows.
LEMMA CappedRows ==
  ASSUME NEW list \in Seq(Nat), clock \in Nat, Len(list) <= RowLimit
  PROVE  \E s \in {0, 1} :
           /\ Capped(list, clock, RowLimit) \in Seq(Nat)
           /\ Len(Capped(list, clock, RowLimit)) = Len(list) + 1 - s
           /\ \A i \in 1 .. Len(list) - s : Capped(list, clock, RowLimit)[i] = list[i + s]
           /\ Capped(list, clock, RowLimit)[Len(list) + 1 - s] = clock
           /\ s = 1 <=> Len(list) = RowLimit
<1>1. PICK S : S = Nat
  OBVIOUS
<1>2. list \in Seq(S) /\ clock \in S
  BY <1>1
<1>3. RowLimit \in Nat \ {0}
  BY StoreConstants
<1>4. \E s \in {0, 1} :
           /\ Capped(list, clock, RowLimit) \in Seq(S)
           /\ Len(Capped(list, clock, RowLimit)) = Len(list) + 1 - s
           /\ \A i \in 1 .. Len(list) - s : Capped(list, clock, RowLimit)[i] = list[i + s]
           /\ Capped(list, clock, RowLimit)[Len(list) + 1 - s] = clock
           /\ s = 1 <=> Len(list) = RowLimit
  BY <1>2, <1>3, CappedIs
<1> QED BY <1>1, <1>4

\* A row is written: the list stays spread.
LEMMA CappedSpread ==
  ASSUME NEW list \in Seq(Nat), Len(list) <= RowLimit, Spread(list), clock \in Nat,
         Due(LastOf(list))
  PROVE  Spread(Capped(list, clock, RowLimit))
<1>1. PICK new, n, s : new = Capped(list, clock, RowLimit) /\ n = Len(list) /\ s \in {0, 1}
        /\ new \in Seq(Nat) /\ Len(new) = n + 1 - s
        /\ (\A i \in 1 .. n - s : new[i] = list[i + s]) /\ new[n + 1 - s] = clock
        /\ (s = 1 <=> n = RowLimit)
  <2>1. PICK s \in {0, 1} :
          /\ Capped(list, clock, RowLimit) \in Seq(Nat)
          /\ Len(Capped(list, clock, RowLimit)) = Len(list) + 1 - s
          /\ \A i \in 1 .. Len(list) - s : Capped(list, clock, RowLimit)[i] = list[i + s]
          /\ Capped(list, clock, RowLimit)[Len(list) + 1 - s] = clock
          /\ s = 1 <=> Len(list) = RowLimit
    BY CappedRows
  <2>2. PICK new, n : new = Capped(list, clock, RowLimit) /\ n = Len(list)
    OBVIOUS
  <2> QED BY <2>1, <2>2
<1>2. n \in Nat /\ HourlyGap \in Nat \ {0} /\ RowLimit \in Nat \ {0}
  BY <1>1, LenProperties, StoreConstants
<1>3. ASSUME NEW i \in 1 .. n - s PROVE new[i] <= clock /\ new[i] = list[i + s] /\ i + s \in 1 .. n
  <2>1. i + s \in 1 .. n /\ new[i] = list[i + s]
    <3>1. i \in Nat /\ s \in {0, 1} /\ n \in Nat /\ i >= 1 /\ i <= n - s
      BY <1>1, <1>2
    <3>2. i + s \in 1 .. n
      BY ONLY <3>1
    <3> QED BY <1>1, <3>2
  <2> QED BY <1>1, <2>1 DEF Spread
<1>4. ASSUME NEW i \in 1 .. n - s, NEW j \in 1 .. n - s, i < j
      PROVE  new[j] - new[i] >= (j - i) * HourlyGap
  <2>1. /\ i + s \in 1 .. n /\ j + s \in 1 .. n /\ i + s < j + s
        /\ new[i] = list[i + s] /\ new[j] = list[j + s]
    <3>1. s \in Nat /\ i \in Nat /\ j \in Nat
      BY <1>1, <1>2
    <3>2. i + s < j + s
      BY <1>4, <3>1
    <3> QED BY <1>3, <3>2
  <2>2. list[j + s] - list[i + s] >= ((j + s) - (i + s)) * HourlyGap
    BY <1>1, <2>1 DEF Spread
  <2>3. (j + s) - (i + s) = j - i
    BY <1>1, <1>2
  <2> QED BY <2>1, <2>2, <2>3
<1>5. ASSUME NEW i \in 1 .. n - s PROVE clock - new[i] >= (n + 1 - s - i) * HourlyGap
  <2>1. n >= 1 /\ i + s \in 1 .. n /\ n \in 1 .. n /\ new[i] = list[i + s]
    <3>1. i + s \in 1 .. n /\ new[i] = list[i + s]
      BY <1>3
    <3>2. n >= 1 /\ n \in 1 .. n
      BY <1>2, <3>1
    <3> QED BY <3>1, <3>2
  <2>2. list[n] \in Nat /\ list[i + s] \in Nat
    BY <1>1, <2>1, ElementOfSeq
  <2>3. clock - list[n] >= HourlyGap
    <3>1. list # <<>>
      BY <1>1, <2>1, EmptySeq
    <3> QED BY <1>1, <3>1 DEF Due, LastOf
  <2>4. PICK a : a = n - (i + s)
    OBVIOUS
  <2>5. a \in Nat /\ n + 1 - s - i = a + 1
    BY <1>1, <1>2, <2>1, <2>4
  <2>6. list[n] - list[i + s] >= a * HourlyGap
    <3>1. CASE i + s < n
      BY <1>1, <2>1, <2>4, <3>1 DEF Spread
    <3>2. CASE i + s = n
      <4>1. a = 0
        BY <1>2, <2>4, <3>2
      <4>2. a * HourlyGap = 0
        BY <1>2, <4>1
      <4> QED BY <2>2, <3>2, <4>2
    <3> QED BY <1>2, <2>1, <3>1, <3>2
  <2>7. (a + 1) * HourlyGap = a * HourlyGap + HourlyGap /\ a * HourlyGap \in Nat
    BY <1>2, <2>5, OneMore
  <2>8. clock - list[i + s] >= a * HourlyGap + HourlyGap
    <3>1. PICK hours, first, last : hours = a * HourlyGap /\ first = list[i + s] /\ last = list[n]
      OBVIOUS
    <3>2. /\ hours \in Nat /\ first \in Nat /\ last \in Nat
          /\ clock - last >= HourlyGap /\ last - first >= hours
      BY <2>2, <2>3, <2>6, <2>7, <3>1
    <3>3. clock - first >= hours + HourlyGap
      BY ONLY <1>2, <3>2, clock \in Nat
    <3> QED BY <3>1, <3>3
  <2> QED BY <2>1, <2>5, <2>7, <2>8
<1>6. ASSUME NEW i \in 1 .. Len(new)
      PROVE  /\ new[i] <= clock
             /\ \A j \in 1 .. Len(new) : i < j => new[j] - new[i] >= (j - i) * HourlyGap
  <2>1. i \in 1 .. n - s \/ i = n + 1 - s
    BY <1>1, <1>2
  <2>2. new[i] <= clock
    <3>1. CASE i \in 1 .. n - s
      BY <1>3, <3>1
    <3>2. CASE i = n + 1 - s
      <4>1. new[i] = clock
        BY <1>1, <3>2
      <4> QED BY <4>1, clock \in Nat
    <3> QED BY <2>1, <3>1, <3>2
  <2>3. ASSUME NEW j \in 1 .. Len(new), i < j PROVE new[j] - new[i] >= (j - i) * HourlyGap
    <3>1. i \in 1 .. n - s
      BY <1>1, <1>2, <2>1, <2>3
    <3>2. CASE j \in 1 .. n - s
      BY <1>4, <2>3, <3>1, <3>2
    <3>3. CASE j = n + 1 - s
      <4>1. clock - new[i] >= (n + 1 - s - i) * HourlyGap
        BY <1>5, <3>1
      <4>2. n + 1 - s - i = j - i /\ new[j] = clock
        BY <1>1, <3>3
      <4> QED BY ONLY <4>1, <4>2
    <3> QED BY <1>1, <1>2, <3>2, <3>3
  <2> QED BY <2>2, <2>3
<1> QED BY <1>1, <1>6 DEF Spread

\* ... and goes on to mirror the file, which gets the same row.
LEMMA CappedMirrors ==
  ASSUME NEW list \in Seq(Nat), NEW times \in SUBSET Nat, Len(list) <= RowLimit, Spread(list),
         clock \in Nat, Due(LastOf(list)), Mirrors(times, list)
  PROVE  Mirrors(times \cup {clock}, Capped(list, clock, RowLimit))
<1>1. PICK new, n, s : new = Capped(list, clock, RowLimit) /\ n = Len(list) /\ s \in {0, 1}
        /\ new \in Seq(Nat) /\ Len(new) = n + 1 - s
        /\ (\A i \in 1 .. n - s : new[i] = list[i + s]) /\ new[n + 1 - s] = clock
        /\ (s = 1 <=> n = RowLimit)
  <2>1. PICK s \in {0, 1} :
          /\ Capped(list, clock, RowLimit) \in Seq(Nat)
          /\ Len(Capped(list, clock, RowLimit)) = Len(list) + 1 - s
          /\ \A i \in 1 .. Len(list) - s : Capped(list, clock, RowLimit)[i] = list[i + s]
          /\ Capped(list, clock, RowLimit)[Len(list) + 1 - s] = clock
          /\ s = 1 <=> Len(list) = RowLimit
    BY CappedRows
  <2>2. PICK new, n : new = Capped(list, clock, RowLimit) /\ n = Len(list)
    OBVIOUS
  <2> QED BY <2>1, <2>2
<1>2. n \in Nat /\ RowLimit \in Nat \ {0} /\ n <= RowLimit /\ HourlyGap \in Nat \ {0}
  BY <1>1, LenProperties, StoreConstants
<1>3. ASSUME NEW i \in 1 .. Len(new) PROVE new[i] \in times \cup {clock}
  <2>1. i \in 1 .. n - s \/ i = n + 1 - s
    BY <1>1, <1>2
  <2>2. ASSUME i \in 1 .. n - s PROVE new[i] \in times
    <3>1. i + s \in 1 .. n /\ new[i] = list[i + s]
      <4>1. i \in Nat /\ s \in {0, 1} /\ n \in Nat /\ i >= 1 /\ i <= n - s
        BY <1>1, <1>2, <2>2
      <4>2. i + s \in 1 .. n
        BY ONLY <4>1
      <4> QED BY <1>1, <2>2, <4>2
    <3> QED BY <1>1, <3>1 DEF Mirrors
  <2> QED BY <1>1, <2>1, <2>2
\* What falls off the full list is older than all that is left.
<1>4. ASSUME s = 1
      PROVE  list[1] \in Nat /\ new[1] \in Nat /\ list[1] < new[1] /\ Len(new) = RowLimit
  <2>1. Len(new) = n /\ n = RowLimit /\ 1 \in 1 .. n /\ n \in 1 .. n
    BY <1>1, <1>2, <1>4
  <2>2. list[1] \in Nat /\ new[1] \in Nat
    BY <1>1, <2>1, ElementOfSeq
  <2>3. CASE n = 1
    <3>1. new[1] = clock
      BY <1>1, <1>4, <2>3
    <3>2. list # <<>>
      <4>1. Len(list) = 1 /\ Len(<<>>) = 0
        BY <1>1, <2>3
      <4> QED BY <4>1
    <3>3. clock - list[1] >= HourlyGap
      BY <1>1, <2>3, <3>2 DEF Due, LastOf
    <3>4. list[1] < new[1]
      BY <1>2, <2>2, <3>1, <3>3
    <3> QED BY <2>1, <2>2, <3>4
  <2>4. CASE n > 1
    <3>1. 1 \in 1 .. n - s /\ 2 \in 1 .. Len(list) /\ 1 \in 1 .. Len(list)
      BY <1>1, <1>2, <1>4, <2>4
    <3>2. new[1] = list[2]
      <4>1. new[1] = list[1 + s] /\ 1 + s = 2
        BY <1>1, <1>4, <3>1
      <4> QED BY <4>1
    <3>3. list[1] < list[2]
      BY <3>1, SpreadAscends
    <3> QED BY <2>1, <2>2, <3>2, <3>3
  <2> QED BY <1>2, <2>1, <2>3, <2>4
<1>5. ASSUME NEW t \in times \cup {clock}
      PROVE  \/ \E i \in 1 .. Len(new) : new[i] = t
             \/ Len(new) = RowLimit /\ t < new[1]
  <2>1. CASE t = clock
    <3>1. n + 1 - s \in 1 .. Len(new) /\ new[n + 1 - s] = t
      BY <1>1, <1>2, <2>1
    <3> QED BY <3>1
  <2>2. ASSUME NEW i \in 1 .. n, list[i] = t
        PROVE  \/ \E k \in 1 .. Len(new) : new[k] = t
               \/ Len(new) = RowLimit /\ t < new[1]
    <3>1. CASE i > s
      <4>1. i - s \in 1 .. n - s /\ i - s \in 1 .. Len(new) /\ (i - s) + s = i
        BY <1>1, <1>2, <3>1
      <4>2. new[i - s] = list[(i - s) + s]
        BY <1>1, <4>1
      <4> QED BY <2>2, <4>1, <4>2
    <3>2. CASE ~(i > s)
      <4>1. i = 1 /\ s = 1
        BY <1>1, <1>2, <3>2
      <4> QED BY <1>4, <2>2, <4>1
    <3> QED BY <3>1, <3>2
  <2>3. ASSUME n = RowLimit, t < list[1], t \in times
        PROVE  Len(new) = RowLimit /\ t < new[1]
    <3>1. s = 1 /\ t \in Nat
      BY <1>1, <2>3
    <3> QED BY <1>4, <2>3, <3>1
  <2> QED BY <1>1, <2>1, <2>2, <2>3 DEF Mirrors
<1> QED BY <1>1, <1>3, <1>5 DEF Mirrors

\* The file is due for a row exactly when its mirror is.
LEMMA DueTogether ==
  ASSUME NEW list \in Seq(Nat), NEW times \in SUBSET Nat, Len(list) <= RowLimit, Spread(list),
         clock \in Nat, Mirrors(times, list)
  PROVE  Due(times) <=> Due(LastOf(list))
<1>1. Len(list) \in Nat /\ RowLimit \in Nat \ {0} /\ HourlyGap \in Nat \ {0}
  BY LenProperties, StoreConstants
<1>2. CASE list = <<>>
  <2>1. Len(list) = 0
    BY <1>2
  <2>2. \A t \in times : FALSE
    BY <1>1, <2>1 DEF Mirrors
  <2> QED BY <1>2, <2>2 DEF Due, LastOf
<1>3. CASE list # <<>>
  <2>1. Len(list) >= 1 /\ Len(list) \in 1 .. Len(list) /\ 1 \in 1 .. Len(list)
    BY <1>1, <1>3, EmptySeq
  <2>2. PICK last : last = list[Len(list)]
    OBVIOUS
  <2>3. last \in times /\ last \in Nat
    BY <2>1, <2>2 DEF Mirrors
  <2>4. ASSUME NEW i \in 1 .. Len(list) PROVE list[i] <= last
    <3>1. list[i] \in Nat
      BY <1>1, ElementOfSeq
    <3>2. CASE i < Len(list)
      BY <2>1, <2>2, <2>3, <3>1, <3>2, SpreadAscends
    <3>3. CASE i = Len(list)
      BY <2>2, <2>3, <3>3
    <3> QED BY <1>1, <3>2, <3>3
  <2>5. ASSUME NEW t \in times PROVE t <= last
    <3>1. CASE \E i \in 1 .. Len(list) : list[i] = t
      BY <2>4, <3>1
    <3>2. CASE t < list[1]
      <4>1. list[1] <= last /\ list[1] \in Nat /\ t \in Nat
        BY <1>1, <2>1, <2>4, ElementOfSeq
      <4> QED BY <2>3, <3>2, <4>1
    <3> QED BY <3>1, <3>2 DEF Mirrors
  <2>6. Due(LastOf(list)) <=> clock - last >= HourlyGap
    BY <1>3, <2>2 DEF Due, LastOf
  <2>7. Due(times) => clock - last >= HourlyGap
    BY <2>3 DEF Due
  <2>8. ASSUME clock - last >= HourlyGap, NEW t \in times PROVE clock - t >= HourlyGap
    <3>1. t <= last /\ t \in Nat
      BY <2>5
    <3> QED BY <1>1, <2>3, <2>8, <3>1
  <2> QED BY <2>6, <2>7, <2>8 DEF Due
<1> QED BY <1>2, <1>3

LEMMA InitRows == StoreInit => RowsInv
<1> SUFFICES ASSUME StoreInit PROVE RowsInv
  OBVIOUS
<1>1. /\ clock = 0 /\ booted = 0
      /\ rows = [e \in Env |-> {}] /\ rowList = [e \in Env |-> <<>>]
  BY DEF StoreInit
<1>2. rowList \in [Env -> Seq(Nat)] /\ rows \in [Env -> SUBSET (0 .. clock)]
  BY <1>1, EmptySeq
<1>3. ASSUME NEW e \in Env
      PROVE  /\ Len(rowList[e]) = 0
             /\ rows[e] = {}
  BY <1>1
<1>4. RowLimit \in Nat \ {0}
  BY StoreConstants
<1>5. ASSUME NEW e \in Env
      PROVE  Spread(rowList[e]) /\ Mirrors(rows[e], rowList[e]) /\ Len(rowList[e]) <= RowLimit
  BY <1>3, <1>4 DEF Spread, Mirrors
<1> QED BY <1>1, <1>2, <1>3, <1>5 DEF RowsInv

\* record, for one environment.
LEMMA RecordRows == ASSUME RowsInv, NEW e \in Env, RecordRow(e) PROVE RowsInv'
<1>1. /\ clock \in Nat /\ booted \in Nat /\ clock' = clock /\ booted' = booted
      /\ rows \in [Env -> SUBSET (0 .. clock)] /\ rowList \in [Env -> Seq(Nat)]
      /\ HourlyGap \in Nat \ {0}
  BY StoreConstants DEF RowsInv, RecordRow
<1>2. PICK list, times : list = rowList[e] /\ times = rows[e]
  OBVIOUS
<1>3. /\ list \in Seq(Nat) /\ times \in SUBSET (0 .. clock) /\ times \in SUBSET Nat
      /\ Len(list) <= RowLimit /\ Spread(list)
      /\ booted = 0 => Mirrors(times, list)
      /\ \A t, u \in times : t < u => u - t >= HourlyGap
  BY <1>1, <1>2 DEF RowsInv
<1>4. PICK newList, newTimes :
        /\ newList = IF Due(LastOf(list)) THEN Capped(list, clock, RowLimit) ELSE list
        /\ newTimes = IF Due(times) THEN times \cup {clock} ELSE times
  OBVIOUS
<1>5. /\ rows' = [rows EXCEPT ![e] = newTimes]
      /\ rowList' = [rowList EXCEPT ![e] = newList]
  BY <1>1, <1>2, <1>4 DEF RecordRow
<1>6. newList \in Seq(Nat) /\ Len(newList) <= RowLimit /\ Spread(newList)
  <2>1. CASE Due(LastOf(list))
    <3>1. newList = Capped(list, clock, RowLimit)
      BY <1>4, <2>1
    <3>2. Spread(newList)
      BY <1>1, <1>3, <2>1, <3>1, CappedSpread
    <3>3. PICK s \in {0, 1} : newList \in Seq(Nat) /\ Len(newList) = Len(list) + 1 - s
                               /\ (s = 1 <=> Len(list) = RowLimit)
      BY <1>1, <1>3, <3>1, CappedRows
    <3>4. Len(list) \in Nat /\ RowLimit \in Nat
      BY <1>3, LenProperties, StoreConstants
    <3> QED BY <1>3, <3>2, <3>3, <3>4
  <2>2. CASE ~Due(LastOf(list))
    BY <1>3, <1>4, <2>2
  <2> QED BY <2>1, <2>2
<1>7. newTimes \in SUBSET (0 .. clock) /\ \A t, u \in newTimes : t < u => u - t >= HourlyGap
  <2>1. CASE Due(times)
    <3>1. newTimes = times \cup {clock} /\ newTimes \in SUBSET (0 .. clock)
      BY <1>1, <1>3, <1>4, <2>1
    <3>2. ASSUME NEW t \in newTimes, NEW u \in newTimes, t < u PROVE u - t >= HourlyGap
      <4>1. t \in 0 .. clock /\ u \in 0 .. clock
        BY <3>1
      <4>2. t # clock
        BY <1>1, <3>2, <4>1
      <4>3. t \in times
        BY <3>1, <4>2
      <4>4. CASE u = clock
        BY <2>1, <4>3, <4>4 DEF Due
      <4>5. CASE u \in times
        BY <1>3, <3>2, <4>3, <4>5
      <4> QED BY <3>1, <4>4, <4>5
    <3> QED BY <3>1, <3>2
  <2>2. CASE ~Due(times)
    BY <1>3, <1>4, <2>2
  <2> QED BY <2>1, <2>2
<1>8. booted = 0 => Mirrors(newTimes, newList)
  <2> SUFFICES ASSUME booted = 0 PROVE Mirrors(newTimes, newList)
    OBVIOUS
  <2>1. Mirrors(times, list)
    BY <1>3
  <2>2. Due(times) <=> Due(LastOf(list))
    BY <1>1, <1>3, <2>1, DueTogether
  <2>3. CASE Due(times)
    <3>1. newTimes = times \cup {clock} /\ newList = Capped(list, clock, RowLimit)
      BY <1>4, <2>2, <2>3
    <3> QED BY <1>1, <1>3, <2>1, <2>2, <2>3, <3>1, CappedMirrors
  <2>4. CASE ~Due(times)
    BY <1>4, <2>1, <2>2, <2>4
  <2> QED BY <2>3, <2>4
<1>9. rows' \in [Env -> SUBSET (0 .. clock)] /\ rowList' \in [Env -> Seq(Nat)]
  BY <1>1, <1>5, <1>6, <1>7
<1>10. ASSUME NEW f \in Env
       PROVE  /\ Len(rowList'[f]) <= RowLimit
              /\ \A t, u \in rows'[f] : t < u => u - t >= HourlyGap
              /\ Spread(rowList'[f])
              /\ booted = 0 => Mirrors(rows'[f], rowList'[f])
  <2>1. CASE f = e
    <3>1. rowList'[f] = newList /\ rows'[f] = newTimes
      BY <1>1, <1>5, <2>1
    <3> QED BY <1>6, <1>7, <1>8, <3>1
  <2>2. CASE f # e
    <3>1. rowList'[f] = rowList[f] /\ rows'[f] = rows[f]
      BY <1>1, <1>5, <2>2
    <3> QED BY <3>1 DEF RowsInv
  <2> QED BY <2>1, <2>2
<1>11. \A f \in Env : (Spread(rowList'[f]) <=> Spread(rowList[f])')
                      /\ (Mirrors(rows'[f], rowList'[f]) <=> Mirrors(rows[f], rowList[f])')
  BY <1>1 DEF Spread, Mirrors
<1> QED BY <1>1, <1>9, <1>10, <1>11 DEF RowsInv

LEMMA NextRows == RowsInv /\ [StoreNext]_storeVars => RowsInv'
<1> SUFFICES ASSUME RowsInv, [StoreNext]_storeVars PROVE RowsInv'
  OBVIOUS
<1>1. ASSUME UNCHANGED <<clock, booted, rows, rowList>> PROVE RowsInv'
  BY <1>1 DEF RowsInv, Spread, Mirrors
<1>2. CASE Restart
  <2>1. /\ clock \in Nat /\ clock > 0 /\ clock' = clock /\ booted' = clock /\ rows' = rows
        /\ rowList' = [e \in Env |-> <<>>] /\ RowLimit \in Nat \ {0}
    BY <1>2, StoreConstants DEF Restart, RowsInv
  <2>2. rowList' \in [Env -> Seq(Nat)] /\ \A e \in Env : Len(rowList'[e]) = 0
    BY <2>1, EmptySeq
  <2>3. \A e \in Env : Spread(rowList[e])'
    BY <2>2 DEF Spread
  <2>4. booted' # 0
    BY <2>1
  <2> QED BY <2>1, <2>2, <2>3, <2>4 DEF RowsInv
<1>3. CASE ClockTicks
  <2>1. clock' = clock + 1 /\ clock \in Nat /\ UNCHANGED <<booted, rows, rowList>>
        /\ rowList \in [Env -> Seq(Nat)]
    BY <1>3 DEF ClockTicks, RowsInv
  <2>2. rows' \in [Env -> SUBSET (0 .. clock')]
    <3>1. \A e \in Env : \A t \in rows[e] : t \in 0 .. clock'
      BY <2>1 DEF RowsInv
    <3> QED BY <2>1, <3>1 DEF RowsInv
  <2>3. ASSUME NEW e \in Env PROVE Spread(rowList[e])'
    <3>1. \A i \in 1 .. Len(rowList[e]) : rowList[e][i] \in Nat
      BY <2>1, ElementOfSeq
    <3>2. Spread(rowList[e])
      BY DEF RowsInv
    <3>3. \A i \in 1 .. Len(rowList[e]) : rowList[e][i] <= clock'
      BY <2>1, <3>1, <3>2 DEF Spread
    <3> QED BY <2>1, <3>2, <3>3 DEF Spread
  <2>4. \A e \in Env : Mirrors(rows[e], rowList[e])' <=> Mirrors(rows[e], rowList[e])
    BY <2>1 DEF Mirrors
  <2> QED BY <2>1, <2>2, <2>3, <2>4 DEF RowsInv
<1>4. ASSUME NEW t \in Target, NEW ok \in BOOLEAN, RecordSample(t, ok) PROVE RowsInv'
  BY <1>1, <1>4 DEF RecordSample
<1>5. CASE Prune
  BY <1>1, <1>5 DEF Prune
<1>6. CASE UNCHANGED storeVars
  BY <1>1, <1>6 DEF storeVars
<1> QED BY <1>2, <1>3, <1>4, <1>5, <1>6, RecordRows DEF StoreNext

\* Positions of which every one has all before it are the first so many.
LEMMA FirstPositions ==
  ASSUME NEW n \in Nat, NEW hits \in SUBSET (1 .. n),
         \A i \in hits : \A j \in 1 .. n : j < i => j \in hits
  PROVE  Cardinality(hits) \in Nat /\ hits = 1 .. Cardinality(hits)
<1>1. IsFiniteSet(1 .. n)
  BY FS_Interval
<1>2. IsFiniteSet(hits) /\ Cardinality(hits) \in Nat
  BY <1>1, FS_Subset, FS_CardinalityType
<1>3. PICK size : size = Cardinality(hits)
  OBVIOUS
<1>4. ASSUME NEW i \in hits PROVE i <= size
  <2>1. i \in 1 .. n /\ 1 .. i \subseteq hits
    BY <1>4
  <2>2. Cardinality(1 .. i) = i
    BY <2>1, FS_Interval
  <2>3. Cardinality(1 .. i) <= Cardinality(hits)
    BY <1>2, <2>1, FS_Subset
  <2> QED BY <1>3, <2>2, <2>3
<1>5. hits \subseteq 1 .. size
  BY <1>2, <1>3, <1>4
<1>6. IsFiniteSet(1 .. size) /\ Cardinality(1 .. size) = size
  BY <1>2, <1>3, FS_Interval
<1>7. hits = 1 .. size
  BY <1>3, <1>5, <1>6, FS_Subset
<1> QED BY <1>2, <1>3, <1>7

LEMMA NewestIs ==
  ASSUME NEW times \in SUBSET Int, NEW x \in times, \A u \in times : u <= x
  PROVE  Newest(times) = x
<1>1. ASSUME NEW y \in times, \A u \in times : u <= y PROVE y = x
  <2>1. x <= y /\ y <= x /\ x \in Int /\ y \in Int
    BY <1>1
  <2> QED BY <2>1
<1>2. \E y \in times : \A u \in times : u <= y
  OBVIOUS
<1> QED BY <1>1, <1>2 DEF Newest

\* before: a week back, the fallback still has what SQLite finds.
LEMMA BeforeAgrees ==
  ASSUME NEW list \in Seq(Nat), NEW times \in SUBSET Nat, Len(list) <= RowLimit, Spread(list),
         clock \in Nat, Mirrors(times, list), NEW at \in clock - Lookback .. clock
  PROVE  NewestUpTo(times, at) = BeforeInMemory(list, at)
<1>1. Len(list) \in Nat /\ RowLimit \in Nat \ {0} /\ HourlyGap \in Nat \ {0} /\ Lookback \in Nat
      /\ at \in Int
  BY LenProperties, StoreConstants
<1>2. DOMAIN list = 1 .. Len(list) /\ \A i \in 1 .. Len(list) : list[i] \in Nat
  BY <1>1, LenProperties, ElementOfSeq
<1>3. PICK hits, old : hits = {i \in DOMAIN list : list[i] <= at} /\ old = {t \in times : t <= at}
  OBVIOUS
<1>4. /\ NewestUpTo(times, at) = IF old = {} THEN -1 ELSE Newest(old)
      /\ BeforeInMemory(list, at) = IF hits = {} THEN -1 ELSE list[Newest(hits)]
  BY <1>3 DEF NewestUpTo, BeforeInMemory
\* What has fallen off is older than a week.
<1>5. ASSUME Len(list) = RowLimit PROVE list[1] <= at
  <2>1. 1 \in 1 .. Len(list) /\ Len(list) \in 1 .. Len(list)
    BY <1>1, <1>5
  <2>2. PICK first, last, hours : /\ first = list[1] /\ last = list[Len(list)]
                                  /\ hours = (RowLimit - 1) * HourlyGap
    OBVIOUS
  <2>3. first \in Nat /\ last \in Nat /\ last <= clock
    BY <1>2, <2>1, <2>2 DEF Spread
  <2>4. hours \in Nat /\ hours >= Lookback
    <3>1. RowLimit - 1 \in Nat
      BY <1>1
    <3> QED BY <1>1, <2>2, <3>1, StoreConstants
  <2>5. last - first >= hours
    <3>1. CASE RowLimit = 1
      <4>1. hours = 0 /\ first = last
        BY <1>1, <1>5, <2>2, <3>1
      <4> QED BY <2>3, <4>1
    <3>2. CASE RowLimit # 1
      <4>1. 1 < Len(list)
        BY <1>1, <1>5, <3>2
      <4>2. list[Len(list)] - list[1] >= (Len(list) - 1) * HourlyGap
        BY <2>1, <4>1 DEF Spread
      <4> QED BY <1>5, <2>2, <4>2
    <3> QED BY <3>1, <3>2
  <2>6. first <= clock - Lookback
    BY ONLY <1>1, <2>3, <2>4, <2>5, clock \in Nat
  <2>7. clock - Lookback <= at
    BY <1>1
  <2> QED BY <1>1, <2>2, <2>3, <2>6, <2>7
<1>6. CASE hits = {}
  <2>1. old = {}
    <3> SUFFICES ASSUME NEW t \in old PROVE FALSE
      OBVIOUS
    <3>1. t \in times /\ t <= at /\ t \in Nat
      BY <1>3
    <3>2. CASE \E i \in 1 .. Len(list) : list[i] = t
      BY <1>2, <1>3, <1>6, <3>1, <3>2
    <3>3. CASE Len(list) = RowLimit
      <4>1. 1 \in DOMAIN list /\ list[1] <= at
        BY <1>1, <1>2, <1>5, <3>3
      <4> QED BY <1>3, <1>6, <4>1
    <3> QED BY <3>1, <3>2, <3>3 DEF Mirrors
  <2> QED BY <1>4, <1>6, <2>1
<1>7. CASE hits # {}
  <2>1. PICK size : size = Cardinality(hits)
    OBVIOUS
  <2>2. ASSUME NEW i \in hits, NEW j \in 1 .. Len(list), j < i PROVE j \in hits
    <3>1. i \in 1 .. Len(list) /\ list[i] <= at
      BY <1>2, <1>3
    <3>2. list[j] < list[i]
      BY <2>2, <3>1, SpreadAscends
    <3>3. list[j] <= at
      BY <1>1, <1>2, <3>1, <3>2
    <3> QED BY <1>2, <1>3, <3>3
  <2>3. size \in Nat /\ hits = 1 .. size
    <3>1. hits \in SUBSET (1 .. Len(list))
      BY <1>2, <1>3
    <3> QED BY <1>1, <2>1, <2>2, <3>1, FirstPositions
  <2>4. size \in hits /\ \A i \in hits : i <= size
    BY <1>7, <2>3
  <2>5. Newest(hits) = size
    <3>1. hits \in SUBSET Int
      BY <2>3
    <3> QED BY <2>4, <3>1, NewestIs
  <2>6. size \in 1 .. Len(list) /\ list[size] <= at /\ list[size] \in Nat
    BY <1>2, <1>3, <2>4
  <2>7. list[size] \in old
    BY <1>3, <2>6 DEF Mirrors
  <2>8. ASSUME NEW t \in old PROVE t <= list[size]
    <3>1. t \in times /\ t <= at /\ t \in Nat
      BY <1>3
    <3>2. ASSUME NEW i \in 1 .. Len(list), i <= size PROVE list[i] <= list[size]
      <4>1. CASE i = size
        BY <2>6, <4>1
      <4>2. CASE i # size
        <5>1. i < size
          BY <2>3, <3>2, <4>2
        <5>2. list[i] < list[size]
          BY <2>6, <5>1, SpreadAscends
        <5> QED BY <1>2, <2>6, <5>2
      <4> QED BY <4>1, <4>2
    <3>3. ASSUME NEW i \in 1 .. Len(list), list[i] = t PROVE t <= list[size]
      <4>1. i \in hits
        BY <1>2, <1>3, <3>1, <3>3
      <4> QED BY <2>4, <3>2, <3>3, <4>1
    <3>4. CASE t < list[1]
      <4>1. 1 \in 1 .. Len(list) /\ 1 <= size
        BY <1>1, <2>3, <2>4, <2>6
      <4>2. list[1] <= list[size] /\ list[1] \in Nat
        BY <1>2, <3>2, <4>1
      <4> QED BY <2>6, <3>1, <3>4, <4>2
    <3> QED BY <3>1, <3>3, <3>4 DEF Mirrors
  <2>9. Newest(old) = list[size]
    <3>1. old \in SUBSET Int
      <4>1. old \subseteq times /\ times \subseteq Int
        BY <1>3
      <4> QED BY ONLY <4>1
    <3> QED BY <2>7, <2>8, <3>1, NewestIs
  <2> QED BY <1>4, <1>7, <2>5, <2>7, <2>9
<1> QED BY <1>6, <1>7

\* history: the newest rows of the file are the list.
LEMMA HistoryAgrees ==
  ASSUME NEW list \in Seq(Nat), NEW times \in SUBSET (0 .. clock), Len(list) <= RowLimit,
         Spread(list), clock \in Nat, Mirrors(times, list)
  PROVE  NewestRows(times, RowLimit) = HistoryInMemory(list, RowLimit)
<1>1. Len(list) \in Nat /\ RowLimit \in Nat \ {0}
  BY LenProperties, StoreConstants
<1>2. DOMAIN list = 1 .. Len(list) /\ \A i \in 1 .. Len(list) : list[i] \in Nat
  BY <1>1, LenProperties, ElementOfSeq
<1>3. IsFiniteSet(times)
  <2>1. 0 \in Int /\ clock \in Int
    OBVIOUS
  <2>2. IsFiniteSet(0 .. clock)
    BY <2>1, FS_Interval
  <2> QED BY <2>2, FS_Subset
<1>4. HistoryInMemory(list, RowLimit) = {list[i] : i \in 1 .. Len(list)}
  <2>1. {j \in DOMAIN list : j > Len(list) - RowLimit} = 1 .. Len(list)
    BY <1>1, <1>2
  <2> QED BY <2>1 DEF HistoryInMemory
<1>5. ASSUME NEW i \in 1 .. Len(list) PROVE list[i] \in NewestRows(times, RowLimit)
  <2>1. PICK later : later = {u \in times : u > list[i]}
    OBVIOUS
  <2>2. PICK f : f = [j \in i + 1 .. Len(list) |-> list[j]]
    OBVIOUS
  <2>3. f \in Surjection(i + 1 .. Len(list), later)
    <3>1. ASSUME NEW j \in i + 1 .. Len(list) PROVE f[j] \in later
      <4>1. j \in 1 .. Len(list) /\ i < j /\ f[j] = list[j]
        BY <1>1, <2>2
      <4>2. list[i] < list[j] /\ list[j] \in times
        BY <4>1, SpreadAscends DEF Mirrors
      <4> QED BY <1>2, <2>1, <4>1, <4>2
    <3>2. ASSUME NEW u \in later PROVE \E j \in i + 1 .. Len(list) : f[j] = u
      <4>1. u \in times /\ u > list[i] /\ u \in Nat /\ list[i] \in Nat
        BY <1>2, <2>1
      <4>2. ASSUME u < list[1] PROVE FALSE
        <5>1. 1 \in 1 .. Len(list)
          BY <1>1
        <5>2. CASE i = 1
          BY <4>1, <4>2, <5>2
        <5>3. CASE i # 1
          <6>1. list[1] < list[i] /\ list[1] \in Nat
            BY <1>1, <1>2, <5>1, <5>3, SpreadAscends
          <6> QED BY <4>1, <4>2, <6>1
        <5> QED BY <5>2, <5>3
      <4>3. PICK j \in 1 .. Len(list) : list[j] = u
        BY <4>1, <4>2 DEF Mirrors
      <4>4. i < j
        <5>1. CASE j < i
          <6>1. list[j] < list[i]
            BY <5>1, SpreadAscends
          <6> QED BY <4>1, <4>3, <6>1
        <5>2. CASE j = i
          BY <4>1, <4>3, <5>2
        <5> QED BY <1>1, <5>1, <5>2
      <4>5. j \in i + 1 .. Len(list) /\ f[j] = u
        BY <1>1, <2>2, <4>3, <4>4
      <4> QED BY <4>5
    <3>3. f \in [i + 1 .. Len(list) -> later]
      BY <2>2, <3>1
    <3> QED BY <3>2, <3>3 DEF Surjection
  <2>4. IsFiniteSet(i + 1 .. Len(list)) /\ Cardinality(i + 1 .. Len(list)) < RowLimit
        /\ Cardinality(i + 1 .. Len(list)) \in Nat
    <3>1. i + 1 \in Int /\ Len(list) \in Int
      BY <1>1
    <3>2. IsFiniteSet(i + 1 .. Len(list))
          /\ Cardinality(i + 1 .. Len(list)) = IF i + 1 > Len(list) THEN 0 ELSE Len(list) - (i + 1) + 1
      BY <3>1, FS_Interval
    <3> QED BY <1>1, <3>2
  <2>5. IsFiniteSet(later) /\ Cardinality(later) <= Cardinality(i + 1 .. Len(list))
    BY <2>3, <2>4, FS_Surjection
  <2>6. Cardinality(later) < RowLimit
    BY <1>1, <2>4, <2>5, FS_CardinalityType
  <2> QED BY <2>1, <2>6 DEF NewestRows, Mirrors
<1>6. ASSUME NEW t \in NewestRows(times, RowLimit) PROVE \E i \in 1 .. Len(list) : list[i] = t
  <2>1. PICK later : later = {u \in times : u > t}
    OBVIOUS
  <2>2. t \in times /\ Cardinality(later) < RowLimit
    BY <2>1 DEF NewestRows
  <2>3. ASSUME Len(list) = RowLimit, t < list[1] PROVE FALSE
    <3>1. PICK f : f = [j \in 1 .. Len(list) |-> list[j]]
      OBVIOUS
    <3>2. ASSUME NEW j \in 1 .. Len(list) PROVE list[j] \in later
      <4>1. 1 \in 1 .. Len(list) /\ t \in Nat /\ list[1] \in Nat /\ list[j] \in Nat
        BY <1>1, <1>2, <2>2
      <4>2. list[1] <= list[j]
        <5>1. CASE j = 1
          BY <4>1, <5>1
        <5>2. CASE j # 1
          BY <1>1, <4>1, <5>2, SpreadAscends
        <5> QED BY <5>1, <5>2
      <4>3. list[j] > t /\ list[j] \in times
        BY <2>3, <4>1, <4>2 DEF Mirrors
      <4> QED BY <2>1, <4>3
    <3>3. ASSUME NEW i \in 1 .. Len(list), NEW j \in 1 .. Len(list), f[i] = f[j] PROVE i = j
      <4>1. list[i] = list[j] /\ list[i] \in Nat /\ list[j] \in Nat
        BY <1>2, <3>1, <3>3
      <4>2. CASE i < j
        <5>1. list[i] < list[j]
          BY <4>2, SpreadAscends
        <5> QED BY <4>1, <5>1
      <4>3. CASE j < i
        <5>1. list[j] < list[i]
          BY <4>3, SpreadAscends
        <5> QED BY <4>1, <5>1
      <4> QED BY <1>1, <4>2, <4>3
    <3>4. f \in Injection(1 .. Len(list), later)
      <4>1. f \in [1 .. Len(list) -> later]
        BY <3>1, <3>2
      <4>2. DOMAIN f = 1 .. Len(list)
        BY <3>1
      <4> QED BY <3>3, <4>1, <4>2 DEF Injection, IsInjective
    <3>5. IsFiniteSet(later)
      BY <1>3, <2>1, FS_Subset
    <3>6. Cardinality(1 .. Len(list)) <= Cardinality(later) /\ Cardinality(1 .. Len(list)) = Len(list)
      <4>1. 1 \in Int /\ Len(list) \in Int
        BY <1>1
      <4>2. Cardinality(1 .. Len(list)) <= Cardinality(later)
        BY <3>4, <3>5, FS_Injection
      <4>3. Cardinality(1 .. Len(list)) = Len(list)
        <5>1. Cardinality(1 .. Len(list)) = IF 1 > Len(list) THEN 0 ELSE Len(list) - 1 + 1
          BY <4>1, FS_Interval
        <5> QED BY <1>1, <5>1
      <4> QED BY <4>2, <4>3
    <3>7. Cardinality(later) \in Nat
      BY <3>5, FS_CardinalityType
    <3> QED BY <1>1, <2>2, <2>3, <3>6, <3>7
  <2> QED BY <2>2, <2>3 DEF Mirrors
<1> QED BY <1>4, <1>5, <1>6

\* Samples of which every two are as many ticks apart as there are steps between.
SampleOf == [at : Nat, ok : BOOLEAN]

Timed(list) ==
    \A i \in 1 .. Len(list) :
        /\ list[i].at <= clock
        /\ \A j \in 1 .. Len(list) : i < j => list[j].at - list[i].at >= j - i

\* The fallback has samples of the file.
Stored(list, set) == \A i \in 1 .. Len(list) : list[i] \in set

\* What it lacks of them is before the window.
Windowed(set, list) ==
    \A x \in set : \/ \E i \in 1 .. Len(list) : list[i] = x
                   \/ x.at < clock - ProbeWindow

SamplesInv ==
    /\ clock \in Nat /\ booted \in Nat
    /\ samples \in [Target -> SUBSET SampleOf]
    /\ sampleList \in [Target -> Seq(SampleOf)]
    /\ \A t \in Target :
         /\ Len(sampleList[t]) <= ProbeLimit
         /\ Timed(sampleList[t])
         /\ Stored(sampleList[t], samples[t])
         /\ booted = 0 => Windowed(samples[t], sampleList[t])

\* What filter keeps of such a list is its end.
LEMMA NotBeforeIs ==
  ASSUME NEW list \in Seq(SampleOf), Timed(list), NEW start \in Int
  PROVE  \E k \in 0 .. Len(list) :
           /\ {i \in 1 .. Len(list) : list[i].at >= start} = k + 1 .. Len(list)
           /\ NotBefore(list, start) \in Seq(SampleOf)
           /\ Len(NotBefore(list, start)) = Len(list) - k
           /\ \A j \in 1 .. Len(list) - k : NotBefore(list, start)[j] = list[k + j]
<1>1. PICK n : n = Len(list)
  OBVIOUS
<1>2. n \in Nat /\ DOMAIN list = 1 .. n /\ \A i \in 1 .. n : list[i] \in SampleOf
  BY <1>1, LenProperties, ElementOfSeq
<1>3. \A i \in 1 .. n : list[i].at \in Nat
  BY <1>2 DEF SampleOf
<1> DEFINE dropped == {i \in 1 .. n : list[i].at < start}
           kept == {i \in 1 .. n : list[i].at >= start}
<1>4. ASSUME NEW i \in dropped, NEW j \in 1 .. n, j < i PROVE j \in dropped
  <2>1. list[i].at - list[j].at >= i - j
    BY <1>1, <1>4 DEF Timed
  <2>2. i \in 1 .. n /\ list[i].at < start
    OBVIOUS
  <2>3. PICK old, young : old = list[j].at /\ young = list[i].at
    OBVIOUS
  <2>4. old \in Nat /\ young \in Nat /\ young - old >= i - j /\ young < start
    BY <1>3, <2>1, <2>2, <2>3
  <2>5. old < start
    BY <1>4, <2>2, <2>4
  <2> QED BY <2>3, <2>5
<1>5. PICK k : k = Cardinality(dropped)
  OBVIOUS
<1>6. k \in Nat /\ dropped = 1 .. k
  <2> HIDE DEF dropped
  <2>1. dropped \in SUBSET (1 .. n)
    BY DEF dropped
  <2> QED BY <1>2, <1>4, <1>5, <2>1, FirstPositions
<1>7. k <= n
  <2>1. k = 0 \/ k \in dropped
    BY <1>6
  <2> QED BY <1>2, <1>6, <2>1
<1>8. kept = k + 1 .. n
  <2>1. \A i \in 1 .. n : i \in kept <=> i \notin dropped
    BY <1>3
  <2> QED BY <1>2, <1>6, <2>1
<1> HIDE DEF kept, dropped
<1>9. Cardinality(kept) = n - k
  <2>1. k + 1 \in Int /\ n \in Int
    BY <1>2, <1>6
  <2>2. Cardinality(k + 1 .. n) = IF k + 1 > n THEN 0 ELSE n - (k + 1) + 1
    BY <2>1, FS_Interval
  <2>3. (IF k + 1 > n THEN 0 ELSE n - (k + 1) + 1) = n - k
    BY <1>2, <1>6, <1>7
  <2> QED BY <1>8, <2>2, <2>3
<1>10. ASSUME NEW i \in kept PROVE Cardinality({x \in kept : x <= i}) = i - k
  <2>1. i \in Int /\ k + 1 \in Int /\ k + 1 <= i
    BY <1>2, <1>6, <1>8
  <2>2. {x \in kept : x <= i} = k + 1 .. i
    BY <1>2, <1>6, <1>8
  <2>3. Cardinality(k + 1 .. i) = IF k + 1 > i THEN 0 ELSE i - (k + 1) + 1
    BY <2>1, FS_Interval
  <2>4. (IF k + 1 > i THEN 0 ELSE i - (k + 1) + 1) = i - k
    BY <1>6, <2>1
  <2> QED BY <2>2, <2>3, <2>4
<1>11. ASSUME NEW j \in 1 .. n - k PROVE Nth(kept, j) = k + j
  <2>1. k + j \in kept /\ (k + j) - k = j
    BY <1>2, <1>6, <1>7, <1>8
  <2>2. Cardinality({x \in kept : x <= k + j}) = j
    BY <1>10, <2>1
  <2>3. ASSUME NEW i \in kept, Cardinality({x \in kept : x <= i}) = j PROVE i = k + j
    <3>1. i - k = j /\ i \in Int
      BY <1>2, <1>6, <1>8, <1>10, <2>3
    <3> QED BY <1>6, <3>1
  <2> QED BY <2>1, <2>2, <2>3 DEF Nth
<1>12. NotBefore(list, start) = [j \in 1 .. n - k |-> list[Nth(kept, j)]]
  <2>1. {i \in DOMAIN list : list[i].at >= start} = kept
    BY <1>2 DEF kept
  <2> QED BY <1>9, <2>1 DEF NotBefore
<1>13. \A j \in 1 .. n - k : NotBefore(list, start)[j] = list[k + j]
  BY <1>11, <1>12
<1>14. NotBefore(list, start) \in Seq(SampleOf) /\ Len(NotBefore(list, start)) = n - k
  <2>1. PICK m : m = n - k
    OBVIOUS
  <2>2. m \in Nat /\ \A j \in 1 .. m : k + j \in 1 .. n
    BY <1>2, <1>6, <1>7, <2>1
  <2>3. PICK g : g = NotBefore(list, start)
    OBVIOUS
  <2>4. g \in [1 .. m -> SampleOf]
    BY <1>2, <1>11, <1>12, <2>1, <2>2, <2>3
  <2>5. g \in Seq(SampleOf)
    BY <2>2, <2>4
  <2>6. Len(g) = m
    BY <2>2, <2>4, <2>5, LenProperties
  <2> QED BY <2>1, <2>3, <2>5, <2>6
<1>15. k \in 0 .. Len(list)
  BY <1>1, <1>2, <1>6, <1>7
<1>16. {i \in 1 .. Len(list) : list[i].at >= start} = k + 1 .. Len(list)
  BY <1>1, <1>8 DEF kept
<1>17. /\ NotBefore(list, start) \in Seq(SampleOf)
       /\ Len(NotBefore(list, start)) = Len(list) - k
       /\ \A j \in 1 .. Len(list) - k : NotBefore(list, start)[j] = list[k + j]
  BY <1>1, <1>13, <1>14
<1> QED BY <1>15, <1>16, <1>17

\* A sample is recorded: its list stays timed, and what falls off a full one is too old.
LEMMA CappedSamples ==
  ASSUME NEW list \in Seq(SampleOf), NEW set \in SUBSET SampleOf, NEW x \in SampleOf,
         Len(list) <= ProbeLimit, clock \in Nat, x.at = clock, Timed(list), Stored(list, set),
         \A y \in set : y.at < clock
  PROVE  LET new == Capped(list, x, ProbeLimit) IN
         /\ new \in Seq(SampleOf) /\ Len(new) <= ProbeLimit
         /\ Timed(new) /\ Stored(new, set \cup {x})
         /\ Windowed(set, list) => Windowed(set \cup {x}, new)
<1>0. ProbeLimit \in Nat \ {0} /\ ProbeWindow \in Nat /\ ProbeLimit > ProbeWindow
  BY StoreConstants
<1>1. PICK new, n, s : new = Capped(list, x, ProbeLimit) /\ n = Len(list) /\ s \in {0, 1}
        /\ new \in Seq(SampleOf) /\ Len(new) = n + 1 - s
        /\ (\A i \in 1 .. n - s : new[i] = list[i + s]) /\ new[n + 1 - s] = x
        /\ (s = 1 <=> n = ProbeLimit)
  <2>1. PICK s \in {0, 1} :
          /\ Capped(list, x, ProbeLimit) \in Seq(SampleOf)
          /\ Len(Capped(list, x, ProbeLimit)) = Len(list) + 1 - s
          /\ \A i \in 1 .. Len(list) - s : Capped(list, x, ProbeLimit)[i] = list[i + s]
          /\ Capped(list, x, ProbeLimit)[Len(list) + 1 - s] = x
          /\ s = 1 <=> Len(list) = ProbeLimit
    BY <1>0, CappedIs
  <2>2. PICK new, n : new = Capped(list, x, ProbeLimit) /\ n = Len(list)
    OBVIOUS
  <2> QED BY <2>1, <2>2
<1>2. n \in Nat /\ n <= ProbeLimit /\ s \in Nat /\ n + 1 - s \in Nat
  BY <1>0, <1>1, LenProperties
<1>3. \A i \in 1 .. n : list[i] \in SampleOf /\ list[i].at \in Nat /\ list[i] \in set /\ list[i].at < clock
  <2>1. \A i \in 1 .. n : list[i] \in SampleOf
    BY <1>1, ElementOfSeq
  <2> QED BY <1>1, <2>1 DEF SampleOf, Stored
<1>4. ASSUME NEW i \in 1 .. n + 1 - s, i # n + 1 - s
      PROVE  i \in 1 .. n - s /\ i + s \in 1 .. n /\ new[i] = list[i + s]
  <2>1. i \in 1 .. n - s /\ i + s \in 1 .. n
    BY <1>2, <1>4
  <2> QED BY <1>1, <2>1
<1>5. Len(new) <= ProbeLimit
  BY <1>0, <1>1, <1>2
<1>6. Stored(new, set \cup {x})
  <2>1. ASSUME NEW i \in 1 .. n + 1 - s PROVE new[i] \in set \cup {x}
    <3>1. CASE i = n + 1 - s
      BY <1>1, <3>1
    <3>2. CASE i # n + 1 - s
      BY <1>3, <1>4, <3>2
    <3> QED BY <3>1, <3>2
  <2> QED BY <1>1, <2>1 DEF Stored
\* The oldest is as many ticks ago as there are samples.
<1>7. ASSUME NEW i \in 1 .. n PROVE clock - list[i].at >= n + 1 - i
  <2>1. n \in 1 .. n /\ list[n].at \in Nat /\ list[i].at \in Nat /\ list[n].at < clock
    BY <1>2, <1>3
  <2>2. CASE i = n
    <3>1. n + 1 - i = 1 /\ list[i].at < clock
      BY <1>2, <2>1, <2>2
    <3> QED BY <2>1, <3>1
  <2>3. CASE i # n
    <3>1. list[n].at - list[i].at >= n - i
      <4>1. i < n
        BY <1>2, <2>3
      <4> QED BY <1>1, <2>1, <4>1 DEF Timed
    <3>2. PICK old, young : old = list[i].at /\ young = list[n].at
      OBVIOUS
    <3>3. /\ old \in Nat /\ young \in Nat /\ young - old >= n - i /\ young < clock
          /\ n \in Nat /\ i \in Nat /\ clock \in Nat
      BY <1>2, <2>1, <3>1, <3>2
    <3>4. clock - old >= n + 1 - i
      BY ONLY <3>3
    <3> QED BY <3>2, <3>4
  <2> QED BY <2>2, <2>3
<1>8. Timed(new)
  <2>1. ASSUME NEW i \in 1 .. n + 1 - s PROVE new[i].at <= clock
    <3>1. CASE i = n + 1 - s
      BY <1>1, <3>1
    <3>2. CASE i # n + 1 - s
      <4>1. list[i + s].at \in Nat /\ list[i + s].at < clock /\ new[i] = list[i + s]
        BY <1>3, <1>4, <3>2
      <4> QED BY <4>1
    <3> QED BY <3>1, <3>2
  <2>2. ASSUME NEW i \in 1 .. n + 1 - s, NEW j \in 1 .. n + 1 - s, i < j
        PROVE  new[j].at - new[i].at >= j - i
    <3>1. i # n + 1 - s /\ i \in Nat /\ j \in Nat
      BY <1>2, <2>2
    <3>2. i + s \in 1 .. n /\ new[i] = list[i + s]
      BY <1>4, <3>1
    <3>3. CASE j = n + 1 - s
      <4>1. clock - list[i + s].at >= n + 1 - (i + s)
        BY <1>7, <3>2
      <4>2. n + 1 - (i + s) = j - i
        BY <1>2, <3>1, <3>3
      <4>3. new[j].at = clock
        BY <1>1, <3>3
      <4> QED BY <3>2, <4>1, <4>2, <4>3
    <3>4. CASE j # n + 1 - s
      <4>1. j + s \in 1 .. n /\ new[j] = list[j + s]
        BY <1>4, <3>4
      <4>2. i + s < j + s /\ (j + s) - (i + s) = j - i
        BY <1>2, <2>2, <3>1
      <4>3. list[j + s].at - list[i + s].at >= (j + s) - (i + s)
        BY <1>1, <3>2, <4>1, <4>2 DEF Timed
      <4> QED BY <3>2, <4>1, <4>2, <4>3
    <3> QED BY <3>3, <3>4
  <2> QED BY <1>1, <2>1, <2>2 DEF Timed
<1>9. Windowed(set, list) => Windowed(set \cup {x}, new)
  <2> SUFFICES ASSUME Windowed(set, list), NEW y \in set \cup {x}
               PROVE  (\E i \in 1 .. n + 1 - s : new[i] = y) \/ y.at < clock - ProbeWindow
    BY <1>1 DEF Windowed
  <2>1. CASE y = x
    <3>1. n + 1 - s \in 1 .. n + 1 - s
      <4>1. n + 1 - s >= 1
        BY <1>0, <1>1, <1>2
      <4> QED BY <1>2, <4>1
    <3> QED BY <1>1, <2>1, <3>1
  <2>2. CASE y \in set /\ y.at < clock - ProbeWindow
    BY <2>2
  <2>3. CASE \E i \in 1 .. n : list[i] = y
    <3>1. PICK i \in 1 .. n : list[i] = y
      BY <2>3
    <3>2. CASE i - s \in 1 .. n - s
      <4>1. i - s \in 1 .. n + 1 - s /\ (i - s) + s = i
        BY <1>2, <3>2
      <4> QED BY <1>1, <3>1, <3>2, <4>1
    <3>3. CASE i - s \notin 1 .. n - s
      <4>1. i = 1 /\ s = 1 /\ n = ProbeLimit
        BY <1>1, <1>2, <3>3
      <4>2. clock - list[i].at >= n + 1 - i /\ list[i].at \in Nat
        BY <1>3, <1>7
      <4>3. PICK old : old = list[i].at
        OBVIOUS
      <4>4. old < clock - ProbeWindow
        BY <1>0, <4>1, <4>2, <4>3
      <4> QED BY <3>1, <4>3, <4>4
    <3> QED BY <3>2, <3>3
  <2> QED BY <1>1, <2>1, <2>2, <2>3 DEF Windowed
<1> QED BY <1>1, <1>5, <1>6, <1>8, <1>9

\* The samples are pruned, in the file and in memory.
LEMMA PrunedSamples ==
  ASSUME NEW list \in Seq(SampleOf), NEW set \in SUBSET SampleOf, NEW start \in Int,
         clock \in Nat, Len(list) <= ProbeLimit, Timed(list), Stored(list, set)
  PROVE  LET new == NotBefore(list, start)
             left == {y \in set : y.at >= start}
         IN  /\ new \in Seq(SampleOf) /\ Len(new) <= ProbeLimit
             /\ Timed(new) /\ Stored(new, left)
             /\ Windowed(set, list) => Windowed(left, new)
<1>0. ProbeLimit \in Nat \ {0}
  BY StoreConstants
<1>1. PICK new, left, n, k :
        /\ new = NotBefore(list, start) /\ left = {y \in set : y.at >= start}
        /\ n = Len(list) /\ k \in 0 .. n
        /\ {i \in 1 .. n : list[i].at >= start} = k + 1 .. n
        /\ new \in Seq(SampleOf) /\ Len(new) = n - k
        /\ \A j \in 1 .. n - k : new[j] = list[k + j]
  <2>1. PICK k \in 0 .. Len(list) :
           /\ {i \in 1 .. Len(list) : list[i].at >= start} = k + 1 .. Len(list)
           /\ NotBefore(list, start) \in Seq(SampleOf)
           /\ Len(NotBefore(list, start)) = Len(list) - k
           /\ \A j \in 1 .. Len(list) - k : NotBefore(list, start)[j] = list[k + j]
    BY NotBeforeIs
  <2>2. PICK new, left, n : new = NotBefore(list, start) /\ left = {y \in set : y.at >= start}
                            /\ n = Len(list)
    OBVIOUS
  <2> QED BY <2>1, <2>2
<1>2. n \in Nat /\ k \in Nat /\ k <= n /\ n <= ProbeLimit
  BY <1>1, LenProperties
<1>3. ASSUME NEW j \in 1 .. n - k
      PROVE  k + j \in 1 .. n /\ k + j \in k + 1 .. n /\ new[j] = list[k + j]
  BY <1>1, <1>2
<1>4. Len(new) <= ProbeLimit
  BY <1>0, <1>1, <1>2
<1>5. Stored(new, left)
  <2>1. ASSUME NEW j \in 1 .. n - k PROVE new[j] \in left
    <3>1. list[k + j] \in set /\ list[k + j].at >= start
      BY <1>1, <1>3 DEF Stored
    <3> QED BY <1>1, <1>3, <3>1
  <2> QED BY <1>1, <2>1 DEF Stored
<1>6. Timed(new)
  <2>1. ASSUME NEW i \in 1 .. n - k PROVE new[i].at <= clock
    BY <1>1, <1>3 DEF Timed
  <2>2. ASSUME NEW i \in 1 .. n - k, NEW j \in 1 .. n - k, i < j
        PROVE  new[j].at - new[i].at >= j - i
    <3>1. k + i < k + j /\ (k + j) - (k + i) = j - i
      BY <1>2, <2>2
    <3>2. list[k + j].at - list[k + i].at >= (k + j) - (k + i)
      BY <1>1, <1>3, <3>1 DEF Timed
    <3> QED BY <1>3, <3>1, <3>2
  <2> QED BY <1>1, <2>1, <2>2 DEF Timed
<1>7. Windowed(set, list) => Windowed(left, new)
  <2> SUFFICES ASSUME Windowed(set, list), NEW y \in left
               PROVE  (\E j \in 1 .. n - k : new[j] = y) \/ y.at < clock - ProbeWindow
    BY <1>1 DEF Windowed
  <2>1. y \in set /\ y.at >= start
    BY <1>1
  <2>2. CASE y.at < clock - ProbeWindow
    BY <2>2
  <2>3. CASE \E i \in 1 .. n : list[i] = y
    <3>1. PICK i \in 1 .. n : list[i] = y
      BY <2>3
    <3>2. i \in k + 1 .. n
      BY <1>1, <2>1, <3>1
    <3>3. i - k \in 1 .. n - k /\ k + (i - k) = i
      BY <1>2, <3>2
    <3> QED BY <1>3, <3>1, <3>3
  <2> QED BY <1>1, <2>1, <2>2, <2>3 DEF Windowed
<1> QED BY <1>1, <1>4, <1>5, <1>6, <1>7

LEMMA InitSamples == StoreInit => SamplesInv
<1> SUFFICES ASSUME StoreInit PROVE SamplesInv
  OBVIOUS
<1>1. /\ clock = 0 /\ booted = 0
      /\ samples = [t \in Target |-> {}] /\ sampleList = [t \in Target |-> <<>>]
  BY DEF StoreInit
<1>2. sampleList \in [Target -> Seq(SampleOf)] /\ samples \in [Target -> SUBSET SampleOf]
  BY <1>1, EmptySeq
<1>3. \A t \in Target : Len(sampleList[t]) = 0 /\ samples[t] = {}
  BY <1>1
<1>4. ProbeLimit \in Nat
  BY StoreConstants
<1>5. ASSUME NEW t \in Target
      PROVE  /\ Timed(sampleList[t]) /\ Stored(sampleList[t], samples[t])
             /\ Windowed(samples[t], sampleList[t]) /\ Len(sampleList[t]) <= ProbeLimit
  BY <1>3, <1>4 DEF Timed, Stored, Windowed
<1> QED BY <1>1, <1>2, <1>3, <1>5 DEF SamplesInv

\* recordProbe, for one target.
LEMMA RecordSamples ==
  ASSUME SamplesInv, NEW t \in Target, NEW ok \in BOOLEAN, RecordSample(t, ok)
  PROVE  SamplesInv'
<1>1. PICK x, list, set, new :
        /\ x = [at |-> clock, ok |-> ok] /\ list = sampleList[t] /\ set = samples[t]
        /\ new = Capped(list, x, ProbeLimit)
  OBVIOUS
<1>2. /\ clock \in Nat /\ booted \in Nat /\ clock' = clock /\ booted' = booted
      /\ samples \in [Target -> SUBSET SampleOf] /\ sampleList \in [Target -> Seq(SampleOf)]
      /\ samples' = [samples EXCEPT ![t] = set \cup {x}]
      /\ sampleList' = [sampleList EXCEPT ![t] = new]
      /\ \A y \in set : y.at < clock
  BY <1>1 DEF SamplesInv, RecordSample
<1>3. x \in SampleOf /\ x.at = clock
  BY <1>1, <1>2 DEF SampleOf
<1>4. /\ list \in Seq(SampleOf) /\ set \in SUBSET SampleOf /\ Len(list) <= ProbeLimit
      /\ Timed(list) /\ Stored(list, set) /\ (booted = 0 => Windowed(set, list))
  BY <1>1, <1>2 DEF SamplesInv
<1>5. /\ new \in Seq(SampleOf) /\ Len(new) <= ProbeLimit
      /\ Timed(new) /\ Stored(new, set \cup {x})
      /\ Windowed(set, list) => Windowed(set \cup {x}, new)
  BY <1>1, <1>2, <1>3, <1>4, CappedSamples
<1>6. samples' \in [Target -> SUBSET SampleOf] /\ sampleList' \in [Target -> Seq(SampleOf)]
  BY <1>2, <1>3, <1>4, <1>5
<1>7. ASSUME NEW u \in Target
      PROVE  /\ Len(sampleList'[u]) <= ProbeLimit
             /\ Timed(sampleList'[u]) /\ Stored(sampleList'[u], samples'[u])
             /\ booted = 0 => Windowed(samples'[u], sampleList'[u])
  <2>1. CASE u = t
    <3>1. sampleList'[u] = new /\ samples'[u] = set \cup {x}
      BY <1>2, <2>1
    <3> QED BY <1>4, <1>5, <3>1
  <2>2. CASE u # t
    <3>1. sampleList'[u] = sampleList[u] /\ samples'[u] = samples[u]
      BY <1>2, <2>2
    <3> QED BY <3>1 DEF SamplesInv
  <2> QED BY <2>1, <2>2
<1>8. \A u \in Target : /\ Timed(sampleList'[u]) <=> Timed(sampleList[u])'
                        /\ Stored(sampleList'[u], samples'[u]) <=> Stored(sampleList[u], samples[u])'
                        /\ Windowed(samples'[u], sampleList'[u]) <=> Windowed(samples[u], sampleList[u])'
  BY <1>2 DEF Timed, Stored, Windowed
<1> QED BY <1>2, <1>6, <1>7, <1>8 DEF SamplesInv

LEMMA NextSamples == SamplesInv /\ [StoreNext]_storeVars => SamplesInv'
<1> SUFFICES ASSUME SamplesInv, [StoreNext]_storeVars PROVE SamplesInv'
  OBVIOUS
<1>1. ASSUME UNCHANGED <<clock, booted, samples, sampleList>> PROVE SamplesInv'
  BY <1>1 DEF SamplesInv, Timed, Stored, Windowed
<1>2. CASE Prune
  <2>1. PICK start : start = clock - Retention
    OBVIOUS
  <2>2. /\ clock \in Nat /\ booted \in Nat /\ clock' = clock /\ booted' = booted /\ start \in Int
        /\ samples \in [Target -> SUBSET SampleOf] /\ sampleList \in [Target -> Seq(SampleOf)]
        /\ samples' = [t \in Target |-> {y \in samples[t] : y.at >= start}]
        /\ sampleList' = [t \in Target |-> NotBefore(sampleList[t], start)]
    BY <1>2, <2>1, StoreConstants DEF SamplesInv, Prune
  <2>3. ASSUME NEW t \in Target
        PROVE  /\ sampleList'[t] \in Seq(SampleOf) /\ Len(sampleList'[t]) <= ProbeLimit
               /\ samples'[t] \in SUBSET SampleOf
               /\ Timed(sampleList'[t]) /\ Stored(sampleList'[t], samples'[t])
               /\ booted = 0 => Windowed(samples'[t], sampleList'[t])
    <3>1. PICK list, set : list = sampleList[t] /\ set = samples[t]
      OBVIOUS
    <3>2. /\ list \in Seq(SampleOf) /\ set \in SUBSET SampleOf /\ Len(list) <= ProbeLimit
          /\ Timed(list) /\ Stored(list, set) /\ (booted = 0 => Windowed(set, list))
      BY <2>2, <3>1 DEF SamplesInv
    <3>3. PICK new, left : new = NotBefore(list, start) /\ left = {y \in set : y.at >= start}
      OBVIOUS
    <3>4. /\ new \in Seq(SampleOf) /\ Len(new) <= ProbeLimit
          /\ Timed(new) /\ Stored(new, left)
          /\ Windowed(set, list) => Windowed(left, new)
      BY <2>2, <3>2, <3>3, PrunedSamples
    <3>5. sampleList'[t] = new /\ samples'[t] = left /\ left \in SUBSET SampleOf
      BY <2>2, <3>1, <3>2, <3>3
    <3> QED BY <3>2, <3>4, <3>5
  <2>4. samples' \in [Target -> SUBSET SampleOf] /\ sampleList' \in [Target -> Seq(SampleOf)]
    BY <2>2, <2>3
  <2>5. \A u \in Target : /\ Timed(sampleList'[u]) <=> Timed(sampleList[u])'
                          /\ Stored(sampleList'[u], samples'[u]) <=> Stored(sampleList[u], samples[u])'
                          /\ Windowed(samples'[u], sampleList'[u]) <=> Windowed(samples[u], sampleList[u])'
    BY <2>2 DEF Timed, Stored, Windowed
  <2> QED BY <2>2, <2>3, <2>4, <2>5 DEF SamplesInv
<1>3. CASE Restart
  <2>1. /\ clock \in Nat /\ clock > 0 /\ clock' = clock /\ booted' = clock /\ samples' = samples
        /\ sampleList' = [t \in Target |-> <<>>] /\ ProbeLimit \in Nat
    BY <1>3, StoreConstants DEF Restart, SamplesInv
  <2>2. sampleList' \in [Target -> Seq(SampleOf)] /\ \A t \in Target : Len(sampleList'[t]) = 0
    BY <2>1, EmptySeq
  <2>3. \A t \in Target : Timed(sampleList[t])' /\ Stored(sampleList[t], samples[t])'
    BY <2>2 DEF Timed, Stored
  <2>4. booted' # 0
    BY <2>1
  <2> QED BY <2>1, <2>2, <2>3, <2>4 DEF SamplesInv
<1>4. CASE ClockTicks
  <2>1. clock' = clock + 1 /\ clock \in Nat /\ UNCHANGED <<booted, samples, sampleList>>
        /\ samples \in [Target -> SUBSET SampleOf] /\ sampleList \in [Target -> Seq(SampleOf)]
        /\ ProbeWindow \in Nat
    BY <1>4, StoreConstants DEF ClockTicks, SamplesInv
  <2>2. ASSUME NEW t \in Target PROVE Timed(sampleList[t])' /\ Stored(sampleList[t], samples[t])'
    <3>1. \A i \in 1 .. Len(sampleList[t]) : sampleList[t][i].at \in Nat
      <4>1. \A i \in 1 .. Len(sampleList[t]) : sampleList[t][i] \in SampleOf
        BY <2>1, ElementOfSeq
      <4> QED BY <4>1 DEF SampleOf
    <3>2. Timed(sampleList[t]) /\ Stored(sampleList[t], samples[t])
      BY DEF SamplesInv
    <3>3. \A i \in 1 .. Len(sampleList[t]) : sampleList[t][i].at <= clock'
      BY <2>1, <3>1, <3>2 DEF Timed
    <3> QED BY <2>1, <3>2, <3>3 DEF Timed, Stored
  <2>3. ASSUME NEW t \in Target, Windowed(samples[t], sampleList[t])
        PROVE  Windowed(samples[t], sampleList[t])'
    <3>1. \A y \in samples[t] : y.at \in Nat
      BY <2>1 DEF SampleOf
    <3>2. \A y \in samples[t] : y.at < clock - ProbeWindow => y.at < clock' - ProbeWindow
      BY <2>1, <3>1
    <3> QED BY <2>1, <2>3, <3>2 DEF Windowed
  <2> QED BY <2>1, <2>2, <2>3 DEF SamplesInv
<1>5. ASSUME NEW e \in Env, RecordRow(e) PROVE SamplesInv'
  BY <1>1, <1>5 DEF RecordRow
<1>6. CASE UNCHANGED storeVars
  BY <1>1, <1>6 DEF storeVars
<1> QED BY <1>2, <1>3, <1>4, <1>5, <1>6, RecordSamples DEF StoreNext

\* A list without repetitions of the samples of a window counts them.
LEMMA ListCounts ==
  ASSUME NEW list \in Seq(SampleOf), NEW window, Timed(list), Stored(list, window),
         \A y \in window : \E i \in 1 .. Len(list) : list[i] = y
  PROVE  /\ Cardinality(window) = Len(list)
         /\ Cardinality({y \in window : y.ok}) = Cardinality({i \in DOMAIN list : list[i].ok})
<1>1. PICK n : n = Len(list)
  OBVIOUS
<1>2. n \in Nat /\ DOMAIN list = 1 .. n /\ \A i \in 1 .. n : list[i] \in SampleOf
  BY <1>1, LenProperties, ElementOfSeq
<1>3. ASSUME NEW i \in 1 .. n, NEW j \in 1 .. n, list[i] = list[j] PROVE i = j
  <2>1. list[i].at \in Nat /\ list[i].at = list[j].at
    BY <1>2, <1>3 DEF SampleOf
  <2>2. CASE i < j
    <3>1. list[j].at - list[i].at >= j - i
      BY <1>1, <2>2 DEF Timed
    <3>2. PICK time : time = list[i].at
      OBVIOUS
    <3>3. time \in Nat /\ time - time >= j - i
      BY <2>1, <3>1, <3>2
    <3> QED BY ONLY <2>2, <3>3, i \in 1 .. n, j \in 1 .. n, <1>2
  <2>3. CASE j < i
    <3>1. list[i].at - list[j].at >= i - j
      BY <1>1, <2>3 DEF Timed
    <3>2. PICK time : time = list[i].at
      OBVIOUS
    <3>3. time \in Nat /\ time - time >= i - j
      BY <2>1, <3>1, <3>2
    <3> QED BY ONLY <2>3, <3>3, i \in 1 .. n, j \in 1 .. n, <1>2
  <2> QED BY <1>2, <2>2, <2>3
<1>4. IsFiniteSet(1 .. n) /\ Cardinality(1 .. n) = n
  <2>1. 1 \in Int /\ n \in Int
    BY <1>2
  <2>2. IsFiniteSet(1 .. n) /\ Cardinality(1 .. n) = IF 1 > n THEN 0 ELSE n - 1 + 1
    BY <2>1, FS_Interval
  <2> QED BY <1>2, <2>2
\* The list itself, between any of its positions and the samples at them.
<1>5. ASSUME NEW from \in SUBSET (1 .. n), NEW to, \A i \in from : list[i] \in to,
             \A y \in to : \E i \in from : list[i] = y
      PROVE  Cardinality(to) = Cardinality(from)
  <2>1. PICK f : f = [i \in from |-> list[i]]
    OBVIOUS
  <2>2. DOMAIN f = from /\ f \in [from -> to] /\ \A i \in from : f[i] = list[i]
    BY <1>5, <2>1
  <2>3. \A i, j \in from : f[i] = f[j] => i = j
    BY <1>3, <2>2
  <2>4. f \in Injection(from, to)
    BY <2>2, <2>3 DEF Injection, IsInjective
  <2>5. f \in Surjection(from, to)
    BY <1>5, <2>2 DEF Surjection
  <2>6. ExistsBijection(from, to)
    BY <2>4, <2>5 DEF ExistsBijection, Bijection
  <2>7. IsFiniteSet(from)
    BY <1>4, FS_Subset
  <2> QED BY <2>6, <2>7, FS_Bijection
<1>6. Cardinality(window) = n
  <2>1. Cardinality(window) = Cardinality(1 .. n)
    BY <1>1, <1>5 DEF Stored
  <2> QED BY <1>4, <2>1
<1>7. Cardinality({y \in window : y.ok}) = Cardinality({i \in DOMAIN list : list[i].ok})
  <2>1. PICK from, to : from = {i \in DOMAIN list : list[i].ok} /\ to = {y \in window : y.ok}
    OBVIOUS
  <2>2. from \in SUBSET (1 .. n)
    BY <1>2, <2>1
  <2>3. \A i \in from : list[i] \in to
    BY <1>1, <1>2, <2>1 DEF Stored
  <2>4. \A y \in to : \E i \in from : list[i] = y
    BY <1>1, <1>2, <2>1
  <2>5. Cardinality(to) = Cardinality(from)
    BY <1>5, <2>2, <2>3, <2>4
  <2> QED BY <2>1, <2>5
<1> QED BY <1>1, <1>6, <1>7

\* probeStats: of the window, the fallback counts what SQLite counts.
LEMMA StatsAgree ==
  ASSUME SamplesInv, booted = 0, NEW t \in Target
  PROVE  StatsInSql(t, clock - ProbeWindow) = StatsInMemory(t, clock - ProbeWindow)
<1>1. PICK list, set, start : list = sampleList[t] /\ set = samples[t] /\ start = clock - ProbeWindow
  OBVIOUS
<1>2. /\ list \in Seq(SampleOf) /\ set \in SUBSET SampleOf /\ start \in Int /\ clock \in Nat
      /\ Len(list) <= ProbeLimit
      /\ Timed(list) /\ Stored(list, set) /\ Windowed(set, list)
  BY <1>1, StoreConstants DEF SamplesInv
<1>3. PICK new, window : new = NotBefore(list, start) /\ window = {y \in set : y.at >= start}
  OBVIOUS
<1>4. /\ new \in Seq(SampleOf) /\ Timed(new) /\ Stored(new, window) /\ Windowed(window, new)
  BY <1>2, <1>3, PrunedSamples
<1>5. ASSUME NEW y \in window PROVE \E i \in 1 .. Len(new) : new[i] = y
  <2>1. y.at \in Nat /\ y.at >= start
    BY <1>2, <1>3 DEF SampleOf
  <2>2. ~(y.at < clock - ProbeWindow)
    BY <1>1, <1>2, <2>1
  <2> QED BY <1>4, <2>2 DEF Windowed
<1>6. /\ Cardinality(window) = Len(new)
      /\ Cardinality({y \in window : y.ok}) = Cardinality({i \in DOMAIN new : new[i].ok})
  BY <1>4, <1>5, ListCounts
<1>7. StatsInSql(t, start) = Shown(Cardinality(window), Cardinality({y \in window : y.ok}))
  BY <1>1, <1>3 DEF StatsInSql
<1>8. StatsInMemory(t, start) = Shown(Len(new), Cardinality({i \in DOMAIN new : new[i].ok}))
  BY <1>1, <1>3 DEF StatsInMemory, StatsOf
<1> QED BY <1>1, <1>6, <1>7, <1>8

\* createMemoryStore keeps "the same window as SQLite would, minus the file": rows are an
\* hour apart in both, even across a restart, and until the process restarts every
\* question about the rows of a week (before, history) or the samples of a day
\* (probeStats) has the answer SQLite gives.
THEOREM HistoriesAreSound == StoreSpec => []HistoriesSound
<1>1. RowsInv => OneRowAnHour
  <2> SUFFICES ASSUME RowsInv PROVE OneRowAnHour
    OBVIOUS
  <2>1. ASSUME NEW e \in Env, NEW i \in DOMAIN rowList[e], NEW j \in DOMAIN rowList[e], i < j
        PROVE  rowList[e][j] - rowList[e][i] >= HourlyGap
    <3>1. PICK list : list = rowList[e]
      OBVIOUS
    <3>2. list \in Seq(Nat) /\ Spread(list) /\ i \in 1 .. Len(list) /\ j \in 1 .. Len(list)
      BY <3>1, LenProperties DEF RowsInv
    <3>3. list[j] - list[i] >= HourlyGap
      BY <2>1, <3>2, SpreadAscends
    <3> QED BY <3>1, <3>3
  <2> QED BY <2>1 DEF RowsInv, OneRowAnHour
<1>2. RowsInv => RowsAgree
  <2> SUFFICES ASSUME RowsInv, booted = 0, NEW e \in Env
               PROVE  /\ \A at \in clock - Lookback .. clock :
                           NewestUpTo(rows[e], at) = BeforeInMemory(rowList[e], at)
                      /\ NewestRows(rows[e], RowLimit) = HistoryInMemory(rowList[e], RowLimit)
    BY DEF RowsAgree
  <2>1. PICK list, times : list = rowList[e] /\ times = rows[e]
    OBVIOUS
  <2>2. /\ list \in Seq(Nat) /\ times \in SUBSET (0 .. clock) /\ times \in SUBSET Nat
        /\ Len(list) <= RowLimit /\ Spread(list) /\ Mirrors(times, list) /\ clock \in Nat
    BY <2>1 DEF RowsInv
  <2>3. \A at \in clock - Lookback .. clock : NewestUpTo(times, at) = BeforeInMemory(list, at)
    BY <2>2, BeforeAgrees
  <2>4. NewestRows(times, RowLimit) = HistoryInMemory(list, RowLimit)
    BY <2>2, HistoryAgrees
  <2> QED BY <2>1, <2>3, <2>4
<1>3. SamplesInv => SamplesAgree
  BY StatsAgree DEF SamplesAgree
<1>4. RowsInv /\ SamplesInv => HistoriesSound
  BY <1>1, <1>2, <1>3 DEF HistoriesSound
<1> QED BY InitRows, NextRows, InitSamples, NextSamples, <1>4, PTL DEF StoreSpec

-----------------------------------------------------------------------------
(* The overview: a payload of families read one after another. *)

\* What Coolify has answered for a family, then or now: of a deployment that has ended
\* since, it may still say that it is running.
Faithful(fates, f, value) ==
    /\ f.kind = "projects" => value = Project
    /\ f.kind = "environments" => value = {e \in Environment : ProjectOf[e] = f.of}
    /\ f.kind = "applications" => value = EnvApp
    /\ f.kind = "deployments" =>
         \A d \in value : /\ d.run \in Rollout /\ AppOf[d.run] = f.of
                          /\ d.status \in {"in_progress", "finished"}
                          /\ d.status = "finished" => fates[d.run] = "finished"

RunFates == fate \in [Rollout -> {"unborn", "in_progress", "finished"}]

CacheFaithful == \A f \in DOMAIN cached : Faithful(fate, f, cached[f])

\* What the build got is what Coolify said, or nothing and a note.
BuildFaithful ==
    \A f \in DOMAIN got :
        \/ Faithful(fate, f, got[f])
        \/ f.kind # "applications" /\ got[f] = {} /\ Scope(f) \in notes

\* Each stage reads families of its own.
BuildStages ==
    /\ stage \in {"idle", "scope", "lists", "histories", "running", "answer"}
    /\ asked \in Names \cup {None}
    /\ stage = "scope" => pending \subseteq {Global("projects"), Global("applications")}
    /\ stage = "lists" => \A f \in pending : f.kind = "environments"
    /\ stage = "histories" => \A f \in pending : f.kind = "deployments"
    /\ stage = "running" => pending \subseteq {Global("running")}
    /\ stage \in {"idle", "answer"} => pending = {}

\* What the payload is made of is read, or about to be.
BuildComplete ==
    /\ stage # "idle" => {Global("projects"), Global("applications")} \subseteq DOMAIN got \cup pending
    /\ stage \in {"lists", "histories", "running", "answer"} =>
         {Family("environments", p) : p \in got[Global("projects")]} \subseteq DOMAIN got \cup pending
    /\ stage \in {"histories", "running", "answer"} =>
         {Family("deployments", a) : a \in InEnvironment(got)} \subseteq DOMAIN got \cup pending

Payload == ShownOrNoted /\ (Answered => answer.ended \subseteq Rollout)

PayloadInv ==
    RunFates /\ CacheFaithful /\ BuildFaithful /\ BuildStages /\ BuildComplete /\ Payload

\* A deployment that has ended stays so: what was said of it remains true.
LEMMA FaithfulStays ==
  ASSUME NEW fates, NEW later, NEW f, NEW value, Faithful(fates, f, value),
         \A r \in Rollout : fates[r] = "finished" => later[r] = "finished"
  PROVE  Faithful(later, f, value)
BY DEF Faithful

LEMMA TruthIsFaithful ==
  ASSUME RunFates, NEW f
  PROVE  Faithful(fate, f, Truth(f))
<1>1. f.kind = "projects" => Truth(f) = Project
  BY DEF Truth
<1>2. f.kind = "environments" => Truth(f) = {e \in Environment : ProjectOf[e] = f.of}
  BY DEF Truth
<1>3. f.kind = "applications" => Truth(f) = EnvApp
  BY DEF Truth
<1>4. ASSUME f.kind = "deployments", NEW d \in Truth(f)
      PROVE  /\ d.run \in Rollout /\ AppOf[d.run] = f.of
             /\ d.status \in {"in_progress", "finished"}
             /\ d.status = "finished" => fate[d.run] = "finished"
  <2>1. Truth(f) = {[run |-> r, status |-> fate[r]] :
                      r \in {q \in Rollout : AppOf[q] = f.of /\ fate[q] # "unborn"}}
    BY <1>4 DEF Truth
  <2>2. PICK r \in Rollout : d = [run |-> r, status |-> fate[r]] /\ AppOf[r] = f.of /\ fate[r] # "unborn"
    BY <1>4, <2>1
  <2> QED BY <2>2 DEF RunFates
<1> QED BY <1>1, <1>2, <1>3, <1>4 DEF Faithful

\* Among finitely many names one counts the most applications.
LEMMA BusiestExists ==
  ASSUME NEW apps, IsFiniteSet(apps), NEW known, NEW names, names # {}
  PROVE  \E n \in names : \A m \in names : CountOf(known, apps, m) <= CountOf(known, apps, n)
<1> DEFINE C(n) == CountOf(known, apps, n)
           T == {Cardinality(apps) - C(n) : n \in names}
<1>1. Cardinality(apps) \in Nat /\ \A n : C(n) \in Nat /\ C(n) <= Cardinality(apps)
  <2>1. Cardinality(apps) \in Nat
    BY FS_CardinalityType
  <2>2. ASSUME NEW n PROVE C(n) \in Nat /\ C(n) <= Cardinality(apps)
    <3>1. {a \in apps : NameIn(known, a) = n} \subseteq apps
      OBVIOUS
    <3> QED BY <3>1, FS_Subset, FS_CardinalityType DEF CountOf
  <2> QED BY <2>1, <2>2
<1> HIDE DEF C
<1>2. T \subseteq Nat /\ T # {}
  BY <1>1
<1>3. PICK x \in T : \A y \in T : ~(<<y, x>> \in OpToRel(<, Nat))
  BY <1>2, NatLessThanWellFounded, WFMin
<1>4. \A y \in T : ~(y < x)
  BY <1>2, <1>3 DEF OpToRel
<1>5. PICK n \in names : x = Cardinality(apps) - C(n)
  OBVIOUS
<1>6. ASSUME NEW m \in names PROVE C(m) <= C(n)
  <2>1. ~(Cardinality(apps) - C(m) < Cardinality(apps) - C(n))
    BY <1>4, <1>5
  <2> QED BY <1>1, <2>1
<1> QED BY <1>6 DEF C

\* The environment that is shown is one that a list named, if any did.
LEMMA PickedIsNamed ==
  ASSUME NEW apps, IsFiniteSet(apps), NEW known, known # {}, NEW requested
  PROVE  PickEnvironment(known, apps, requested) \in {NameOf[e] : e \in known}
<1> DEFINE names == {NameOf[e] : e \in known}
<1>1. names # {}
  OBVIOUS
<1>2. \E n \in names : \A m \in names : CountOf(known, apps, m) <= CountOf(known, apps, n)
  BY <1>1, BusiestExists
<1>3. CASE requested \in names
  BY <1>3 DEF PickEnvironment
<1>4. CASE requested \notin names
  <2>1. PickEnvironment(known, apps, requested) =
          CHOOSE n \in names : \A m \in names : CountOf(known, apps, m) <= CountOf(known, apps, n)
    BY <1>1, <1>4 DEF PickEnvironment
  <2> QED BY <1>2, <2>1
<1> QED BY <1>3, <1>4

LEMMA PayloadStays ==
  ASSUME Payload, answer' = answer,
         \A r \in Rollout : fate[r] = "finished" => fate'[r] = "finished"
  PROVE  Payload'
<1>1. Answered' <=> Answered
  BY DEF Answered
<1>2. ASSUME Answered, NEW r \in answer.ended PROVE fate'[r] \in Terminal
  BY <1>2 DEF Payload, ShownOrNoted, Terminal
<1> QED BY <1>1, <1>2 DEF Payload, ShownOrNoted

LEMMA InitPayload ==
  OverviewInit => PayloadInv
<1> SUFFICES ASSUME OverviewInit PROVE PayloadInv
  OBVIOUS
<1>1. RunFates /\ CacheFaithful /\ BuildFaithful
  BY DEF OverviewInit, RunFates, CacheFaithful, BuildFaithful
<1>2. BuildStages /\ BuildComplete
  BY DEF OverviewInit, BuildStages, BuildComplete
<1>3. Payload
  BY DEF OverviewInit, Payload, ShownOrNoted, Answered
<1> QED BY <1>1, <1>2, <1>3 DEF PayloadInv

\* A read that gives what Coolify said, or nothing and a note, keeps the build sound.
LEMMA ReadKeeps ==
  ASSUME PayloadInv, NEW f \in pending, NEW value, Got(f, value), notes \subseteq notes',
         \/ Faithful(fate, f, value)
         \/ f.kind # "applications" /\ value = {} /\ Scope(f) \in notes'
  PROVE  RunFates' /\ BuildFaithful' /\ BuildStages' /\ BuildComplete' /\ Payload'
<1>1. RunFates' /\ Payload'
  <2>1. fate' = fate /\ answer' = answer
    BY DEF Got
  <2> QED BY <2>1, PayloadStays DEF PayloadInv, RunFates
<1>2. DOMAIN got' = DOMAIN got \cup {f} /\ got'[f] = value /\ \A g \in DOMAIN got \ {f} : got'[g] = got[g]
  BY DEF Got
<1>3. BuildFaithful'
  <2> SUFFICES ASSUME NEW g \in DOMAIN got'
               PROVE  \/ Faithful(fate', g, got'[g])
                      \/ g.kind # "applications" /\ got'[g] = {} /\ Scope(g) \in notes'
    BY DEF BuildFaithful, Scope
  <2>1. fate' = fate
    BY DEF Got
  <2>2. CASE g = f
    BY <1>2, <2>1, <2>2
  <2>3. CASE g # f
    <3>1. g \in DOMAIN got /\ got'[g] = got[g]
      BY <1>2, <2>3
    <3> QED BY <2>1, <3>1 DEF PayloadInv, BuildFaithful
  <2> QED BY <2>2, <2>3
<1>4. BuildStages'
  <2>1. stage' = stage /\ asked' = asked /\ pending' = pending \ {f}
    BY DEF Got
  <2> QED BY <2>1 DEF PayloadInv, BuildStages
<1>5. BuildComplete'
  <2>1. stage' = stage /\ DOMAIN got' \cup pending' = DOMAIN got \cup pending
    BY <1>2 DEF Got
  <2>2. ASSUME stage \in {"lists", "histories", "running", "answer"}
        PROVE  got'[Global("projects")] = got[Global("projects")]
    <3>1. f # Global("projects")
      BY <2>2 DEF PayloadInv, BuildStages, Global, Family
    <3>2. Global("projects") \in DOMAIN got
      <4>1. Global("projects") \in DOMAIN got \cup pending
        BY <2>2 DEF PayloadInv, BuildComplete
      <4>2. Global("projects") \notin pending
        BY <2>2 DEF PayloadInv, BuildStages, Global, Family
      <4> QED BY <4>1, <4>2
    <3> QED BY <1>2, <3>1, <3>2
  <2>3. ASSUME stage \in {"histories", "running", "answer"}
        PROVE  InEnvironment(got)' = InEnvironment(got)
    <3>1. f.kind \notin {"environments", "applications"}
      BY <2>3 DEF PayloadInv, BuildStages, Global, Family
    <3>2. \A g \in DOMAIN got' : g.kind = "environments" => g \in DOMAIN got /\ got'[g] = got[g]
      BY <1>2, <3>1
    <3>3. Known(got)' = Known(got)
      <4>1. {g \in DOMAIN got' : g.kind = "environments"} = {g \in DOMAIN got : g.kind = "environments"}
        BY <1>2, <3>1
      <4>2. {got'[g] : g \in {h \in DOMAIN got' : h.kind = "environments"}}
              = {got[g] : g \in {h \in DOMAIN got : h.kind = "environments"}}
        BY <3>2, <4>1
      <4> QED BY <4>2 DEF Known
    <3>4. got'[Global("applications")] = got[Global("applications")]
      <4>1. Global("applications") # f
        BY <3>1 DEF Global, Family
      <4>2. Global("applications") \in DOMAIN got
        <5>1. Global("applications") \in DOMAIN got \cup pending
          BY <2>3 DEF PayloadInv, BuildComplete
        <5>2. Global("applications") \notin pending
          BY <2>3 DEF PayloadInv, BuildStages, Global, Family
        <5> QED BY <5>1, <5>2
      <4> QED BY <1>2, <4>1, <4>2
    <3>5. asked' = asked
      BY DEF Got
    <3> QED BY <3>3, <3>4, <3>5 DEF InEnvironment
  <2> QED BY <2>1, <2>2, <2>3 DEF PayloadInv, BuildComplete
<1> QED BY <1>1, <1>3, <1>4, <1>5

\* What a complete build answers with.
LEMMA AnswerIsSound ==
  ASSUME PayloadInv, Answer
  PROVE  Payload'
<1> DEFINE known == Known(got)
           env == Picked(got)
           here == InEnvironment(got)
           running == {r \in got[Global("running")] : AppOf[r] \in here}
           ended == {d.run : d \in {e \in UNION {got[Family("deployments", a)] : a \in here} :
                                      DeploymentState(e.status) # "running"}}
<1>1. PICK newest \in SUBSET ended :
        answer' = [asked |-> asked, environment |-> env, apps |-> here,
                   running |-> running, ended |-> newest,
                   trend |-> CountTrend(Cardinality(here), weekAgo[env]),
                   notes |-> notes \cup (IF known = {} THEN {"everything"} ELSE {})]
  BY DEF Answer
<1>2. /\ answer'.asked = asked /\ answer'.environment = env /\ answer'.apps = here
      /\ answer'.running = running /\ answer'.ended = newest
      /\ notes \subseteq answer'.notes /\ (known = {} => "everything" \in answer'.notes)
  BY <1>1
<1>3. stage = "answer" /\ fate' = fate
  BY DEF Answer
<1>4. /\ {Global("projects"), Global("applications")} \subseteq DOMAIN got
      /\ {Family("environments", p) : p \in got[Global("projects")]} \subseteq DOMAIN got
      /\ {Family("deployments", a) : a \in here} \subseteq DOMAIN got
  BY <1>3 DEF PayloadInv, BuildStages, BuildComplete
<1>5. got[Global("applications")] = EnvApp
  BY <1>4 DEF PayloadInv, BuildFaithful, Faithful, Global, Family
<1>6. known \subseteq Environment
  <2> SUFFICES ASSUME NEW e \in known PROVE e \in Environment
    OBVIOUS
  <2>1. PICK f \in DOMAIN got : f.kind = "environments" /\ e \in got[f]
    BY DEF Known
  <2> QED BY <2>1 DEF PayloadInv, BuildFaithful, Faithful
<1>7. "environments" \notin notes => known = Environment
  <2> SUFFICES ASSUME "environments" \notin notes, NEW e \in Environment PROVE e \in known
    BY <1>6
  <2>1. got[Global("projects")] = Project
    BY <1>4 DEF PayloadInv, BuildFaithful, Faithful, Global, Family, Scope
  <2>2. PICK f : f = Family("environments", ProjectOf[e])
    OBVIOUS
  <2>3. f.kind = "environments" /\ f.of = ProjectOf[e] /\ ProjectOf[e] \in Project
    BY <2>2, OverviewConstants DEF Family
  <2>4. f \in DOMAIN got
    BY <1>4, <2>1, <2>2, <2>3
  <2>5. got[f] = {x \in Environment : ProjectOf[x] = f.of}
    <3>1. Scope(f) = "environments"
      BY <2>3 DEF Scope
    <3> QED BY <2>3, <2>4, <3>1 DEF PayloadInv, BuildFaithful, Faithful
  <2> QED BY <2>3, <2>4, <2>5 DEF Known
<1>8. known # {} => env \in {NameOf[e] : e \in known} /\ env # None
  <2> SUFFICES ASSUME known # {} PROVE env \in {NameOf[e] : e \in known} /\ env # None
    OBVIOUS
  <2>1. env \in {NameOf[e] : e \in known}
    BY <1>5, PickedIsNamed, OverviewConstants DEF Picked
  <2> QED BY <1>6, <2>1, OverviewConstants
<1>9. known # {} => here = {a \in EnvApp : HomeEnv[a] \in known /\ NameOf[HomeEnv[a]] = env}
  <2>1. here = {a \in EnvApp : known = {} \/ NameIn(known, a) = env}
    BY <1>5 DEF InEnvironment, Within, Picked
  <2> QED BY <1>8, <2>1 DEF NameIn
<1>10. known = Environment /\ known # {} => asked \in {env, None}
  <2> SUFFICES ASSUME known = Environment, known # {}, asked # None PROVE asked = env
    OBVIOUS
  <2>1. asked \in {NameOf[e] : e \in known}
    BY <1>3 DEF PayloadInv, BuildStages, Names
  <2> QED BY <2>1 DEF Picked, PickEnvironment
<1>11. \A r \in running \cup ended : AppOf[r] \in here
  <2> SUFFICES ASSUME NEW r \in ended PROVE AppOf[r] \in here
    OBVIOUS
  <2>1. PICK a \in here : \E d \in got[Family("deployments", a)] : d.run = r
    OBVIOUS
  <2>2. AppOf[r] = a
    <3>1. PICK f : f = Family("deployments", a)
      OBVIOUS
    <3>2. f \in DOMAIN got /\ f.kind = "deployments" /\ f.of = a
      BY <1>4, <3>1 DEF Family
    <3> QED BY <2>1, <3>1, <3>2 DEF PayloadInv, BuildFaithful, Faithful
  <2> QED BY <2>2
<1>12. \A r \in ended : r \in Rollout /\ fate[r] \in Terminal
  <2> SUFFICES ASSUME NEW r \in ended PROVE r \in Rollout /\ fate[r] \in Terminal
    OBVIOUS
  <2>1. PICK a \in here : \E d \in got[Family("deployments", a)] :
                              d.run = r /\ DeploymentState(d.status) # "running"
    OBVIOUS
  <2>2. PICK f : f = Family("deployments", a)
    OBVIOUS
  <2>3. f \in DOMAIN got /\ f.kind = "deployments" /\ f.of = a
    BY <1>4, <2>2 DEF Family
  <2>4. PICK d \in got[f] : d.run = r /\ DeploymentState(d.status) # "running"
    BY <2>1, <2>2
  <2>5. /\ r \in Rollout /\ d.status \in {"in_progress", "finished"}
        /\ d.status = "finished" => fate[r] = "finished"
    BY <2>3, <2>4 DEF PayloadInv, BuildFaithful, Faithful
  <2>6. d.status # "in_progress"
    BY <2>4 DEF DeploymentState
  <2> QED BY <2>5, <2>6 DEF Terminal
<1> HIDE DEF known, env, here, running, ended
<1>13. (Answered => answer.ended \subseteq Rollout)'
  BY <1>2, <1>12
<1>14. ShownOrNoted'
  <2> DEFINE shown == {a \in EnvApp : NameOf[HomeEnv[a]] = env}
  <2>1. \/ answer'.notes \cap {"environments", "everything"} # {}
        \/ answer'.apps = shown /\ answer'.asked \in {env, None}
    <3>1. CASE known = {}
      BY <1>2, <3>1
    <3>2. CASE "environments" \in notes
      BY <1>2, <3>2
    <3>3. CASE known # {} /\ "environments" \notin notes
      <4>1. here = shown
        BY <1>7, <1>9, <3>3, OverviewConstants
      <4> QED BY <1>2, <1>7, <1>10, <3>3, <4>1
    <3> QED BY <3>1, <3>2, <3>3
  <2>2. answer'.apps \subseteq shown \/ "everything" \in answer'.notes
    BY <1>2, <1>9
  <2>3. \A r \in answer'.running \cup answer'.ended : AppOf[r] \in answer'.apps
    BY <1>2, <1>11
  <2>4. \A r \in answer'.ended : fate'[r] \in Terminal
    BY <1>2, <1>3, <1>12
  <2> QED BY <1>2, <2>1, <2>2, <2>3, <2>4 DEF ShownOrNoted
<1> QED BY <1>13, <1>14 DEF Payload

LEMMA NextPayload ==
  PayloadInv /\ [OverviewNext]_overviewVars => PayloadInv'
<1> SUFFICES ASSUME PayloadInv, [OverviewNext]_overviewVars PROVE PayloadInv'
  OBVIOUS
<1>1. ASSUME NEW env \in Names \cup {None}, BuildStarts(env) PROVE PayloadInv'
  <2>1. RunFates' /\ CacheFaithful' /\ BuildFaithful'
    BY <1>1 DEF PayloadInv, BuildStarts, RunFates, CacheFaithful, BuildFaithful
  <2>2. BuildStages' /\ BuildComplete'
    BY <1>1 DEF PayloadInv, BuildStarts, BuildStages, BuildComplete
  <2>3. Payload'
    BY <1>1 DEF BuildStarts, Payload, ShownOrNoted, Answered
  <2> QED BY <2>1, <2>2, <2>3 DEF PayloadInv
<1>2. ASSUME Advance PROVE PayloadInv'
  <2>1. /\ UNCHANGED <<fate, cached, asked, got, notes, answer>>
        /\ stage' = After.stage /\ pending' = After.reads /\ pending = {}
        /\ stage \in {"scope", "lists", "histories", "running"}
    BY <1>2 DEF Advance, PayloadInv, BuildStages
  <2>2. RunFates' /\ CacheFaithful' /\ BuildFaithful'
    BY <2>1 DEF PayloadInv, RunFates, CacheFaithful, BuildFaithful, Scope
  <2>3. Payload'
    BY <2>1, PayloadStays DEF PayloadInv
  <2>4. InEnvironment(got)' = InEnvironment(got)
    BY <2>1 DEF InEnvironment, Known
  <2>5. BuildStages' /\ BuildComplete'
    <3>1. CASE stage = "scope"
      <4>1. stage' = "lists" /\ pending' = {Family("environments", p) : p \in got[Global("projects")]}
        BY <2>1, <3>1 DEF After
      <4> QED BY <2>1, <3>1, <4>1 DEF PayloadInv, BuildStages, BuildComplete, Family
    <3>2. CASE stage = "lists"
      <4>1. stage' = "histories" /\ pending' = {Family("deployments", a) : a \in InEnvironment(got)}
        BY <2>1, <3>2 DEF After
      <4> QED BY <2>1, <2>4, <3>2, <4>1 DEF PayloadInv, BuildStages, BuildComplete, Family
    <3>3. CASE stage = "histories"
      <4>1. stage' = "running" /\ pending' = {Global("running")}
        BY <2>1, <3>3 DEF After
      <4> QED BY <2>1, <2>4, <3>3, <4>1 DEF PayloadInv, BuildStages, BuildComplete
    <3>4. CASE stage = "running"
      <4>1. stage' = "answer" /\ pending' = {}
        BY <2>1, <3>4 DEF After
      <4> QED BY <2>1, <2>4, <3>4, <4>1 DEF PayloadInv, BuildStages, BuildComplete
    <3> QED BY <2>1, <3>1, <3>2, <3>3, <3>4
  <2> QED BY <2>2, <2>3, <2>5 DEF PayloadInv
<1>3. ASSUME NEW f \in pending, ReadCached(f) PROVE PayloadInv'
  <2>1. f \in DOMAIN cached /\ Got(f, cached[f]) /\ notes' = notes /\ cached' = cached
    BY <1>3 DEF ReadCached
  <2>2. Faithful(fate, f, cached[f])
    BY <2>1 DEF PayloadInv, CacheFaithful
  <2>3. CacheFaithful'
    BY <2>1 DEF Got, PayloadInv, CacheFaithful
  <2> QED BY <2>1, <2>2, <2>3, ReadKeeps DEF PayloadInv
<1>4. ASSUME NEW f \in pending, ReadLoaded(f) PROVE PayloadInv'
  <2>1. /\ Got(f, Truth(f)) /\ notes' = notes
        /\ cached' = [g \in DOMAIN cached \cup {f} |-> IF g = f THEN Truth(f) ELSE cached[g]]
    BY <1>4 DEF ReadLoaded
  <2>2. Faithful(fate, f, Truth(f))
    BY TruthIsFaithful DEF PayloadInv
  <2>3. CacheFaithful'
    <3>1. fate' = fate
      BY <2>1 DEF Got
    <3> QED BY <2>1, <2>2, <3>1 DEF PayloadInv, CacheFaithful
  <2> QED BY <2>1, <2>2, <2>3, ReadKeeps DEF PayloadInv
<1>5. ASSUME NEW f \in pending, ReadFails(f) PROVE PayloadInv'
  <2>1. PICK value : value = IF f \in DOMAIN cached THEN cached[f] ELSE {}
    OBVIOUS
  <2>2. Got(f, value) /\ notes' = Noted(f) /\ cached' = cached /\ (f.kind = "applications" => f \in DOMAIN cached)
    BY <1>5, <2>1 DEF ReadFails
  <2>3. notes \subseteq notes' /\ (f \notin DOMAIN cached => Scope(f) \in notes')
    BY <2>2 DEF Noted
  <2>4. \/ Faithful(fate, f, value)
        \/ f.kind # "applications" /\ value = {} /\ Scope(f) \in notes'
    BY <2>1, <2>2, <2>3 DEF PayloadInv, CacheFaithful
  <2>5. CacheFaithful'
    BY <2>2 DEF Got, PayloadInv, CacheFaithful
  <2> QED BY <2>2, <2>3, <2>4, <2>5, ReadKeeps DEF PayloadInv
<1>6. ASSUME BuildFails PROVE PayloadInv'
  <2>1. RunFates' /\ CacheFaithful' /\ BuildFaithful'
    BY <1>6 DEF PayloadInv, BuildFails, RunFates, CacheFaithful, BuildFaithful
  <2>2. BuildStages' /\ BuildComplete'
    BY <1>6 DEF PayloadInv, BuildFails, BuildStages, BuildComplete
  <2>3. Payload'
    BY <1>6, PayloadStays DEF BuildFails, PayloadInv
  <2> QED BY <2>1, <2>2, <2>3 DEF PayloadInv
<1>7. ASSUME Answer PROVE PayloadInv'
  <2>1. /\ UNCHANGED <<fate, cached, pending>> /\ stage = "answer" /\ stage' = "idle" /\ asked' = None
        /\ got' = [f \in {} |-> {}]
    BY <1>7 DEF Answer
  <2>2. RunFates' /\ CacheFaithful' /\ BuildFaithful'
    BY <2>1 DEF PayloadInv, RunFates, CacheFaithful, BuildFaithful
  <2>3. BuildStages' /\ BuildComplete'
    BY <2>1 DEF PayloadInv, BuildStages, BuildComplete
  <2> QED BY <1>7, <2>2, <2>3, AnswerIsSound DEF PayloadInv
<1>8. ASSUME UNCHANGED <<cached, stage, asked, pending, got, notes, answer>>, RunFates',
             \A r \in Rollout : fate[r] = "finished" => fate'[r] = "finished"
      PROVE  PayloadInv'
  <2>1. CacheFaithful' /\ BuildFaithful'
    BY <1>8, FaithfulStays DEF PayloadInv, CacheFaithful, BuildFaithful, Scope
  <2>2. InEnvironment(got)' = InEnvironment(got)
    BY <1>8 DEF InEnvironment, Known
  <2>3. BuildStages' /\ BuildComplete'
    BY <1>8, <2>2 DEF PayloadInv, BuildStages, BuildComplete
  <2>4. Payload'
    BY <1>8, PayloadStays DEF PayloadInv
  <2> QED BY <1>8, <2>1, <2>3, <2>4 DEF PayloadInv
<1>9. ASSUME NEW r \in Rollout, RunStarts(r) PROVE PayloadInv'
  <2>1. RunFates' /\ \A q \in Rollout : fate[q] = "finished" => fate'[q] = "finished"
    BY <1>9 DEF RunStarts, PayloadInv, RunFates
  <2> QED BY <1>8, <1>9, <2>1 DEF RunStarts
<1>10. ASSUME NEW r \in Rollout, NEW how \in Terminal, RunEnds(r, how) PROVE PayloadInv'
  <2>1. RunFates' /\ \A q \in Rollout : fate[q] = "finished" => fate'[q] = "finished"
    BY <1>10 DEF RunEnds, PayloadInv, RunFates, Terminal
  <2> QED BY <1>8, <1>10, <2>1 DEF RunEnds
<1>11. ASSUME ForgetDeployments PROVE PayloadInv'
  <2>1. UNCHANGED <<fate, stage, asked, pending, got, notes, answer>>
    BY <1>11 DEF ForgetDeployments
  <2>2. CacheFaithful'
    BY <1>11 DEF ForgetDeployments, PayloadInv, CacheFaithful
  <2>3. RunFates' /\ BuildFaithful'
    BY <2>1 DEF PayloadInv, RunFates, BuildFaithful, Scope
  <2>4. InEnvironment(got)' = InEnvironment(got)
    BY <2>1 DEF InEnvironment, Known
  <2>5. BuildStages' /\ BuildComplete'
    BY <2>1, <2>4 DEF PayloadInv, BuildStages, BuildComplete
  <2>6. Payload'
    BY <2>1, PayloadStays DEF PayloadInv
  <2> QED BY <2>2, <2>3, <2>5, <2>6 DEF PayloadInv
<1>12. ASSUME UNCHANGED overviewVars PROVE PayloadInv'
  <2>1. RunFates' /\ UNCHANGED <<cached, stage, asked, pending, got, notes, answer, fate>>
    BY <1>12 DEF overviewVars, PayloadInv, RunFates
  <2> QED BY <1>8, <2>1
<1> QED BY <1>1, <1>2, <1>3, <1>4, <1>5, <1>6, <1>7, <1>9, <1>10, <1>11, <1>12 DEF OverviewNext

\* Whatever fails, is stale or changes while one family is read after another: a payload
\* shows the applications of the environment that was asked for or says that it does not,
\* nothing of another environment unless it says that it shows everything, and no
\* deployment as ended before it did.
THEOREM PayloadsAreHonest == OverviewSpec => []ShownOrNoted
<1>1. PayloadInv => ShownOrNoted
  BY DEF PayloadInv, Payload
<1> QED BY <1>1, InitPayload, NextPayload, PTL DEF OverviewSpec
=============================================================================
