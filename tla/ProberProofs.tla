----------------------------- MODULE ProberProofs -----------------------------
(***************************************************************************)
(* Proofs about the probes of server/probes.ts, for any fleet, any limit   *)
(* and any number of failures that make an outage.                         *)
(*                                                                         *)
(* Types, widths and the loop hold whatever happens.  What relates a check *)
(* to the entry it will overwrite needs that no cycle starts while workers *)
(* of a failed one are still at work, which those theorems say (~Overlap). *)
(***************************************************************************)
EXTENDS Prober, MapLimitProofs

Kind == {"cycle", "stray"}

\* What the fan-out of a phase is over.
Work(phase) ==
    IF phase = "applications" THEN App ELSE IF phase = "servers" THEN Server ELSE {}

\* The awaited pool works exactly in the two fan-outs, over their items.
CycleOK(pool, phase) ==
    /\ pool \in PoolOver(Work(phase), ProbeCall)
    /\ Idle(pool) <=> phase \in {"none", "targets"}
    /\ Width(pool) <= Limit

\* The stray one lost a worker.
StrayOK(pool) == pool \in PoolOver(App, ProbeCall) /\ Width(pool) < Limit

\* A timer is set only between two cycles, and only while the prober is on.
Shape ==
    /\ probing \in BOOLEAN /\ probeTimer \in BOOLEAN
    /\ probePhase \in {"none", "targets", "applications", "servers"}
    /\ probed \subseteq App \cup Server
    /\ probeTimer => probing /\ probePhase = "none"
    /\ DOMAIN pools = Kind
    /\ CycleOK(pools["cycle"], probePhase)
    /\ StrayOK(pools["stray"])

Entries ==
    /\ applications \in ProbeMap(App, ProbeEntry)
    /\ servers \in ProbeMap(Server, BOOLEAN)
    /\ sincePruned \in 0 .. PruneEvery
    /\ told \in [App -> {"up", "down", "again"}]

-----------------------------------------------------------------------------
(* Entries, calls and maps. *)

\* The sets of App and Server are lists of a finite fleet.
LEMMA Finite ==
  /\ IsFiniteSet(App) /\ IsFiniteSet(Server)
  /\ \A phase : IsFiniteSet(Work(phase)) /\ Work(phase) \subseteq App \cup Server
BY ProberConstants, FS_EmptySet DEF Work

\* An entry that was never written is one.
LEMMA FreshTyped == Fresh \in ProbeEntry /\ Fresh.failures = 0
BY ProberConstants DEF Fresh, ProbeEntry

\* Growing older keeps the failures.
LEMMA OlderTyped ==
  ASSUME NEW entry \in ProbeEntry
  PROVE  Older(entry) \in ProbeEntry /\ Older(entry).failures = entry.failures
<1>1. entry.tls \in 0 .. TlsEvery
  BY DEF ProbeEntry
<1>2. (IF entry.tls < TlsEvery THEN entry.tls + 1 ELSE entry.tls) \in 0 .. TlsEvery
  BY <1>1, ProberConstants
<1> QED BY <1>2 DEF Older, ProbeEntry

\* What a map of entries holds for an application it knows is an entry.
LEMMA EntryOf ==
  ASSUME NEW known \in ProbeMap(App, ProbeEntry)
  PROVE  /\ DOMAIN known \subseteq App
         /\ \A a \in DOMAIN known : known[a] \in ProbeEntry
BY DEF ProbeMap

\* A map whose values are entries is a map of entries.
LEMMA MapTyped ==
  ASSUME NEW S, NEW T, NEW D \in SUBSET S, NEW f \in [D -> T]
  PROVE  f \in ProbeMap(S, T)
BY DEF ProbeMap

\* Every check of a fan-out starts from an entry.
LEMMA BeforeTyped ==
  ASSUME NEW known \in ProbeMap(App, ProbeEntry)
  PROVE  \A a \in App : Before(known)[a] \in ProbeCall
<1> SUFFICES ASSUME NEW a \in App PROVE Before(known)[a] \in ProbeCall
  OBVIOUS
<1>1. (IF a \in DOMAIN known THEN known[a] ELSE Fresh) \in ProbeEntry
  BY EntryOf, FreshTyped
<1>2. Before(known)[a] =
        [stage |-> "http", previous |-> IF a \in DOMAIN known THEN known[a] ELSE Fresh]
  BY DEF Before
<1> QED BY <1>1, <1>2 DEF ProbeCall

LEMMA KnockTyped == \A s \in Server : Knock[s] \in ProbeCall
BY FreshTyped DEF Knock, ProbeCall

\* A pool whose calls change in place stays as wide, and as idle, as it was.
LEMMA Retouched ==
  ASSUME NEW S, NEW pool \in PoolOver(S, ProbeCall),
         NEW at, at \in [DOMAIN pool.at -> ProbeCall]
  PROVE  LET new == [left |-> pool.left, at |-> at] IN
         /\ new \in PoolOver(S, ProbeCall)
         /\ Width(new) = Width(pool)
         /\ Idle(new) <=> Idle(pool)
<1> DEFINE new == [left |-> pool.left, at |-> at]
<1>1. pool.left \subseteq S /\ DOMAIN pool.at \subseteq S
  BY PoolOverCalls
<1>2. new.at = at /\ new.left = pool.left /\ DOMAIN at = DOMAIN pool.at
  OBVIOUS
<1>3. at \in UNION {[D -> ProbeCall] : D \in SUBSET S}
  BY <1>1
<1>4. new \in PoolOver(S, ProbeCall)
  BY <1>1, <1>3 DEF PoolOver
<1> HIDE DEF new
<1> QED BY <1>2, <1>4 DEF Width, Idle, new

-----------------------------------------------------------------------------
(* Types, widths and the loop. *)

\* The pool no cycle has launched.
LEMMA NothingOut == CycleOK(IdlePool, "none") /\ StrayOK(IdlePool)
<1>1. IdlePool \in PoolOver(Work("none"), ProbeCall) /\ IdlePool \in PoolOver(App, ProbeCall)
  BY IdlePoolOver
<1>2. Idle(IdlePool) /\ Width(IdlePool) = 0
  BY IdlePoolOver
<1> QED BY <1>1, <1>2, LimitConstant DEF CycleOK, StrayOK

\* An application in the awaited pool is being checked by the fan-out over applications.
LEMMA CycleAtApps ==
  ASSUME Shape, NEW a \in AppCalls("cycle")
  PROVE  probePhase = "applications"
<1>1. DOMAIN pools["cycle"].at \subseteq Work(probePhase)
  BY PoolOverCalls DEF Shape, CycleOK
<1> QED BY <1>1, ProberConstants DEF AppCalls, Work

\* What a pool is at has been started from a call.
LEMMA CallTyped ==
  ASSUME Shape, NEW k \in Kind, NEW a \in DOMAIN pools[k].at
  PROVE  /\ pools[k].at[a] \in ProbeCall
         /\ pools[k].at[a].previous \in ProbeEntry
<1>1. pools[k].at[a] \in ProbeCall
  BY PoolOverCalls DEF Shape, CycleOK, StrayOK, Kind
<1> QED BY <1>1 DEF ProbeCall

\* A cycle that settles leaves the awaited pool empty and sets the timer if it is on.
LEMMA SettlesShape ==
  ASSUME Shape, ProbeSettled, probing' = probing, probed' \subseteq App \cup Server,
         DOMAIN pools' = Kind, pools["cycle"]' = IdlePool, StrayOK(pools["stray"]')
  PROVE  Shape'
<1>1. CycleOK(pools["cycle"]', probePhase')
  BY NothingOut DEF ProbeSettled
<1> QED BY <1>1 DEF Shape, ProbeSettled

\* So does a cycle that ends well.
LEMMA EndsShape ==
  ASSUME Shape, ProbeCycleEnds, probing' = probing, probed' \subseteq App \cup Server
  PROVE  Shape'
<1>1. /\ DOMAIN pools' = Kind /\ pools["cycle"]' = IdlePool
      /\ pools["stray"]' = pools["stray"]
  BY DEF ProbeCycleEnds, Shape, Kind
<1>2. StrayOK(pools["stray"]')
  BY <1>1 DEF Shape
<1> QED BY <1>1, <1>2, SettlesShape DEF ProbeCycleEnds

\* A fan-out that is launched over a non-empty list has calls in flight, Limit at most.
LEMMA LaunchShape ==
  ASSUME Shape, probePhase # "none", NEW phase \in {"applications", "servers"},
         NEW S \in SUBSET Work(phase), S # {}, NEW batch \in FirstBatch(S),
         NEW start, \A i \in S : start[i] \in ProbeCall,
         probePhase' = phase,
         pools' = [pools EXCEPT !["cycle"] = Launched(S, batch, start)],
         UNCHANGED <<probing, probeTimer>>, probed' \subseteq App \cup Server
  PROVE  Shape'
<1> DEFINE pool == Launched(S, batch, start)
<1>1. IsFiniteSet(S)
  BY Finite, FS_Subset
<1>2. /\ pool \in PoolOver(S, ProbeCall) /\ Width(pool) <= Limit
      /\ ~Idle(pool)
  BY <1>1, LaunchedOver
<1>3. pool \in PoolOver(Work(phase), ProbeCall)
  BY <1>2, PoolOverMore
<1>4. CycleOK(pool, phase)
  BY <1>2, <1>3 DEF CycleOK
<1>5. /\ DOMAIN pools' = Kind /\ pools["cycle"]' = pool
      /\ pools["stray"]' = pools["stray"]
  BY DEF Shape, Kind
<1>6. ~probeTimer'
  BY DEF Shape
<1>7. StrayOK(pools["stray"]')
  BY <1>5 DEF Shape
<1> HIDE DEF pool
<1> QED BY <1>4, <1>5, <1>6, <1>7 DEF Shape

LEMMA ServersNextShape ==
  ASSUME Shape, probePhase # "none", NEW S \in SUBSET Server, ServersNext(S),
         probing' = probing, probed' \subseteq App \cup Server
  PROVE  Shape'
<1>1. CASE S = {}
  BY <1>1, EndsShape DEF ServersNext
<1>2. CASE S # {}
  <2>1. PICK batch \in FirstBatch(S) :
          /\ probePhase' = "servers"
          /\ pools' = [pools EXCEPT !["cycle"] = Launched(S, batch, Knock)]
          /\ UNCHANGED <<probeTimer, sincePruned>>
    BY <1>2 DEF ServersNext
  <2>2. \A i \in S : Knock[i] \in ProbeCall
    BY KnockTyped
  <2>3. S \in SUBSET Work("servers")
    BY DEF Work
  <2> QED BY <1>2, <2>1, <2>2, <2>3, LaunchShape
<1> QED BY <1>1, <1>2

\* A worker goes on, the last one of a fan-out hands over to the next.
LEMMA GoesOnShape ==
  ASSUME Shape, NEW k \in Kind, NEW i \in DOMAIN pools[k].at,
         NEW start,
         \A j \in (IF k = "stray" THEN App ELSE Work(probePhase)) : start[j] \in ProbeCall,
         ProberGoesOn(k, i, start), UNCHANGED <<probing, probed>>
  PROVE  Shape'
<1>1. PICK next \in Onwards(pools[k].left) :
        LET pool == Advanced(pools[k], i, next, start) IN
        IF k = "stray" \/ ~Idle(pool)
        THEN /\ pools' = [pools EXCEPT ![k] = pool]
             /\ UNCHANGED <<probePhase, probeTimer, sincePruned>>
        ELSE IF probePhase = "applications" THEN ServersNext(probed \cap Server)
        ELSE ProbeCycleEnds
  BY DEF ProberGoesOn
<1> DEFINE pool == Advanced(pools[k], i, next, start)
<1>2. CASE k = "stray"
  <2>1. pools["stray"] \in PoolOver(App, ProbeCall) /\ Width(pools["stray"]) \in Nat
    BY Finite, WidthNat DEF Shape, StrayOK
  <2>2. /\ pool \in PoolOver(App, ProbeCall)
        /\ Width(pool) \in Nat /\ Width(pool) <= Width(pools["stray"])
    <3>1. PICK old : old = pools["stray"]
      OBVIOUS
    <3>2. /\ old \in PoolOver(App, ProbeCall) /\ i \in DOMAIN old.at /\ next \in Onwards(old.left)
          /\ \A j \in App : start[j] \in ProbeCall
      BY <1>2, <2>1, <3>1
    <3>3. /\ Advanced(old, i, next, start) \in PoolOver(App, ProbeCall)
          /\ Width(Advanced(old, i, next, start)) \in Nat
          /\ Width(Advanced(old, i, next, start)) <= Width(old)
      BY <3>2, Finite, AdvancedOver
    <3> QED BY <1>2, <3>1, <3>3
  <2>3. StrayOK(pool)
    BY <2>1, <2>2, LimitConstant DEF Shape, StrayOK
  <2>4. /\ DOMAIN pools' = Kind /\ pools["stray"]' = pool
        /\ pools["cycle"]' = pools["cycle"]
        /\ UNCHANGED <<probePhase, probeTimer>>
    BY <1>1, <1>2 DEF Shape, Kind
  <2> HIDE DEF pool
  <2> QED BY <2>3, <2>4 DEF Shape
<1>3. CASE k = "cycle" /\ ~Idle(pool)
  <2>1. /\ pools["cycle"] \in PoolOver(Work(probePhase), ProbeCall)
        /\ Width(pools["cycle"]) \in Nat /\ ~Idle(pools["cycle"])
    BY <1>3, Finite, WidthNat DEF Shape, CycleOK, Idle
  <2>2. /\ pool \in PoolOver(Work(probePhase), ProbeCall)
        /\ Width(pool) \in Nat /\ Width(pool) <= Width(pools["cycle"])
    <3>1. PICK old, list : old = pools["cycle"] /\ list = Work(probePhase)
      OBVIOUS
    <3>2. /\ old \in PoolOver(list, ProbeCall) /\ i \in DOMAIN old.at /\ next \in Onwards(old.left)
          /\ IsFiniteSet(list) /\ \A j \in list : start[j] \in ProbeCall
      BY <1>3, <2>1, <3>1, Finite
    <3>3. /\ Advanced(old, i, next, start) \in PoolOver(list, ProbeCall)
          /\ Width(Advanced(old, i, next, start)) \in Nat
          /\ Width(Advanced(old, i, next, start)) <= Width(old)
      BY <3>2, AdvancedOver
    <3> QED BY <1>3, <3>1, <3>3
  <2>3. CycleOK(pool, probePhase)
    BY <1>3, <2>1, <2>2, LimitConstant DEF Shape, CycleOK
  <2>4. /\ DOMAIN pools' = Kind /\ pools["cycle"]' = pool
        /\ pools["stray"]' = pools["stray"]
        /\ UNCHANGED <<probePhase, probeTimer>>
    BY <1>1, <1>3 DEF Shape, Kind
  <2> HIDE DEF pool
  <2> QED BY <2>3, <2>4 DEF Shape
<1>4. CASE k = "cycle" /\ Idle(pool)
  <2>1. probePhase # "none"
    BY <1>4 DEF Shape, CycleOK, Idle
  <2>2. \/ ServersNext(probed \cap Server)
        \/ ProbeCycleEnds
    BY <1>1, <1>4
  <2>3. probed' \subseteq App \cup Server
    BY DEF Shape
  <2> QED BY <2>1, <2>2, <2>3, ServersNextShape, EndsShape
<1> QED BY <1>2, <1>3, <1>4 DEF Kind

PInv == Shape /\ Entries

LEMMA InitPInv == ProberInit => PInv
<1> SUFFICES ASSUME ProberInit PROVE PInv
  OBVIOUS
<1>1. Shape
  <2>1. DOMAIN pools = Kind /\ pools["cycle"] = IdlePool /\ pools["stray"] = IdlePool
    BY DEF ProberInit, Kind
  <2>2. CycleOK(pools["cycle"], probePhase) /\ StrayOK(pools["stray"])
    BY <2>1, NothingOut DEF ProberInit
  <2> QED BY <2>1, <2>2 DEF ProberInit, Shape
<1>2. Entries
  <2>1. applications \in [{} -> ProbeEntry] /\ servers \in [{} -> BOOLEAN]
    BY DEF ProberInit
  <2>2. applications \in ProbeMap(App, ProbeEntry) /\ servers \in ProbeMap(Server, BOOLEAN)
    BY <2>1, MapTyped
  <2> QED BY <2>2, ProberConstants DEF ProberInit, Entries
<1> QED BY <1>1, <1>2 DEF PInv

\* The hourly prune is counted within the hour.
LEMMA SinceTyped ==
  ASSUME Entries, NEW k, NEW i, NEW start, NEW A, NEW S,
         ServersNext(S) \/ ProbeFanOut(A, S) \/ ProberGoesOn(k, i, start)
  PROVE  sincePruned' \in 0 .. PruneEvery
<1>1. ASSUME ProbeCycleEnds PROVE sincePruned' \in 0 .. PruneEvery
  BY <1>1, ProberConstants DEF ProbeCycleEnds, Entries
<1>2. ASSUME NEW T, ServersNext(T) PROVE sincePruned' \in 0 .. PruneEvery
  BY <1>1, <1>2 DEF ServersNext, Entries
<1>3. ASSUME ProbeFanOut(A, S) PROVE sincePruned' \in 0 .. PruneEvery
  BY <1>2, <1>3 DEF ProbeFanOut, Entries
<1>4. ASSUME ProberGoesOn(k, i, start) PROVE sincePruned' \in 0 .. PruneEvery
  BY <1>1, <1>2, <1>4 DEF ProberGoesOn, Entries
<1> QED BY <1>2, <1>3, <1>4

LEMMA RunShape ==
  ASSUME Shape, ProbeRun, UNCHANGED probed, probing' \in BOOLEAN,
         probeTimer' \in BOOLEAN, ~probeTimer',
         pools["cycle"]' = pools["cycle"], DOMAIN pools' = Kind, StrayOK(pools["stray"]')
  PROVE  Shape'
<1>1. CycleOK(pools["cycle"]', probePhase')
  BY DEF ProbeRun, Shape, CycleOK, Work
<1> QED BY <1>1 DEF ProbeRun, Shape

LEMMA StartShape == PInv /\ StartProber => PInv'
<1> SUFFICES ASSUME PInv, StartProber PROVE PInv'
  OBVIOUS
<1>1. Shape'
  BY RunShape DEF PInv, Shape, StartProber
<1>2. Entries'
  BY DEF PInv, Entries, StartProber
<1> QED BY <1>1, <1>2 DEF PInv

LEMMA StopShape == PInv /\ StopProber => PInv'
BY DEF PInv, Shape, Entries, StopProber

\* What is at work grows older with the entries.
LEMMA TimerShape == PInv /\ ProbeTimerFires => PInv'
<1> SUFFICES ASSUME PInv, ProbeTimerFires PROVE PInv'
  OBVIOUS
<1> DEFINE stray == pools["stray"]
           at == [a \in DOMAIN stray.at |-> WithOlder(stray.at[a])]
<1>1. Shape'
  <2>1. stray \in PoolOver(App, ProbeCall) /\ stray = [left |-> stray.left, at |-> stray.at]
    BY DEF PInv, Shape, StrayOK, PoolOver
  <2>2. at \in [DOMAIN stray.at -> ProbeCall]
    <3> SUFFICES ASSUME NEW a \in DOMAIN stray.at
                 PROVE  WithOlder(stray.at[a]) \in ProbeCall
      OBVIOUS
    <3>1. stray.at[a] \in ProbeCall /\ stray.at[a].previous \in ProbeEntry
      BY CallTyped DEF PInv, Kind
    <3>2. Older(stray.at[a].previous) \in ProbeEntry
      BY <3>1, OlderTyped
    <3> QED BY <3>1, <3>2 DEF ProbeCall, WithOlder
  <2>3. /\ DOMAIN pools' = Kind /\ pools["cycle"]' = pools["cycle"]
        /\ pools["stray"]' = [left |-> stray.left, at |-> at]
    <3>1. pools' = [pools EXCEPT !["stray"] = [stray EXCEPT !.at = at]]
      BY DEF ProbeTimerFires
    <3>2. [stray EXCEPT !.at = at] = [left |-> stray.left, at |-> at]
      BY <2>1 DEF PoolOver
    <3> HIDE DEF at
    <3> QED BY <3>1, <3>2 DEF PInv, Shape, Kind
  <2> HIDE DEF at
  <2>4. StrayOK(pools["stray"]')
    BY <2>1, <2>2, <2>3, Retouched DEF PInv, Shape, StrayOK
  <2>5. /\ ProbeRun /\ UNCHANGED <<probed, probing>> /\ ~probeTimer'
        /\ probing' \in BOOLEAN /\ probeTimer' \in BOOLEAN
    BY DEF ProbeTimerFires, PInv, Shape
  <2> QED BY <2>3, <2>4, <2>5, RunShape DEF PInv
<1>2. Entries'
  <2>1. \A a \in DOMAIN applications : Older(applications[a]) \in ProbeEntry
    BY EntryOf, OlderTyped DEF PInv, Entries
  <2>2. applications' \in [DOMAIN applications -> ProbeEntry]
    BY <2>1 DEF ProbeTimerFires
  <2>3. DOMAIN applications \subseteq App
    BY EntryOf DEF PInv, Entries
  <2>4. applications' \in ProbeMap(App, ProbeEntry)
    BY <2>2, <2>3, MapTyped
  <2>5. sincePruned' \in 0 .. PruneEvery
    BY ProberConstants DEF ProbeTimerFires, PInv, Entries
  <2> QED BY <2>4, <2>5 DEF ProbeTimerFires, PInv, Entries
<1> QED BY <1>1, <1>2 DEF PInv

LEMMA TargetsShape ==
  ASSUME PInv, NEW apps \in SUBSET App, NEW hosts \in SUBSET Server,
         ProbeTargetsRead(apps, hosts)
  PROVE  PInv'
<1> DEFINE A == HttpTargets(apps)
           S == TcpTargets(hosts)
<1>1. A \subseteq App /\ S \subseteq Server
  BY DEF HttpTargets, TcpTargets
<1>2. /\ probePhase = "targets" /\ probed' = A \cup S /\ UNCHANGED probing
      /\ applications' = [a \in DOMAIN applications \cap A |-> applications[a]]
      /\ told' = [a \in App |-> IF a \in DOMAIN applications \ A THEN "up" ELSE told[a]]
      /\ servers' = [s \in DOMAIN servers \cap S |-> servers[s]]
      /\ ProbeFanOut(A, S)
  BY DEF ProbeTargetsRead
<1> HIDE DEF A, S
<1>3. applications' \in ProbeMap(App, ProbeEntry)
  <2>1. applications' \in [DOMAIN applications \cap A -> ProbeEntry]
    BY <1>2, EntryOf DEF PInv, Entries
  <2> QED BY <1>1, <2>1, MapTyped
<1>4. servers' \in ProbeMap(Server, BOOLEAN)
  <2>1. servers' \in [DOMAIN servers \cap S -> BOOLEAN]
    BY <1>2 DEF PInv, Entries, ProbeMap
  <2> QED BY <1>1, <2>1, MapTyped
<1>5. Entries'
  BY <1>2, <1>3, <1>4, SinceTyped DEF PInv, Entries
<1>6. Shape'
  <2>1. probed' \subseteq App \cup Server /\ probing' = probing /\ probePhase # "none"
    BY <1>1, <1>2
  <2>2. CASE A = {}
    BY <1>1, <1>2, <2>1, <2>2, ServersNextShape DEF ProbeFanOut, PInv
  <2>3. CASE A # {}
    <3>1. PICK batch \in FirstBatch(A) :
            /\ probePhase' = "applications"
            /\ pools' = [pools EXCEPT !["cycle"] = Launched(A, batch, Before(applications'))]
            /\ UNCHANGED <<probeTimer, sincePruned>>
      BY <1>2, <2>3 DEF ProbeFanOut
    <3>2. \A a \in A : Before(applications')[a] \in ProbeCall
      BY <1>1, <1>3, BeforeTyped
    <3>3. A \in SUBSET Work("applications")
      BY <1>1 DEF Work
    <3>4. UNCHANGED <<probing, probeTimer>>
      BY <2>1, <3>1
    <3> QED BY <2>1, <2>3, <3>1, <3>2, <3>3, <3>4, LaunchShape DEF PInv
  <2> QED BY <2>2, <2>3
<1> QED BY <1>5, <1>6 DEF PInv

LEMMA TargetsFailShape == PInv /\ ProbeTargetsFail => PInv'
<1> SUFFICES ASSUME PInv, ProbeTargetsFail PROVE PInv'
  OBVIOUS
<1>1. Shape'
  <2>1. CycleOK(pools["cycle"]', probePhase')
    BY DEF PInv, Shape, ProbeTargetsFail, ProbeSettled, CycleOK, Work
  <2> QED BY <2>1 DEF PInv, Shape, ProbeTargetsFail, ProbeSettled
<1>2. Entries'
  BY DEF PInv, Entries, ProbeTargetsFail
<1> QED BY <1>1, <1>2 DEF PInv

\* Who checks applications starts its next check from what is then known of it.
LEMMA AppsGoOn ==
  ASSUME Shape, NEW k \in Kind, NEW a \in AppCalls(k),
         applications' \in ProbeMap(App, ProbeEntry),
         ProberGoesOn(k, a, Before(applications')), UNCHANGED <<probing, probed>>
  PROVE  Shape'
<1>1. a \in DOMAIN pools[k].at
  BY DEF AppCalls
<1>2. (IF k = "stray" THEN App ELSE Work(probePhase)) = App
  BY CycleAtApps DEF Work, Kind
<1>3. \A j \in App : Before(applications')[j] \in ProbeCall
  BY BeforeTyped
<1> QED BY <1>1, <1>2, <1>3, GoesOnShape

\* A count of failures that does not pass Down + 1.
LEMMA CountTyped ==
  ASSUME NEW before \in 0 .. Down + 1, NEW ok \in BOOLEAN
  PROVE  (IF ok THEN 0 ELSE IF before > Down THEN before ELSE before + 1) \in 0 .. Down + 1
BY ProberConstants

LEMMA HttpShape ==
  ASSUME PInv, NEW k \in Kind, NEW a \in AppCalls(k), NEW answer \in Answer,
         HttpAnswered(k, a, answer)
  PROVE  PInv'
<1> DEFINE previous == pools[k].at[a].previous
           ok == IsUp(answer)
           failures == IF ok THEN 0
                       ELSE IF previous.failures > Down THEN previous.failures
                       ELSE previous.failures + 1
           entry == [failures |-> failures, tls |-> previous.tls]
<1>1. a \in App /\ a \in DOMAIN pools[k].at
  BY DEF AppCalls
<1>2. previous \in ProbeEntry /\ pools[k].at[a] \in ProbeCall
  BY <1>1, CallTyped DEF PInv
<1>3. entry \in ProbeEntry
  <2>1. previous.failures \in 0 .. Down + 1 /\ ok \in BOOLEAN
    BY <1>2 DEF ProbeEntry, IsUp
  <2>2. failures \in 0 .. Down + 1
    BY <2>1, CountTyped
  <2> QED BY <1>2, <2>2 DEF ProbeEntry
<1>4. /\ applications' = [b \in DOMAIN applications \cup {a} |->
                          IF b = a THEN entry ELSE applications[b]]
      /\ told' = [told EXCEPT ![a] = Announced(previous.failures, ok, failures, @)]
      /\ UNCHANGED <<probing, probed, servers>>
      /\ IF a \in Https /\ previous.tls = TlsEvery
         THEN /\ pools' = [pools EXCEPT ![k].at[a].stage = "tls"]
              /\ UNCHANGED <<probePhase, probeTimer, sincePruned>>
         ELSE ProberGoesOn(k, a, Before(applications'))
  BY DEF HttpAnswered
<1> HIDE DEF failures, ok, previous, entry
<1>5. applications' \in ProbeMap(App, ProbeEntry)
  <2>1. DOMAIN applications \subseteq App /\ \A b \in DOMAIN applications : applications[b] \in ProbeEntry
    BY EntryOf DEF PInv, Entries
  <2>2. applications' \in [DOMAIN applications \cup {a} -> ProbeEntry]
    BY <1>3, <1>4, <2>1
  <2> QED BY <1>1, <2>1, <2>2, MapTyped
<1>6. told' \in [App -> {"up", "down", "again"}]
  <2>1. told[a] \in {"up", "down", "again"}
    BY <1>1 DEF PInv, Entries
  <2>2. Announced(previous.failures, ok, failures, told[a]) \in {"up", "down", "again"}
    BY <2>1 DEF Announced
  <2> QED BY <1>4, <2>2 DEF PInv, Entries
<1>7. sincePruned' \in 0 .. PruneEvery
  BY <1>4, SinceTyped DEF PInv, Entries
<1>8. Entries'
  BY <1>4, <1>5, <1>6, <1>7 DEF PInv, Entries
<1>9. Shape'
  <2>1. CASE a \in Https /\ previous.tls = TlsEvery
    <3> DEFINE pool == pools[k]
               at == [pool.at EXCEPT ![a].stage = "tls"]
    <3>1. at \in [DOMAIN pool.at -> ProbeCall]
      <4>1. \A b \in DOMAIN pool.at : pool.at[b] \in ProbeCall
        BY CallTyped DEF PInv
      <4>2. [pool.at[a] EXCEPT !.stage = "tls"] \in ProbeCall
        BY <1>2 DEF ProbeCall
      <4>3. pool.at \in [DOMAIN pool.at -> ProbeCall]
        BY PoolOverCalls DEF PInv, Shape, CycleOK, StrayOK, Kind
      <4> QED BY <4>1, <4>2, <4>3
    <3>2. pool = [left |-> pool.left, at |-> pool.at]
      BY DEF PInv, Shape, CycleOK, StrayOK, Kind, PoolOver
    <3>3. pools' = [pools EXCEPT ![k] = [pool EXCEPT !.at = at]]
      BY <1>4, <2>1
    <3>4. [pool EXCEPT !.at = at] = [left |-> pool.left, at |-> at]
      BY DEF PInv, Shape, CycleOK, StrayOK, Kind, PoolOver
    <3> HIDE DEF at
    <3>5. pools' = [pools EXCEPT ![k] = [left |-> pool.left, at |-> at]]
      BY <3>3, <3>4
    <3>6. UNCHANGED <<probing, probed, probePhase, probeTimer>>
      BY <1>4, <2>1
    <3>7. CASE k = "cycle"
      <4>1. CycleOK([left |-> pool.left, at |-> at], probePhase)
        BY <3>1, <3>7, Retouched DEF PInv, Shape, CycleOK
      <4>2. /\ DOMAIN pools' = Kind /\ pools["cycle"]' = [left |-> pool.left, at |-> at]
            /\ pools["stray"]' = pools["stray"]
        BY <3>5, <3>7 DEF PInv, Shape, Kind
      <4> QED BY <3>6, <4>1, <4>2 DEF PInv, Shape
    <3>8. CASE k = "stray"
      <4>1. StrayOK([left |-> pool.left, at |-> at])
        BY <3>1, <3>8, Retouched DEF PInv, Shape, StrayOK
      <4>2. /\ DOMAIN pools' = Kind /\ pools["stray"]' = [left |-> pool.left, at |-> at]
            /\ pools["cycle"]' = pools["cycle"]
        BY <3>5, <3>8 DEF PInv, Shape, Kind
      <4> QED BY <3>6, <4>1, <4>2 DEF PInv, Shape
    <3> QED BY <3>7, <3>8 DEF Kind
  <2>2. CASE ~(a \in Https /\ previous.tls = TlsEvery)
    BY <1>4, <1>5, <2>2, AppsGoOn DEF PInv
  <2> QED BY <2>1, <2>2
<1> QED BY <1>8, <1>9 DEF PInv

LEMMA FailsShape ==
  ASSUME PInv, NEW k \in Kind, NEW a \in AppCalls(k), RecordFails(k, a)
  PROVE  PInv'
<1> DEFINE pool == Dropped(pools[k], a)
<1>1. Entries'
  BY DEF PInv, Entries, RecordFails
<1>2. StrayOK(IF Idle(pool) THEN IdlePool ELSE pool)
  <2>1. /\ pools[k] \in PoolOver(App, ProbeCall) /\ Width(pools[k]) \in Nat
        /\ Width(pools[k]) <= Limit /\ a \in DOMAIN pools[k].at
    <3>1. Work("applications") = App
      BY DEF Work
    <3>2. pools[k] \in PoolOver(App, ProbeCall)
      BY <3>1, CycleAtApps DEF PInv, Shape, CycleOK, StrayOK, Kind
    <3>3. Width(pools[k]) \in Nat
      BY <3>2, Finite, WidthNat
    <3>4. Width(pools[k]) <= Limit
      BY <3>3, LimitConstant DEF PInv, Shape, CycleOK, StrayOK, Kind
    <3> QED BY <3>2, <3>3, <3>4 DEF AppCalls
  <2>2. pool \in PoolOver(App, ProbeCall) /\ Width(pool) = Width(pools[k]) - 1
    BY <2>1, Finite, DroppedOver
  <2> HIDE DEF pool
  <2>3. StrayOK(pool)
    BY <2>1, <2>2, LimitConstant DEF StrayOK
  <2> QED BY <2>3, NothingOut
<1> HIDE DEF pool
<1>3. Shape'
  <2>1. CASE /\ k = "stray"
             /\ pools' = [pools EXCEPT ![k] = IF Idle(pool) THEN IdlePool ELSE pool]
             /\ UNCHANGED <<probeTimer, probePhase>>
    <3>1. /\ DOMAIN pools' = Kind /\ pools["cycle"]' = pools["cycle"]
          /\ pools["stray"]' = IF Idle(pool) THEN IdlePool ELSE pool
      BY <2>1 DEF PInv, Shape, Kind
    <3>2. UNCHANGED <<probing, probed>>
      BY DEF RecordFails
    <3> QED BY <1>2, <2>1, <3>1, <3>2 DEF PInv, Shape
  <2>2. CASE /\ k = "cycle"
             /\ pools' = [pools EXCEPT !["cycle"] = IdlePool,
                                       !["stray"] = IF Idle(pool) THEN IdlePool ELSE pool]
             /\ ProbeSettled
    <3>1. /\ DOMAIN pools' = Kind /\ pools["cycle"]' = IdlePool
          /\ pools["stray"]' = IF Idle(pool) THEN IdlePool ELSE pool
      BY <2>2 DEF PInv, Shape, Kind
    <3>2. StrayOK(pools["stray"]')
      BY <1>2, <3>1
    <3>3. probing' = probing /\ probed' \subseteq App \cup Server
      BY DEF RecordFails, PInv, Shape
    <3> QED BY <2>2, <3>1, <3>2, <3>3, SettlesShape DEF PInv
  <2> QED BY <2>1, <2>2 DEF RecordFails, pool
<1> QED BY <1>1, <1>3 DEF PInv

LEMMA TlsShape ==
  ASSUME PInv, NEW k \in Kind, NEW a \in AppCalls(k), TlsAnswered(k, a)
  PROVE  PInv'
<1>1. /\ applications' = [b \in DOMAIN applications |->
                            IF b = a THEN [applications[b] EXCEPT !.tls = 0]
                            ELSE applications[b]]
      /\ UNCHANGED <<probing, probed, servers, told>>
      /\ ProberGoesOn(k, a, Before(applications'))
  BY DEF TlsAnswered
<1>2. applications' \in ProbeMap(App, ProbeEntry)
  <2>1. DOMAIN applications \subseteq App /\ \A b \in DOMAIN applications : applications[b] \in ProbeEntry
    BY EntryOf DEF PInv, Entries
  <2>2. 0 \in 0 .. TlsEvery
    BY ProberConstants
  <2>3. \A b \in DOMAIN applications : [applications[b] EXCEPT !.tls = 0] \in ProbeEntry
    BY <2>1, <2>2 DEF ProbeEntry
  <2>4. applications' \in [DOMAIN applications -> ProbeEntry]
    BY <1>1, <2>1, <2>3
  <2> QED BY <2>1, <2>4, MapTyped
<1>3. Entries'
  BY <1>1, <1>2, SinceTyped DEF PInv, Entries
<1>4. Shape'
  BY <1>1, <1>2, AppsGoOn DEF PInv
<1> QED BY <1>3, <1>4 DEF PInv

LEMMA TcpShape ==
  ASSUME PInv, NEW s \in DOMAIN pools["cycle"].at \cap Server, NEW ok \in BOOLEAN,
         TcpAnswered(s, ok)
  PROVE  PInv'
<1>1. /\ probePhase = "servers"
      /\ servers' = [t \in DOMAIN servers \cup {s} |-> IF t = s THEN ok ELSE servers[t]]
      /\ UNCHANGED <<probing, probed, applications, told>>
      /\ ProberGoesOn("cycle", s, Knock)
  BY DEF TcpAnswered
<1>2. servers' \in ProbeMap(Server, BOOLEAN)
  <2>1. DOMAIN servers \subseteq Server /\ \A t \in DOMAIN servers : servers[t] \in BOOLEAN
    BY DEF PInv, Entries, ProbeMap
  <2>2. servers' \in [DOMAIN servers \cup {s} -> BOOLEAN]
    BY <1>1, <2>1
  <2> QED BY <2>1, <2>2, MapTyped
<1>3. Entries'
  BY <1>1, <1>2, SinceTyped DEF PInv, Entries
<1>4. Shape'
  <2>1. (IF "cycle" = "stray" THEN App ELSE Work(probePhase)) = Server
    BY <1>1 DEF Work
  <2>2. "cycle" \in Kind /\ s \in DOMAIN pools["cycle"].at
    BY DEF Kind
  <2> QED BY <1>1, <2>1, <2>2, KnockTyped, GoesOnShape DEF PInv
<1> QED BY <1>3, <1>4 DEF PInv

LEMMA NextPInv == PInv /\ [ProberNext]_proberVars => PInv'
<1> SUFFICES ASSUME PInv, [ProberNext]_proberVars PROVE PInv'
  OBVIOUS
<1>1. CASE StartProber
  BY <1>1, StartShape
<1>2. CASE StopProber
  BY <1>2, StopShape
<1>3. CASE ProbeTimerFires
  BY <1>3, TimerShape
<1>4. CASE \E apps \in SUBSET App, hosts \in SUBSET Server : ProbeTargetsRead(apps, hosts)
  BY <1>4, TargetsShape
<1>5. CASE ProbeTargetsFail
  BY <1>5, TargetsFailShape
<1>6. CASE \E k \in Kind : \E a \in AppCalls(k), answer \in Answer : HttpAnswered(k, a, answer)
  BY <1>6, HttpShape
<1>7. CASE \E k \in Kind : \E a \in AppCalls(k) : RecordFails(k, a)
  BY <1>7, FailsShape
<1>8. CASE \E k \in Kind : \E a \in AppCalls(k) : TlsAnswered(k, a)
  BY <1>8, TlsShape
<1>9. CASE \E s \in DOMAIN pools["cycle"].at \cap Server, ok \in BOOLEAN : TcpAnswered(s, ok)
  BY <1>9, TcpShape
<1>10. CASE UNCHANGED proberVars
  BY <1>10 DEF PInv, Shape, Entries, proberVars
<1> QED BY <1>1, <1>2, <1>3, <1>4, <1>5, <1>6, <1>7, <1>8, <1>9, <1>10 DEF ProberNext, Kind

LEMMA AlwaysPInv == ProberSpec => []PInv
BY InitPInv, NextPInv, PTL DEF ProberSpec

\* The entries, pools and toasts of the prober stay of their types.
THEOREM ProberTypeCorrect == ProberSpec => []ProberTypeOK
<1>1. PInv => ProberTypeOK
  <2> SUFFICES ASSUME PInv PROVE ProberTypeOK
    OBVIOUS
  <2>1. \A k \in DOMAIN pools :
          /\ pools[k].left \subseteq App \cup Server
          /\ DOMAIN pools[k].at \subseteq App \cup Server
          /\ \A i \in DOMAIN pools[k].at : pools[k].at[i] \in ProbeCall
    <3> SUFFICES ASSUME NEW k \in Kind
                 PROVE  /\ pools[k].left \subseteq App \cup Server
                        /\ DOMAIN pools[k].at \subseteq App \cup Server
                        /\ \A i \in DOMAIN pools[k].at : pools[k].at[i] \in ProbeCall
      BY DEF PInv, Shape
    <3>1. pools[k] \in PoolOver(Work(probePhase), ProbeCall) \/ pools[k] \in PoolOver(App, ProbeCall)
      BY DEF PInv, Shape, CycleOK, StrayOK, Kind
    <3>2. pools[k] \in PoolOver(App \cup Server, ProbeCall)
      BY <3>1, Finite, PoolOverMore
    <3> QED BY <3>2, PoolOverCalls
  <2> QED BY <2>1 DEF PInv, Shape, Entries, CycleOK, ProberTypeOK, Kind
<1> QED BY <1>1, AlwaysPInv, PTL

\* A step of a cycle ends it, and sets the timer if the prober is on, or leaves the
\* loop as it is.
LEMMA CycleLoop ==
  ASSUME Shape, probePhase # "none", UNCHANGED probing,
         NEW k, NEW i, NEW start, NEW A, NEW S,
         \/ ServersNext(S) \/ ProbeFanOut(A, S)
         \/ ProberGoesOn(k, i, start) \/ ProbeSettled
  PROVE  [ProbeLoop!Next]_(ProbeLoop!vars)
<1>1. ASSUME ProbeSettled PROVE ProbeLoop!Finish
  BY <1>1 DEF ProbeSettled, ProbeLoop!Finish
<1>2. ASSUME probePhase' # "none", UNCHANGED probeTimer PROVE UNCHANGED ProbeLoop!vars
  BY <1>2 DEF ProbeLoop!vars
<1>3. ASSUME NEW T, ServersNext(T) PROVE ProbeLoop!Finish \/ UNCHANGED ProbeLoop!vars
  BY <1>1, <1>2, <1>3 DEF ServersNext, ProbeCycleEnds
<1>4. ASSUME ProbeFanOut(A, S) PROVE ProbeLoop!Finish \/ UNCHANGED ProbeLoop!vars
  BY <1>2, <1>3, <1>4 DEF ProbeFanOut
<1>5. ASSUME ProberGoesOn(k, i, start) PROVE ProbeLoop!Finish \/ UNCHANGED ProbeLoop!vars
  <2>1. CASE UNCHANGED <<probePhase, probeTimer, sincePruned>>
    BY <1>2, <2>1
  <2>2. CASE ServersNext(probed \cap Server)
    BY <1>3, <2>2
  <2>3. CASE ProbeCycleEnds
    BY <1>1, <2>3 DEF ProbeCycleEnds
  <2> QED BY <1>5, <2>1, <2>2, <2>3 DEF ProberGoesOn
<1> QED BY <1>1, <1>3, <1>4, <1>5 DEF ProbeLoop!Next

\* A stray worker that goes on leaves the loop alone.
LEMMA StrayLoop ==
  ASSUME NEW i, NEW start, ProberGoesOn("stray", i, start), UNCHANGED probing
  PROVE  UNCHANGED ProbeLoop!vars
BY DEF ProberGoesOn, ProbeLoop!vars

\* Whatever a cycle meets, the prober is a loop that schedules itself: no cycle starts
\* while another is in flight, and none ends without setting the next.
THEOREM ProberKeepsScheduling == ProberSpec => ProberSchedulesItself
<1>1. ProberInit => ProbeLoop!Init
  BY DEF ProberInit, ProbeLoop!Init
<1>2. PInv /\ [ProberNext]_proberVars => [ProbeLoop!Next]_(ProbeLoop!vars)
  <2> SUFFICES ASSUME PInv, [ProberNext]_proberVars
               PROVE  [ProbeLoop!Next]_(ProbeLoop!vars)
    OBVIOUS
  <2> USE DEF PInv
  <2>1. CASE StartProber
    <3>1. ProbeLoop!Start
      BY <2>1 DEF StartProber, ProbeRun, ProbeLoop!Start
    <3> QED BY <3>1 DEF ProbeLoop!Next
  <2>2. CASE StopProber
    <3>1. ProbeLoop!Stop
      BY <2>2 DEF StopProber, ProbeLoop!Stop
    <3> QED BY <3>1 DEF ProbeLoop!Next
  <2>3. CASE ProbeTimerFires
    <3>1. ProbeLoop!Fire
      BY <2>3 DEF ProbeTimerFires, ProbeRun, Shape, ProbeLoop!Fire
    <3> QED BY <3>1 DEF ProbeLoop!Next
  <2>4. CASE \E apps \in SUBSET App, hosts \in SUBSET Server : ProbeTargetsRead(apps, hosts)
    <3>1. PICK apps \in SUBSET App, hosts \in SUBSET Server : ProbeTargetsRead(apps, hosts)
      BY <2>4
    <3>2. /\ probePhase # "none" /\ UNCHANGED probing
          /\ ProbeFanOut(HttpTargets(apps), TcpTargets(hosts))
      BY <3>1 DEF ProbeTargetsRead
    <3> QED BY <3>2, CycleLoop
  <2>5. CASE ProbeTargetsFail
    BY <2>5, CycleLoop DEF ProbeTargetsFail
  <2>6. CASE \E k \in Kind : \E a \in AppCalls(k), answer \in Answer : HttpAnswered(k, a, answer)
    <3>1. PICK k \in Kind : \E a \in AppCalls(k), answer \in Answer : HttpAnswered(k, a, answer)
      BY <2>6
    <3>2. PICK a \in AppCalls(k), answer \in Answer : HttpAnswered(k, a, answer)
      BY <3>1
    <3>3. /\ UNCHANGED probing
          /\ \/ ProberGoesOn(k, a, Before(applications'))
             \/ UNCHANGED <<probePhase, probeTimer, sincePruned>>
      BY <3>2 DEF HttpAnswered
    <3>4. CASE UNCHANGED <<probePhase, probeTimer, sincePruned>>
      BY <3>3, <3>4 DEF ProbeLoop!vars
    <3>5. CASE ProberGoesOn(k, a, Before(applications')) /\ k = "stray"
      BY <3>3, <3>5, StrayLoop
    <3>6. CASE ProberGoesOn(k, a, Before(applications')) /\ k = "cycle"
      BY <3>3, <3>6, CycleAtApps, CycleLoop
    <3> QED BY <3>3, <3>4, <3>5, <3>6 DEF Kind
  <2>7. CASE \E k \in Kind : \E a \in AppCalls(k) : RecordFails(k, a)
    <3>1. PICK k \in Kind : \E a \in AppCalls(k) : RecordFails(k, a)
      BY <2>7
    <3>2. PICK a \in AppCalls(k) : RecordFails(k, a)
      BY <3>1
    <3>3. UNCHANGED probing
      BY <3>2 DEF RecordFails
    <3>4. CASE UNCHANGED <<probeTimer, probePhase>>
      BY <3>3, <3>4 DEF ProbeLoop!vars
    <3>5. CASE k = "cycle" /\ ProbeSettled
      BY <3>2, <3>3, <3>5, CycleAtApps, CycleLoop
    <3> QED BY <3>2, <3>4, <3>5 DEF RecordFails
  <2>8. CASE \E k \in Kind : \E a \in AppCalls(k) : TlsAnswered(k, a)
    <3>1. PICK k \in Kind : \E a \in AppCalls(k) : TlsAnswered(k, a)
      BY <2>8
    <3>2. PICK a \in AppCalls(k) : TlsAnswered(k, a)
      BY <3>1
    <3>3. UNCHANGED probing /\ ProberGoesOn(k, a, Before(applications'))
      BY <3>2 DEF TlsAnswered
    <3>4. CASE k = "stray"
      BY <3>3, <3>4, StrayLoop
    <3>5. CASE k = "cycle"
      BY <3>3, <3>5, CycleAtApps, CycleLoop
    <3> QED BY <3>4, <3>5 DEF Kind
  <2>9. CASE \E s \in DOMAIN pools["cycle"].at \cap Server, ok \in BOOLEAN : TcpAnswered(s, ok)
    <3>1. PICK s \in DOMAIN pools["cycle"].at \cap Server, ok \in BOOLEAN : TcpAnswered(s, ok)
      BY <2>9
    <3>2. UNCHANGED probing /\ probePhase # "none" /\ ProberGoesOn("cycle", s, Knock)
      BY <3>1 DEF TcpAnswered
    <3> QED BY <3>2, CycleLoop
  <2>10. CASE UNCHANGED proberVars
    BY <2>10 DEF proberVars, ProbeLoop!vars
  <2> QED BY <2>1, <2>2, <2>3, <2>4, <2>5, <2>6, <2>7, <2>8, <2>9, <2>10 DEF ProberNext, Kind
<1> QED BY <1>1, <1>2, AlwaysPInv, PTL DEF ProberSpec, ProberSchedulesItself, ProbeLoop!Spec

-----------------------------------------------------------------------------
(* Apart: no cycle starts while stray workers are at work. *)

\* Then one pool is at work at a time, and no worker answers for an item that left.
Alone == Idle(pools["stray"]) \/ probePhase = "none"

Rooted ==
    /\ DOMAIN applications \cup DOMAIN servers \subseteq probed
    /\ \A k \in Kind : ~Idle(pools[k]) =>
         pools[k].left \cup DOMAIN pools[k].at \subseteq probed

\* Failures in a row of an application, as the detector counts them.
Streak(a) == IF a \in DOMAIN applications THEN applications[a].failures ELSE 0

\* A check in flight was sent with the failures that its answer will add to.
Faithful ==
    \A k \in Kind : \A a \in AppCalls(k) :
        pools[k].at[a].stage = "http" => pools[k].at[a].previous.failures = Streak(a)

\* The last toast is about the state the failures add up to.
Told == \A a \in App : told[a] = IF Streak(a) >= Down THEN "down" ELSE "up"

Apart == PInv /\ Alone /\ Rooted /\ Faithful /\ Told

\* Failures in a row are counted.
LEMMA StreakNat ==
  ASSUME PInv, NEW a \in App PROVE Streak(a) \in 0 .. Down + 1
<1>1. a \in DOMAIN applications => applications[a] \in ProbeEntry
  BY EntryOf DEF PInv, Entries
<1> QED BY <1>1, ProberConstants DEF Streak, ProbeEntry

\* A check that is sent starts from the failures that are known when it is sent.
LEMMA BeforeFaithful ==
  ASSUME NEW known, NEW a \in App
  PROVE  Before(known)[a].previous.failures =
           IF a \in DOMAIN known THEN known[a].failures ELSE 0
BY FreshTyped DEF Before

LEMMA InitApart == ProberInit => Apart
<1> SUFFICES ASSUME ProberInit PROVE Apart
  OBVIOUS
<1>1. pools["cycle"] = IdlePool /\ pools["stray"] = IdlePool
  BY DEF ProberInit
<1>2. Idle(IdlePool) /\ DOMAIN IdlePool.at = {}
  BY IdlePoolOver DEF Idle
<1>3. Alone /\ Rooted
  BY <1>1, <1>2 DEF ProberInit, Alone, Rooted, Kind
<1>4. Faithful
  BY <1>1, <1>2 DEF Faithful, Kind, AppCalls
<1>5. Told
  BY ProberConstants DEF ProberInit, Told, Streak
<1> QED BY <1>3, <1>4, <1>5, InitPInv DEF Apart

\* Where the pool of an application's check is at work the other one is not.
LEMMA OneAtWork ==
  ASSUME PInv, Alone, NEW k \in Kind, NEW a \in AppCalls(k), NEW l \in Kind, l # k
  PROVE  Idle(pools[l]) /\ AppCalls(l) = {}
<1>1. ~Idle(pools[k])
  BY DEF AppCalls, Idle
<1>2. CASE k = "cycle"
  <2>1. probePhase = "applications" /\ l = "stray"
    BY <1>2, CycleAtApps DEF PInv, Kind
  <2> QED BY <2>1 DEF Alone, Idle, AppCalls
<1>3. CASE k = "stray"
  <2>1. probePhase = "none" /\ l = "cycle"
    BY <1>1, <1>3 DEF Alone, Kind
  <2> QED BY <2>1 DEF PInv, Shape, CycleOK, Idle, AppCalls
<1> QED BY <1>2, <1>3 DEF Kind

\* What a launched pool says of the items it is over.
LEMMA LaunchApart ==
  ASSUME NEW S, IsFiniteSet(S), NEW batch \in FirstBatch(S), NEW start
  PROVE  LET pool == Launched(S, batch, start) IN
         /\ pool.left \cup DOMAIN pool.at \subseteq S
         /\ \A i \in DOMAIN pool.at : pool.at[i] = start[i]
BY DEF Launched, FirstBatch

\* What ends or starts with a fan-out over the servers S keeps what the pools say.
LEMMA ServersNextApart ==
  ASSUME PInv, NEW S \in SUBSET Server, S \subseteq probed', ServersNext(S),
         Idle(pools["stray"]), Shape'
  PROVE  /\ Alone'
         /\ \A k \in Kind : ~Idle(pools[k]') =>
              pools[k]'.left \cup DOMAIN pools[k]'.at \subseteq probed'
         /\ \A k \in Kind : AppCalls(k)' = {}
<1>1. pools["stray"]' = pools["stray"]
  BY DEF PInv, Shape, Kind, ServersNext, ProbeCycleEnds
<1>2. Alone'
  BY <1>1 DEF Alone
<1>3. CASE S = {}
  <2>1. pools["cycle"]' = IdlePool
    BY <1>3 DEF PInv, Shape, Kind, ServersNext, ProbeCycleEnds
  <2>2. Idle(pools["cycle"]')
    BY <2>1, IdlePoolOver
  <2> QED BY <1>1, <1>2, <2>2 DEF Kind, AppCalls, Idle
<1>4. CASE S # {}
  <2>1. PICK batch \in FirstBatch(S) :
          pools' = [pools EXCEPT !["cycle"] = Launched(S, batch, Knock)]
    BY <1>4 DEF ServersNext
  <2>2. pools["cycle"]' = Launched(S, batch, Knock)
    BY <2>1 DEF PInv, Shape, Kind
  <2>3. IsFiniteSet(S)
    BY Finite, FS_Subset
  <2>4. pools["cycle"]'.left \cup DOMAIN pools["cycle"]'.at \subseteq S
    BY <2>2, <2>3, LaunchApart
  <2>5. S \cap App = {}
    BY ProberConstants
  <2> QED BY <1>1, <1>2, <2>4, <2>5 DEF Kind, AppCalls, Idle
<1> QED BY <1>3, <1>4

\* A worker that goes on does so to an item of its list.
LEMMA AdvancedApart ==
  ASSUME NEW pool, NEW i, NEW next \in Onwards(pool.left), NEW start
  PROVE  LET new == Advanced(pool, i, next, start) IN
         /\ new.left \cup DOMAIN new.at \subseteq pool.left \cup DOMAIN pool.at
         /\ \A j \in DOMAIN new.at :
              \/ new.at[j] = start[j]
              \/ j \in DOMAIN pool.at \ {i} /\ new.at[j] = pool.at[j]
<1>1. next \subseteq pool.left
  BY DEF Onwards
<1> QED BY <1>1 DEF Advanced

\* The check of a is over, the other checks of its pool being as faithful as before.
LEMMA AppsGoOnApart ==
  ASSUME PInv, Alone, Rooted, Shape', UNCHANGED probed,
         NEW k \in Kind, NEW a \in AppCalls(k),
         \A b \in AppCalls(k) \ {a} :
            pools[k].at[b].stage = "http" => pools[k].at[b].previous.failures = Streak(b)',
         ProberGoesOn(k, a, Before(applications'))
  PROVE  /\ Alone'
         /\ \A l \in Kind : ~Idle(pools[l]') =>
              pools[l]'.left \cup DOMAIN pools[l]'.at \subseteq probed'
         /\ Faithful'
<1> DEFINE start == Before(applications')
<1>1. PICK next \in Onwards(pools[k].left) :
        LET pool == Advanced(pools[k], a, next, start) IN
        IF k = "stray" \/ ~Idle(pool)
        THEN /\ pools' = [pools EXCEPT ![k] = pool]
             /\ UNCHANGED <<probePhase, probeTimer, sincePruned>>
        ELSE IF probePhase = "applications" THEN ServersNext(probed \cap Server)
        ELSE ProbeCycleEnds
  BY DEF ProberGoesOn
<1>2. \A b \in App : start[b].previous.failures = Streak(b)'
  BY BeforeFaithful DEF Streak
<1> HIDE DEF start
<1> DEFINE pool == Advanced(pools[k], a, next, start)
<1>3. /\ ~Idle(pools[k])
      /\ pools[k].left \cup DOMAIN pools[k].at \subseteq probed
  BY DEF Rooted, AppCalls, Idle
<1>4. \A l \in Kind \ {k} : Idle(pools[l])
  BY OneAtWork
<1>5. CASE k = "stray" \/ ~Idle(pool)
  <2>1. /\ pools[k]' = pool /\ UNCHANGED probePhase
        /\ \A l \in Kind \ {k} : pools[l]' = pools[l]
    BY <1>1, <1>5 DEF PInv, Shape, Kind
  <2>2. Alone'
    <3>1. CASE k = "stray"
      BY <1>3, <2>1, <3>1 DEF Alone
    <3>2. CASE k = "cycle"
      BY <1>4, <2>1, <3>2 DEF Alone, Kind
    <3> QED BY <3>1, <3>2 DEF Kind
  <2>3. /\ pool.left \cup DOMAIN pool.at \subseteq probed
        /\ \A j \in DOMAIN pool.at :
             \/ pool.at[j] = start[j]
             \/ j \in DOMAIN pools[k].at \ {a} /\ pool.at[j] = pools[k].at[j]
    BY <1>3, AdvancedApart
  <2> HIDE DEF pool
  <2>4. \A l \in Kind : ~Idle(pools[l]') =>
          pools[l]'.left \cup DOMAIN pools[l]'.at \subseteq probed'
    BY <1>4, <2>1, <2>3
  <2>5. Faithful'
    <3> SUFFICES ASSUME NEW l \in Kind, NEW b \in AppCalls(l)', pools[l]'.at[b].stage = "http"
                 PROVE  pools[l]'.at[b].previous.failures = Streak(b)'
      BY DEF Faithful
    <3>1. l = k
      BY <1>4, <2>1 DEF AppCalls, Idle
    <3>2. b \in App /\ b \in DOMAIN pool.at
      BY <2>1, <3>1 DEF AppCalls
    <3>3. CASE pool.at[b] = start[b]
      BY <1>2, <2>1, <3>1, <3>2, <3>3
    <3>4. CASE b \in DOMAIN pools[k].at \ {a} /\ pool.at[b] = pools[k].at[b]
      BY <2>1, <3>1, <3>2, <3>4 DEF AppCalls
    <3> QED BY <2>3, <3>2, <3>3, <3>4
  <2> QED BY <2>2, <2>4, <2>5
<1>6. CASE k = "cycle" /\ Idle(pool)
  <2>1. probePhase = "applications" /\ Idle(pools["stray"])
    BY <1>4, <1>6, CycleAtApps DEF PInv, Kind
  <2>2. ServersNext(probed \cap Server)
    BY <1>1, <1>6, <2>1
  <2>3. probed \cap Server \in SUBSET Server /\ probed \cap Server \subseteq probed'
    OBVIOUS
  <2>4. /\ Alone'
        /\ \A l \in Kind : ~Idle(pools[l]') =>
              pools[l]'.left \cup DOMAIN pools[l]'.at \subseteq probed'
        /\ \A l \in Kind : AppCalls(l)' = {}
    BY <2>1, <2>2, <2>3, ServersNextApart
  <2>5. Faithful'
    BY <2>4 DEF Faithful
  <2> QED BY <2>4, <2>5
<1> QED BY <1>5, <1>6 DEF Kind

\* The toast says an outage exactly when the failures reach Down, and its end when it
\* had been said.
LEMMA AnnouncedRight ==
  ASSUME NEW before \in 0 .. Down + 1, NEW ok \in BOOLEAN, NEW failures,
         failures = IF ok THEN 0 ELSE IF before > Down THEN before ELSE before + 1,
         NEW last, last = IF before >= Down THEN "down" ELSE "up"
  PROVE  Announced(before, ok, failures, last) = IF failures >= Down THEN "down" ELSE "up"
<1>1. before \in Nat /\ Down \in Nat /\ Down > 0
  BY ProberConstants
<1>2. CASE ok
  BY <1>1, <1>2 DEF Announced
<1>3. CASE ~ok
  BY <1>1, <1>3 DEF Announced
<1> QED BY <1>2, <1>3

LEMMA StartApart == ~Overlap /\ Apart /\ StartProber => Apart'
<1> SUFFICES ASSUME ~Overlap, Apart, StartProber PROVE Apart'
  OBVIOUS
<1>1. PInv'
  BY StartShape DEF Apart
<1>2. Alone'
  BY DEF Alone, StartProber
<1>3. Rooted' /\ Faithful' /\ Told'
  BY DEF Apart, Rooted, Faithful, Told, Streak, AppCalls, StartProber
<1> QED BY <1>1, <1>2, <1>3 DEF Apart

LEMMA StopApart == Apart /\ StopProber => Apart'
<1> SUFFICES ASSUME Apart, StopProber PROVE Apart'
  OBVIOUS
<1>1. PInv'
  BY StopShape DEF Apart
<1>2. Alone' /\ Rooted' /\ Faithful' /\ Told'
  BY DEF Apart, Alone, Rooted, Faithful, Told, Streak, AppCalls, StopProber
<1> QED BY <1>1, <1>2 DEF Apart

\* Growing older changes no count of failures.
LEMMA TimerStreaks ==
  ASSUME PInv, ProbeTimerFires
  PROVE  \A a \in App : Streak(a)' = Streak(a)
<1> SUFFICES ASSUME NEW a \in App PROVE Streak(a)' = Streak(a)
  OBVIOUS
<1>1. a \in DOMAIN applications => Older(applications[a]).failures = applications[a].failures
  BY EntryOf, OlderTyped DEF PInv, Entries
<1> QED BY <1>1 DEF Streak, ProbeTimerFires

LEMMA TimerApart == ~Overlap /\ Apart /\ ProbeTimerFires => Apart'
<1> SUFFICES ASSUME ~Overlap, Apart, ProbeTimerFires PROVE Apart'
  OBVIOUS
<1>1. PInv'
  BY TimerShape DEF Apart
<1>2. /\ Idle(pools["stray"]) /\ Idle(pools["cycle"])
      /\ DOMAIN pools = Kind
  BY DEF ProbeTimerFires, Apart, PInv, Shape, CycleOK
<1>3. /\ pools["cycle"]' = pools["cycle"]
      /\ DOMAIN pools["stray"]'.at = DOMAIN pools["stray"].at
  <2> DEFINE at == [a \in DOMAIN pools["stray"].at |-> WithOlder(pools["stray"].at[a])]
  <2>1. pools' = [pools EXCEPT !["stray"] = [pools["stray"] EXCEPT !.at = at]]
    BY DEF ProbeTimerFires
  <2>2. [pools["stray"] EXCEPT !.at = at].at = at
    BY DEF Apart, PInv, Shape, StrayOK, PoolOver
  <2>3. DOMAIN at = DOMAIN pools["stray"].at
    OBVIOUS
  <2> HIDE DEF at
  <2> QED BY <1>2, <2>1, <2>2, <2>3 DEF Kind
<1>4. \A k \in Kind : Idle(pools[k]') /\ AppCalls(k)' = {}
  BY <1>2, <1>3 DEF Kind, Idle, AppCalls
<1>5. Alone' /\ Faithful'
  BY <1>4 DEF Alone, Faithful, Kind
<1>6. Rooted'
  BY <1>4 DEF Apart, Rooted, ProbeTimerFires
<1>7. Told'
  <2>1. UNCHANGED told
    BY DEF ProbeTimerFires
  <2> QED BY <2>1, TimerStreaks DEF Apart, Told
<1> QED BY <1>1, <1>5, <1>6, <1>7 DEF Apart

\* Reading the fleet forgets the failures of what left it, and no others.
LEMMA TargetsStreaks ==
  ASSUME NEW apps, NEW hosts, ProbeTargetsRead(apps, hosts)
  PROVE  LET gone == DOMAIN applications \ HttpTargets(apps) IN
         \A a \in App : /\ Streak(a)' = IF a \in gone THEN 0 ELSE Streak(a)
                       /\ told'[a] = IF a \in gone THEN "up" ELSE told[a]
BY DEF ProbeTargetsRead, Streak

LEMMA TargetsApart ==
  ASSUME Apart, NEW apps \in SUBSET App, NEW hosts \in SUBSET Server,
         ProbeTargetsRead(apps, hosts)
  PROVE  Apart'
<1> DEFINE A == HttpTargets(apps)
           S == TcpTargets(hosts)
<1>1. PInv'
  BY TargetsShape DEF Apart
<1>2. A \subseteq App /\ S \subseteq Server
  BY DEF HttpTargets, TcpTargets
<1>3. /\ probePhase = "targets" /\ probed' = A \cup S
      /\ applications' = [a \in DOMAIN applications \cap A |-> applications[a]]
      /\ servers' = [s \in DOMAIN servers \cap S |-> servers[s]]
      /\ ProbeFanOut(A, S)
  BY DEF ProbeTargetsRead
<1>4. Idle(pools["stray"])
  BY <1>3 DEF Apart, Alone
<1>5. Told'
  BY TargetsStreaks, ProberConstants DEF Apart, Told
<1> HIDE DEF A, S
<1>6. /\ Alone' /\ Faithful'
      /\ \A k \in Kind : ~Idle(pools[k]') =>
           pools[k]'.left \cup DOMAIN pools[k]'.at \subseteq probed'
  <2>1. CASE A = {}
    <3>1. ServersNext(S) /\ S \subseteq probed'
      BY <1>3, <2>1 DEF ProbeFanOut
    <3>2. PInv /\ Shape'
      BY <1>1 DEF Apart, PInv
    <3>3. /\ Alone'
          /\ \A k \in Kind : ~Idle(pools[k]') =>
                pools[k]'.left \cup DOMAIN pools[k]'.at \subseteq probed'
          /\ \A k \in Kind : AppCalls(k)' = {}
      BY <1>2, <1>4, <3>1, <3>2, ServersNextApart
    <3> QED BY <3>3 DEF Faithful
  <2>2. CASE A # {}
    <3>1. PICK batch \in FirstBatch(A) :
            pools' = [pools EXCEPT !["cycle"] = Launched(A, batch, Before(applications'))]
      BY <1>3, <2>2 DEF ProbeFanOut
    <3> DEFINE pool == Launched(A, batch, Before(applications'))
    <3>2. /\ pools["cycle"]' = pool
          /\ pools["stray"]' = pools["stray"]
      BY <3>1 DEF Apart, PInv, Shape, Kind
    <3>3. IsFiniteSet(A)
      BY <1>2, Finite, FS_Subset
    <3>4. /\ pool.left \cup DOMAIN pool.at \subseteq A
          /\ \A a \in DOMAIN pool.at : pool.at[a] = Before(applications')[a]
      BY <3>3, LaunchApart
    <3>5. \A a \in App : Before(applications')[a].previous.failures = Streak(a)'
      BY BeforeFaithful DEF Streak
    <3> HIDE DEF pool
    <3>6. Alone'
      BY <1>4, <3>2 DEF Alone
    <3>7. \A k \in Kind : ~Idle(pools[k]') =>
            pools[k]'.left \cup DOMAIN pools[k]'.at \subseteq probed'
      BY <1>3, <1>4, <3>2, <3>4 DEF Kind
    <3>8. Faithful'
      <4> SUFFICES ASSUME NEW k \in Kind, NEW a \in AppCalls(k)'
                   PROVE  pools[k]'.at[a].previous.failures = Streak(a)'
        BY DEF Faithful
      <4>1. k = "cycle"
        BY <1>4, <3>2 DEF Kind, AppCalls, Idle
      <4>2. a \in App /\ a \in DOMAIN pool.at
        BY <3>2, <4>1 DEF AppCalls
      <4> QED BY <3>2, <3>4, <3>5, <4>1, <4>2
    <3> QED BY <3>6, <3>7, <3>8
  <2> QED BY <2>1, <2>2
<1>7. Rooted'
  BY <1>3, <1>6 DEF Rooted
<1> QED BY <1>1, <1>5, <1>6, <1>7 DEF Apart

LEMMA TargetsFailApart == Apart /\ ProbeTargetsFail => Apart'
<1> SUFFICES ASSUME Apart, ProbeTargetsFail PROVE Apart'
  OBVIOUS
<1>1. PInv'
  BY TargetsFailShape DEF Apart
<1>2. Alone'
  BY DEF Apart, Alone, ProbeTargetsFail
<1>3. Rooted' /\ Faithful' /\ Told'
  BY DEF Apart, Rooted, Faithful, Told, Streak, AppCalls, ProbeTargetsFail
<1> QED BY <1>1, <1>2, <1>3 DEF Apart

\* An answered check adds to the failures it was sent with, which are those known.
LEMMA HttpResult ==
  ASSUME Apart, NEW k \in Kind, NEW a \in AppCalls(k), NEW answer \in Answer,
         HttpAnswered(k, a, answer)
  PROVE  LET ok == IsUp(answer) IN
         /\ Streak(a)' = IF ok THEN 0 ELSE IF Streak(a) > Down THEN Streak(a) ELSE Streak(a) + 1
         /\ told'[a] = IF Streak(a)' >= Down THEN "down" ELSE "up"
         /\ \A b \in App \ {a} : Streak(b)' = Streak(b) /\ told'[b] = told[b]
<1> DEFINE previous == pools[k].at[a].previous
           ok == IsUp(answer)
           failures == IF ok THEN 0
                       ELSE IF previous.failures > Down THEN previous.failures
                       ELSE previous.failures + 1
<1>1. /\ pools[k].at[a].stage = "http" /\ a \in App
      /\ applications' = [b \in DOMAIN applications \cup {a} |->
                            IF b = a THEN [failures |-> failures, tls |-> previous.tls]
                            ELSE applications[b]]
      /\ told' = [told EXCEPT ![a] = Announced(previous.failures, ok, failures, @)]
  BY DEF HttpAnswered, AppCalls
<1>2. previous.failures = Streak(a)
  BY <1>1 DEF Apart, Faithful
<1>3. failures = IF ok THEN 0 ELSE IF Streak(a) > Down THEN Streak(a) ELSE Streak(a) + 1
  BY <1>2
<1>4. ok \in BOOLEAN /\ Streak(a) \in 0 .. Down + 1
  BY <1>1, StreakNat DEF IsUp, Apart
<1> HIDE DEF ok, failures, previous
<1>5. Streak(a)' = failures /\ \A b \in App \ {a} : Streak(b)' = Streak(b)
  BY <1>1 DEF Streak
<1>6. told[a] = IF Streak(a) >= Down THEN "down" ELSE "up"
  BY <1>1 DEF Apart, Told
<1>7. DOMAIN told = App
  BY DEF Apart, PInv, Entries
<1>8. Announced(Streak(a), ok, failures, told[a]) = IF failures >= Down THEN "down" ELSE "up"
  BY <1>3, <1>4, <1>6, AnnouncedRight
<1>9. told'[a] = IF failures >= Down THEN "down" ELSE "up"
  BY <1>1, <1>2, <1>7, <1>8
<1>10. \A b \in App \ {a} : told'[b] = told[b]
  BY <1>1, <1>7
<1> QED BY <1>3, <1>5, <1>9, <1>10 DEF ok

LEMMA HttpApart ==
  ASSUME Apart, NEW k \in Kind, NEW a \in AppCalls(k), NEW answer \in Answer,
         HttpAnswered(k, a, answer)
  PROVE  Apart'
<1> DEFINE previous == pools[k].at[a].previous
<1>1. PInv'
  BY HttpShape DEF Apart
<1>2. a \in App /\ a \in DOMAIN pools[k].at
  BY DEF AppCalls
<1>3. /\ \A b \in App \ {a} : Streak(b)' = Streak(b)
      /\ told'[a] = IF Streak(a)' >= Down THEN "down" ELSE "up"
      /\ \A b \in App \ {a} : told'[b] = told[b]
  BY HttpResult
<1>4. Told'
  BY <1>3 DEF Apart, Told
<1>5. /\ UNCHANGED <<probing, probed, servers>>
      /\ DOMAIN applications' = DOMAIN applications \cup {a}
      /\ \/ /\ pools' = [pools EXCEPT ![k].at[a].stage = "tls"]
            /\ UNCHANGED <<probePhase, probeTimer, sincePruned>>
         \/ ProberGoesOn(k, a, Before(applications'))
  BY DEF HttpAnswered
<1>6. a \in probed
  BY <1>2 DEF Apart, Rooted, Idle
<1>7. DOMAIN applications' \cup DOMAIN servers' \subseteq probed'
  BY <1>5, <1>6 DEF Apart, Rooted
<1>8. \A b \in AppCalls(k) \ {a} :
         pools[k].at[b].stage = "http" => pools[k].at[b].previous.failures = Streak(b)'
  BY <1>3 DEF Apart, Faithful, AppCalls
<1>9. CASE ProberGoesOn(k, a, Before(applications'))
  <2>1. PInv /\ Alone /\ Rooted /\ Shape' /\ UNCHANGED probed
    BY <1>1, <1>5 DEF Apart, PInv
  <2>2. /\ Alone'
        /\ \A l \in Kind : ~Idle(pools[l]') =>
              pools[l]'.left \cup DOMAIN pools[l]'.at \subseteq probed'
        /\ Faithful'
    BY <1>8, <1>9, <2>1, AppsGoOnApart
  <2>3. Rooted'
    BY <1>7, <2>2 DEF Rooted
  <2> QED BY <1>1, <1>4, <2>2, <2>3 DEF Apart
<1>10. CASE /\ pools' = [pools EXCEPT ![k].at[a].stage = "tls"]
            /\ UNCHANGED <<probePhase, probeTimer, sincePruned>>
  <2> DEFINE at == [pools[k].at EXCEPT ![a].stage = "tls"]
  <2>1. pools' = [pools EXCEPT ![k] = [pools[k] EXCEPT !.at = at]]
    BY <1>10
  <2>2. [pools[k] EXCEPT !.at = at] = [left |-> pools[k].left, at |-> at]
    BY DEF Apart, PInv, Shape, CycleOK, StrayOK, Kind, PoolOver
  <2>3. /\ DOMAIN at = DOMAIN pools[k].at /\ at[a].stage = "tls"
        /\ \A b \in DOMAIN pools[k].at \ {a} : at[b] = pools[k].at[b]
    <3>1. pools[k].at[a] \in ProbeCall
      BY <1>2, CallTyped DEF Apart, PInv
    <3> QED BY <1>2, <3>1 DEF ProbeCall
  <2> HIDE DEF at
  <2>4. /\ pools[k]' = [left |-> pools[k].left, at |-> at]
        /\ \A l \in Kind \ {k} : pools[l]' = pools[l]
    BY <2>1, <2>2 DEF Apart, PInv, Shape
  <2>5. pools[k]'.left = pools[k].left /\ pools[k]'.at = at
    BY <2>4
  <2>6. \A l \in Kind : /\ Idle(pools[l]') <=> Idle(pools[l])
                       /\ pools[l]'.left = pools[l].left
                       /\ DOMAIN pools[l]'.at = DOMAIN pools[l].at
    BY <2>3, <2>4, <2>5 DEF Idle
  <2>7. Alone'
    BY <1>10, <2>6 DEF Apart, Alone, Kind
  <2>8. Rooted'
    BY <1>5, <1>7, <2>6 DEF Apart, Rooted
  <2>9. Faithful'
    <3> SUFFICES ASSUME NEW l \in Kind, NEW b \in AppCalls(l)', pools[l]'.at[b].stage = "http"
                 PROVE  pools[l]'.at[b].previous.failures = Streak(b)'
      BY DEF Faithful
    <3>1. b \in AppCalls(l)
      BY <2>6 DEF AppCalls
    <3>2. l = k
      BY <3>1, OneAtWork DEF Apart
    <3>3. b # a
      BY <2>3, <2>5, <3>2
    <3>4. b \in AppCalls(k) \ {a} /\ b \in DOMAIN pools[k].at \ {a}
      BY <3>1, <3>2, <3>3 DEF AppCalls
    <3> QED BY <1>8, <2>3, <2>5, <3>2, <3>4
  <2> QED BY <1>1, <1>4, <2>7, <2>8, <2>9 DEF Apart
<1> QED BY <1>5, <1>9, <1>10

LEMMA FailsApart ==
  ASSUME Apart, NEW k \in Kind, NEW a \in AppCalls(k), RecordFails(k, a)
  PROVE  Apart'
<1> DEFINE pool == Dropped(pools[k], a)
           left == IF Idle(pool) THEN IdlePool ELSE pool
<1>1. PInv'
  BY FailsShape DEF Apart
<1>2. UNCHANGED <<probed, applications, servers, told>>
  BY DEF RecordFails
<1>3. \A b \in App : Streak(b)' = Streak(b)
  BY <1>2 DEF Streak
<1>4. Told'
  BY <1>2, <1>3 DEF Apart, Told
<1>5. /\ DOMAIN left.at \subseteq DOMAIN pools[k].at
      /\ \A b \in DOMAIN left.at : left.at[b] = pools[k].at[b]
      /\ ~Idle(left) => left.left = pools[k].left
  <2>1. /\ DOMAIN pool.at \subseteq DOMAIN pools[k].at
        /\ \A b \in DOMAIN pool.at : pool.at[b] = pools[k].at[b]
        /\ pool.left = pools[k].left
    <3>1. pool = [left |-> pools[k].left,
                  at |-> [j \in DOMAIN pools[k].at \ {a} |-> pools[k].at[j]]]
      BY DEF Dropped, Apart, PInv, Shape, CycleOK, StrayOK, Kind, PoolOver
    <3> HIDE DEF pool
    <3> QED BY <3>1
  <2>2. Idle(IdlePool) /\ DOMAIN IdlePool.at = {}
    BY IdlePoolOver DEF Idle
  <2> HIDE DEF pool
  <2> QED BY <2>1, <2>2
<1>6. ~Idle(pools[k]) /\ \A l \in Kind \ {k} : Idle(pools[l])
  BY OneAtWork DEF Apart, AppCalls, Idle
<1>7. /\ pools["stray"]' = left
      /\ Idle(pools["cycle"]')
      /\ probePhase' = "none"
  <2>1. CASE k = "stray" /\ UNCHANGED probePhase /\ pools' = [pools EXCEPT ![k] = left]
    <3>1. pools["stray"]' = left /\ pools["cycle"]' = pools["cycle"]
      BY <2>1 DEF Apart, PInv, Shape, Kind
    <3>2. probePhase = "none"
      BY <1>6, <2>1 DEF Apart, Alone
    <3> QED BY <1>6, <2>1, <3>1, <3>2 DEF Kind
  <2>2. CASE /\ k = "cycle"
             /\ pools' = [pools EXCEPT !["cycle"] = IdlePool, !["stray"] = left]
             /\ ProbeSettled
    <3>1. pools["stray"]' = left /\ pools["cycle"]' = IdlePool
      BY <2>2 DEF Apart, PInv, Shape, Kind
    <3> QED BY <2>2, <3>1, IdlePoolOver DEF ProbeSettled
  <2> QED BY <2>1, <2>2 DEF RecordFails
<1> HIDE DEF left
<1>8. Alone'
  BY <1>7 DEF Alone
<1>9. Rooted'
  <2>1. \A l \in Kind : ~Idle(pools[l]') =>
          pools[l]'.left \cup DOMAIN pools[l]'.at \subseteq probed'
    BY <1>2, <1>5, <1>6, <1>7 DEF Apart, Rooted, Kind
  <2> QED BY <1>2, <2>1 DEF Apart, Rooted
<1>10. Faithful'
  <2> SUFFICES ASSUME NEW l \in Kind, NEW b \in AppCalls(l)', pools[l]'.at[b].stage = "http"
               PROVE  pools[l]'.at[b].previous.failures = Streak(b)'
    BY DEF Faithful
  <2>1. l = "stray"
    BY <1>7 DEF Kind, AppCalls, Idle
  <2>2. b \in App /\ b \in DOMAIN left.at /\ b \in AppCalls(k)
    BY <1>5, <1>7, <2>1 DEF AppCalls
  <2>3. left.at[b] = pools[k].at[b] /\ pools[l]'.at[b] = left.at[b]
    BY <1>5, <1>7, <2>1, <2>2
  <2> QED BY <1>3, <2>2, <2>3 DEF Apart, Faithful
<1> QED BY <1>1, <1>4, <1>8, <1>9, <1>10 DEF Apart

LEMMA TlsApart ==
  ASSUME Apart, NEW k \in Kind, NEW a \in AppCalls(k), TlsAnswered(k, a)
  PROVE  Apart'
<1>1. PInv'
  BY TlsShape DEF Apart
<1>2. /\ applications' = [b \in DOMAIN applications |->
                            IF b = a THEN [applications[b] EXCEPT !.tls = 0]
                            ELSE applications[b]]
      /\ UNCHANGED <<probing, probed, servers, told>>
      /\ ProberGoesOn(k, a, Before(applications'))
  BY DEF TlsAnswered
<1>3. \A b \in App : Streak(b)' = Streak(b)
  <2>1. \A b \in DOMAIN applications :
          [applications[b] EXCEPT !.tls = 0].failures = applications[b].failures
    BY EntryOf DEF Apart, PInv, Entries, ProbeEntry
  <2> QED BY <1>2, <2>1 DEF Streak
<1>4. Told'
  BY <1>2, <1>3 DEF Apart, Told
<1>5. \A b \in AppCalls(k) \ {a} :
         pools[k].at[b].stage = "http" => pools[k].at[b].previous.failures = Streak(b)'
  BY <1>3 DEF Apart, Faithful, AppCalls
<1>6. PInv /\ Alone /\ Rooted /\ Shape' /\ UNCHANGED probed
  BY <1>1, <1>2 DEF Apart, PInv
<1>7. /\ Alone'
      /\ \A l \in Kind : ~Idle(pools[l]') =>
            pools[l]'.left \cup DOMAIN pools[l]'.at \subseteq probed'
      /\ Faithful'
  BY <1>2, <1>5, <1>6, AppsGoOnApart
<1>8. Rooted'
  BY <1>2, <1>7 DEF Apart, Rooted
<1> QED BY <1>1, <1>4, <1>7, <1>8 DEF Apart

LEMMA TcpApart ==
  ASSUME Apart, NEW s \in DOMAIN pools["cycle"].at \cap Server, NEW ok \in BOOLEAN,
         TcpAnswered(s, ok)
  PROVE  Apart'
<1>1. PInv'
  BY TcpShape DEF Apart
<1>2. /\ probePhase = "servers"
      /\ DOMAIN servers' = DOMAIN servers \cup {s}
      /\ UNCHANGED <<probing, probed, applications, told>>
      /\ ProberGoesOn("cycle", s, Knock)
  BY DEF TcpAnswered
<1>3. Told'
  BY <1>2 DEF Apart, Told, Streak
<1>4. /\ ~Idle(pools["cycle"]) /\ Idle(pools["stray"])
      /\ pools["cycle"].left \cup DOMAIN pools["cycle"].at \subseteq probed
  BY <1>2 DEF Apart, Alone, Rooted, Idle, Kind
<1>5. DOMAIN applications' \cup DOMAIN servers' \subseteq probed'
  BY <1>2, <1>4 DEF Apart, Rooted
<1>6. PICK next \in Onwards(pools["cycle"].left) :
        LET pool == Advanced(pools["cycle"], s, next, Knock) IN
        IF ~Idle(pool)
        THEN /\ pools' = [pools EXCEPT !["cycle"] = pool]
             /\ UNCHANGED <<probePhase, probeTimer, sincePruned>>
        ELSE ProbeCycleEnds
  BY <1>2 DEF ProberGoesOn
<1> DEFINE pool == Advanced(pools["cycle"], s, next, Knock)
<1>7. /\ pools["stray"]' = pools["stray"]
      /\ \/ pools["cycle"]' = pool /\ UNCHANGED probePhase
         \/ pools["cycle"]' = IdlePool
  BY <1>6 DEF ProbeCycleEnds, Apart, PInv, Shape, Kind
<1>8. pool.left \cup DOMAIN pool.at \subseteq probed
  BY <1>4, AdvancedApart
<1> HIDE DEF pool
<1>9. Alone'
  BY <1>4, <1>7 DEF Alone
<1>10. \A k \in Kind : ~Idle(pools[k]') =>
         pools[k]'.left \cup DOMAIN pools[k]'.at \subseteq probed'
  BY <1>2, <1>4, <1>7, <1>8, IdlePoolOver DEF Kind
<1>11. Rooted'
  BY <1>5, <1>10 DEF Rooted
<1>12. AppCalls("stray")' = {} /\ AppCalls("cycle")' = {}
  <2>1. AppCalls("stray")' = {}
    BY <1>4, <1>7 DEF AppCalls, Idle
  <2>2. AppCalls("cycle")' = {}
    <3>1. CASE pools["cycle"]' = IdlePool
      BY <3>1, IdlePoolOver DEF AppCalls, Idle
    <3>2. CASE UNCHANGED probePhase
      <4>1. pools["cycle"]' \in PoolOver(Server, ProbeCall)
        BY <1>1, <1>2, <3>2 DEF PInv, Shape, CycleOK, Work
      <4>2. DOMAIN pools["cycle"]'.at \subseteq Server
        BY <4>1, PoolOverCalls
      <4> QED BY <4>2, ProberConstants DEF AppCalls
    <3> QED BY <1>7, <3>1, <3>2
  <2> QED BY <2>1, <2>2
<1>13. Faithful'
  BY <1>12 DEF Faithful, Kind
<1> QED BY <1>1, <1>3, <1>9, <1>11, <1>13 DEF Apart

LEMMA NextApart == ~Overlap /\ Apart /\ [ProberNext]_proberVars => Apart'
<1> SUFFICES ASSUME ~Overlap, Apart, [ProberNext]_proberVars PROVE Apart'
  OBVIOUS
<1>1. CASE StartProber
  BY <1>1, StartApart
<1>2. CASE StopProber
  BY <1>2, StopApart
<1>3. CASE ProbeTimerFires
  BY <1>3, TimerApart
<1>4. CASE \E apps \in SUBSET App, hosts \in SUBSET Server : ProbeTargetsRead(apps, hosts)
  BY <1>4, TargetsApart
<1>5. CASE ProbeTargetsFail
  BY <1>5, TargetsFailApart
<1>6. CASE \E k \in Kind : \E a \in AppCalls(k), answer \in Answer : HttpAnswered(k, a, answer)
  BY <1>6, HttpApart
<1>7. CASE \E k \in Kind : \E a \in AppCalls(k) : RecordFails(k, a)
  BY <1>7, FailsApart
<1>8. CASE \E k \in Kind : \E a \in AppCalls(k) : TlsAnswered(k, a)
  BY <1>8, TlsApart
<1>9. CASE \E s \in DOMAIN pools["cycle"].at \cap Server, ok \in BOOLEAN : TcpAnswered(s, ok)
  BY <1>9, TcpApart
<1>10. CASE UNCHANGED proberVars
  <2>1. PInv'
    BY NextPInv, <1>10 DEF Apart
  <2> QED BY <2>1, <1>10 DEF Apart, Alone, Rooted, Faithful, Told, Streak, AppCalls, proberVars
<1> QED BY <1>1, <1>2, <1>3, <1>4, <1>5, <1>6, <1>7, <1>8, <1>9, <1>10 DEF ProberNext, Kind

LEMMA AlwaysApart == ASSUME ~Overlap PROVE ProberSpec => []Apart
BY InitApart, NextApart, PTL DEF ProberSpec

\* Counting what a failed cycle left at work, no more than Limit checks are ever out.
THEOREM ChecksBounded == ASSUME ~Overlap PROVE ProberSpec => []AtMostLimit
<1>1. Apart => AtMostLimit
  <2> SUFFICES ASSUME Apart PROVE AtMostLimit
    OBVIOUS
  <2>1. /\ pools["cycle"] \in PoolOver(Work(probePhase), ProbeCall)
        /\ pools["stray"] \in PoolOver(App, ProbeCall)
    BY DEF Apart, PInv, Shape, CycleOK, StrayOK
  <2>2. /\ Width(pools["cycle"]) \in Nat /\ Width(pools["stray"]) \in Nat
        /\ Idle(pools["cycle"]) => Width(pools["cycle"]) = 0
        /\ Idle(pools["stray"]) => Width(pools["stray"]) = 0
    BY <2>1, Finite, WidthNat
  <2>3. Idle(pools["cycle"]) \/ Idle(pools["stray"])
    BY DEF Apart, Alone, PInv, Shape, CycleOK
  <2>4. Width(pools["cycle"]) <= Limit /\ Width(pools["stray"]) < Limit
    BY DEF Apart, PInv, Shape, CycleOK, StrayOK
  <2>5. Width(pools["cycle"]) + Width(pools["stray"]) <= Limit
    BY <2>2, <2>3, <2>4, LimitConstant
  <2> QED BY <2>5 DEF AtMostLimit, Width
<1> QED BY <1>1, AlwaysApart, PTL

\* No late answer brings back an application or a server that left the fleet.
THEOREM GoneStaysGone == ASSUME ~Overlap PROVE ProberSpec => []NothingComesBack
<1>1. Apart => NothingComesBack
  BY DEF Apart, Rooted, NothingComesBack
<1> QED BY <1>1, AlwaysApart, PTL

\* A step that changes neither failures nor toasts says nothing to the detector.
LEMMA Silent ==
  ASSUME UNCHANGED told, \A a \in App : Streak(a)' = Streak(a)
  PROVE  UNCHANGED Outages!vars
BY DEF Streak, Outages!vars

\* Announcements follow the measurements: step by step, the prober implements the
\* outage detector.
THEOREM OutagesImplemented == ASSUME ~Overlap PROVE ProberSpec => ImplementsOutages
<1>1. ProberInit => Outages!Init
  BY DEF ProberInit, Outages!Init
<1>2. Apart /\ [ProberNext]_proberVars => [Outages!Next]_(Outages!vars)
  <2> SUFFICES ASSUME Apart, [ProberNext]_proberVars
               PROVE  [Outages!Next]_(Outages!vars)
    OBVIOUS
  <2>1. CASE StartProber
    BY <2>1, Silent DEF StartProber, Streak
  <2>2. CASE StopProber
    BY <2>2, Silent DEF StopProber, Streak
  <2>3. CASE ProbeTimerFires
    BY <2>3, TimerStreaks, Silent DEF ProbeTimerFires, Apart
  <2>4. CASE \E apps \in SUBSET App, hosts \in SUBSET Server : ProbeTargetsRead(apps, hosts)
    <3>1. PICK apps \in SUBSET App, hosts \in SUBSET Server : ProbeTargetsRead(apps, hosts)
      BY <2>4
    <3>2. PICK gone : gone = DOMAIN applications \ HttpTargets(apps)
      OBVIOUS
    <3>3. \A a \in App : /\ Streak(a)' = IF a \in gone THEN 0 ELSE Streak(a)
                        /\ told'[a] = IF a \in gone THEN "up" ELSE told[a]
      BY <3>1, <3>2, TargetsStreaks
    <3>4. told' = [a \in App |-> told'[a]]
      BY <3>1 DEF ProbeTargetsRead
    <3>5. gone \in SUBSET App
      BY <3>2, EntryOf DEF Apart, PInv, Entries
    <3>6. Outages!Forget(gone)
      BY <3>3, <3>4 DEF Outages!Forget, Streak
    <3> QED BY <3>5, <3>6 DEF Outages!Next
  <2>5. CASE ProbeTargetsFail
    BY <2>5, Silent DEF ProbeTargetsFail, Streak
  <2>6. CASE \E k \in Kind : \E a \in AppCalls(k), answer \in Answer : HttpAnswered(k, a, answer)
    <3>1. PICK k \in Kind : \E a \in AppCalls(k), answer \in Answer : HttpAnswered(k, a, answer)
      BY <2>6
    <3>2. PICK a \in AppCalls(k), answer \in Answer : HttpAnswered(k, a, answer)
      BY <3>1
    <3>3. PICK ok : ok = IsUp(answer)
      OBVIOUS
    <3>4. a \in App /\ ok \in BOOLEAN
      BY <3>3 DEF AppCalls, IsUp
    <3>5. /\ Streak(a)' = IF ok THEN 0 ELSE IF Streak(a) > Down THEN Streak(a) ELSE Streak(a) + 1
          /\ told'[a] = IF Streak(a)' >= Down THEN "down" ELSE "up"
          /\ \A b \in App \ {a} : Streak(b)' = Streak(b) /\ told'[b] = told[b]
      BY <3>2, <3>3, HttpResult
    <3>6. /\ told \in [App -> {"up", "down", "again"}]
          /\ told' \in [App -> {"up", "down", "again"}]
      BY <3>2, HttpShape DEF Apart, PInv, Entries
    <3>7. Outages!Result(a, ok)
      <4>1. told' = [told EXCEPT ![a] = IF Streak(a)' >= Down THEN "down" ELSE "up"]
        BY <3>4, <3>5, <3>6
      <4>2. [b \in App |-> Streak(b)]' =
              [[b \in App |-> Streak(b)] EXCEPT ![a] =
                 IF ok THEN 0 ELSE IF @ > Down THEN @ ELSE @ + 1]
        BY <3>4, <3>5
      <4> QED BY <3>4, <4>1, <4>2 DEF Outages!Result, Streak
    <3> QED BY <3>4, <3>7 DEF Outages!Next
  <2>7. CASE \E k \in Kind : \E a \in AppCalls(k) : RecordFails(k, a)
    BY <2>7, Silent DEF RecordFails, Streak
  <2>8. CASE \E k \in Kind : \E a \in AppCalls(k) : TlsAnswered(k, a)
    <3>1. UNCHANGED told
      BY <2>8 DEF TlsAnswered
    <3>2. \A b \in DOMAIN applications :
            [applications[b] EXCEPT !.tls = 0].failures = applications[b].failures
      BY EntryOf DEF Apart, PInv, Entries, ProbeEntry
    <3>3. \A b \in App : Streak(b)' = Streak(b)
      BY <2>8, <3>2 DEF TlsAnswered, Streak
    <3> QED BY <3>1, <3>3, Silent
  <2>9. CASE \E s \in DOMAIN pools["cycle"].at \cap Server, ok \in BOOLEAN : TcpAnswered(s, ok)
    BY <2>9, Silent DEF TcpAnswered, Streak
  <2>10. CASE UNCHANGED proberVars
    BY <2>10, Silent DEF proberVars, Streak
  <2> QED BY <2>1, <2>2, <2>3, <2>4, <2>5, <2>6, <2>7, <2>8, <2>9, <2>10 DEF ProberNext, Kind
<1> QED BY <1>1, <1>2, AlwaysApart, PTL DEF ProberSpec, ImplementsOutages, Outages!Spec
=============================================================================
