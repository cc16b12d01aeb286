-------------------------- MODULE LiveChannelProofs --------------------------
(***************************************************************************)
(* Proofs about the polling loop and the live channel around it, for any   *)
(* browsers, deployments, cadences, timeouts and windows: the loop never   *)
(* dies, nobody watches a stopped poller, a finish is announced once a     *)
(* window, and the poller in its environment is Poller's loop.             *)
(***************************************************************************)
EXTENDS LiveChannel, TtlCacheProofs, FiniteSetTheorems

-----------------------------------------------------------------------------
(* The polling loop by itself, for any cadences and any back-off ceiling, in     *)
(* an arbitrary environment.  PollerTypeOK and LoopAlive are inductive together: *)
(* the delay needs the range of `failures`, the loop needs that a stopped poller *)
(* has no timer left.                                                            *)

PInv == PollerTypeOK /\ LoopAlive

\* A power of two is a natural number: it counts the subsets of 1 .. f.
LEMMA PowerNat == ASSUME NEW f \in Nat PROVE 2^f \in Nat
<1>1. IsFiniteSet(1 .. f) /\ Cardinality(1 .. f) = f
  BY FS_Interval, SMT
<1>2. IsFiniteSet(SUBSET (1 .. f)) /\ Cardinality(SUBSET (1 .. f)) = 2^f
  BY <1>1, FS_SUBSET
<1> QED BY <1>2, FS_CardinalityType

\* schedule's delay never exceeds the back-off ceiling.
LEMMA DelayBounded ==
  ASSUME NEW act \in BOOLEAN, NEW f \in Nat
  PROVE  Delay(act, f) \in 0 .. MaxBackoff
<1> DEFINE p == 2^f
<1>1. p \in Nat
  BY PowerNat
<1> HIDE DEF p
<1>2. IdleDelay * p \in Nat
  BY <1>1, PollerConstants
<1>3. (IF IdleDelay * p < MaxBackoff THEN IdleDelay * p ELSE MaxBackoff)
        \in 0 .. MaxBackoff
  BY <1>2, PollerConstants
<1>4. (IF act THEN ActiveDelay ELSE IdleDelay) \in 0 .. MaxBackoff
  BY PollerConstants
<1> QED BY <1>3, <1>4 DEF Delay, p

\* What a list or a terminal read leaves of the logs is still a set of log lengths.
LEMMA LogsRestricted ==
  ASSUME NEW f \in Logs, NEW S \in SUBSET DOMAIN f
  PROVE  [d \in S |-> f[d]] \in Logs
<1>1. PICK T \in SUBSET Deployment : f \in [T -> 0 .. MaxLog]
  BY DEF Logs
<1>2. S \in SUBSET Deployment /\ [d \in S |-> f[d]] \in [S -> 0 .. MaxLog]
  BY <1>1
<1> QED BY <1>2 DEF Logs

\* The empty log map is a log map.
LEMMA NoLogsTyped == NoLogs \in Logs /\ DOMAIN NoLogs = {}
BY DEF Logs, NoLogs

\* publishLogs keeps the tracked lengths within the log's bound.
LEMMA PushedTyped ==
  ASSUME NEW list \in Logs, tracked \in Logs
  PROVE  [d \in DOMAIN list |-> Pushed(TrackedBefore(d), list[d])] \in Logs
<1>1. PICK L \in SUBSET Deployment : list \in [L -> 0 .. MaxLog]
  BY DEF Logs
<1>2. PICK T \in SUBSET Deployment : tracked \in [T -> 0 .. MaxLog]
  BY DEF Logs
<1>3. \A d \in L : TrackedBefore(d) \in 0 .. MaxLog
  BY <1>2, PollerConstants DEF TrackedBefore
<1>4. \A d \in L : Pushed(TrackedBefore(d), list[d]) \in 0 .. MaxLog
  BY <1>1, <1>3 DEF Pushed
<1>5. [d \in L |-> Pushed(TrackedBefore(d), list[d])] \in [L -> 0 .. MaxLog]
  BY <1>4
<1> QED BY <1>1, <1>5 DEF Logs

\* Zero is a delay and a number of failures.
LEMMA ZeroTyped == 0 \in 0 .. MaxBackoff /\ 0 \in 0 .. MaxFailures
BY PollerConstants

LEMMA InitPInv == PollerInit => PInv
<1> SUFFICES ASSUME PollerInit PROVE PInv
  OBVIOUS
<1>1. PollerTypeOK
  BY NoLogsTyped, ZeroTyped, Zenon DEF PollerInit, PollerTypeOK
<1>2. LoopAlive
  BY NoLogsTyped DEF PollerInit, LoopAlive
<1> QED BY <1>1, <1>2 DEF PInv

\* The end of a tick hands the loop to a timer, unless it was stopped meanwhile.
LEMMA EndTickKeeps ==
  ASSUME PInv, NEW act \in BOOLEAN, NEW f \in Nat, EndTick(act, f),
         phase # "none", running' = running, DOMAIN reading' = {}
  PROVE  /\ left' \in 0 .. MaxBackoff
         /\ armed' \in BOOLEAN
         /\ phase' = "none"
         /\ LoopAlive'
<1>1. Delay(act, f) \in 0 .. MaxBackoff
  BY DelayBounded
<1>2. phase' = "none"
  BY DEF EndTick
<1>3. CASE running
  BY <1>1, <1>2, <1>3 DEF EndTick, Schedule, LoopAlive
<1>4. CASE ~running
  BY <1>2, <1>4 DEF PInv, PollerTypeOK, EndTick, Schedule, LoopAlive
<1> QED BY <1>3, <1>4

\* The list arrives: both branches of the tick leave the loop alive.
LEMMA ListOkKeeps ==
  ASSUME PInv, NEW list \in Logs, ListOk(list)
  PROVE  PInv'
<1> DEFINE gone == DOMAIN tracked \ DOMAIN list
           live == DOMAIN list # {}
<1>1. /\ running \in BOOLEAN /\ armed \in BOOLEAN /\ left \in 0 .. MaxBackoff
      /\ reading \in Logs /\ tracked \in Logs /\ sawLive \in BOOLEAN
      /\ failures \in 0 .. MaxFailures
  BY DEF PInv, PollerTypeOK
<1>2. failures' = 0 /\ reported' = FALSE /\ phase = "list"
  BY DEF ListOk
<1>3. failures' \in 0 .. MaxFailures
  BY <1>2, PollerConstants
<1>4. tracked' \in Logs
  BY <1>1, PushedTyped DEF ListOk
<1>5. reading = NoLogs \/ DOMAIN reading = {}
  BY <1>2 DEF PInv, LoopAlive
<1>6. CASE gone = {}
  <2>1. active' = live /\ EndTick(live, 0) /\ UNCHANGED <<running, reading, sawLive>>
    BY <1>6 DEF ListOk
  <2>2. DOMAIN reading' = {}
    BY <1>5, <2>1, NoLogsTyped
  <2>3. /\ left' \in 0 .. MaxBackoff /\ armed' \in BOOLEAN /\ phase' = "none"
        /\ LoopAlive'
    BY <1>2, <2>1, <2>2, EndTickKeeps
  <2> QED BY <1>1, <1>2, <1>3, <1>4, <2>1, <2>3 DEF PInv, PollerTypeOK
<1>7. CASE gone # {}
  <2>1. /\ phase' = "terminal"
        /\ reading' = [d \in gone |-> tracked[d]]
        /\ sawLive' = live
        /\ UNCHANGED <<running, active, armed, left>>
    BY <1>7 DEF ListOk
  <2>2. reading' \in Logs /\ DOMAIN reading' = gone
    BY <1>1, <2>1, LogsRestricted
  <2>3. active' \in BOOLEAN
    BY <2>1 DEF PInv, PollerTypeOK
  <2>4. PollerTypeOK'
    BY <1>1, <1>2, <1>3, <1>4, <2>1, <2>2, <2>3 DEF PollerTypeOK
  <2>5. LoopAlive'
    BY <1>2, <1>7, <2>1, <2>2 DEF PInv, LoopAlive
  <2> QED BY <2>4, <2>5 DEF PInv
<1> QED BY <1>6, <1>7

\* A list that could not be read: the next one is scheduled, later.
LEMMA ListFailedKeeps ==
  ASSUME PInv, ListFailed
  PROVE  PInv'
<1>1. /\ failures \in 0 .. MaxFailures /\ active \in BOOLEAN
      /\ reading \in Logs /\ tracked \in Logs /\ sawLive \in BOOLEAN
      /\ running \in BOOLEAN
  BY DEF PInv, PollerTypeOK
<1>2. /\ phase = "list" /\ reported' = TRUE
      /\ failures' = IF failures < MaxFailures THEN failures + 1 ELSE MaxFailures
      /\ EndTick(active, failures')
      /\ UNCHANGED <<running, active, tracked, reading, sawLive>>
  BY DEF ListFailed
<1>3. failures' \in 0 .. MaxFailures /\ failures' \in Nat
  BY <1>1, <1>2, PollerConstants
<1>4. DOMAIN reading' = {}
  BY <1>2 DEF PInv, LoopAlive
<1>5. /\ left' \in 0 .. MaxBackoff /\ armed' \in BOOLEAN /\ phase' = "none"
      /\ LoopAlive'
  BY <1>1, <1>2, <1>3, <1>4, EndTickKeeps
<1> QED BY <1>1, <1>2, <1>3, <1>5 DEF PInv, PollerTypeOK

\* One terminal read is over; the last one ends the tick.
LEMMA FinishedKeeps ==
  ASSUME PInv, NEW d \in Deployment, Finished(d)
  PROVE  PInv'
<1> DEFINE others == DOMAIN reading \ {d}
<1>1. /\ failures \in 0 .. MaxFailures /\ active \in BOOLEAN /\ reported \in BOOLEAN
      /\ reading \in Logs /\ tracked \in Logs /\ sawLive \in BOOLEAN
      /\ running \in BOOLEAN /\ armed \in BOOLEAN /\ left \in 0 .. MaxBackoff
  BY DEF PInv, PollerTypeOK
<1>2. /\ phase = "terminal" /\ d \in DOMAIN reading
      /\ reading' = [e \in others |-> reading[e]]
      /\ UNCHANGED <<running, failures, reported, tracked>>
  BY DEF Finished
<1>3. reading' \in Logs /\ DOMAIN reading' = others
  BY <1>1, <1>2, LogsRestricted
<1>4. CASE DOMAIN reading = {d}
  <2>1. active' = sawLive /\ sawLive' = FALSE /\ EndTick(sawLive, failures)
    BY <1>4 DEF Finished
  <2>2. failures \in Nat
    BY <1>1, PollerConstants
  <2>3. /\ left' \in 0 .. MaxBackoff /\ armed' \in BOOLEAN /\ phase' = "none"
        /\ LoopAlive'
    BY <1>1, <1>2, <1>3, <1>4, <2>1, <2>2, EndTickKeeps
  <2> QED BY <1>1, <1>2, <1>3, <2>1, <2>3 DEF PInv, PollerTypeOK
<1>5. CASE DOMAIN reading # {d}
  <2>1. UNCHANGED <<active, armed, left, phase, sawLive>>
    BY <1>5 DEF Finished
  <2>2. others # {}
    BY <1>2, <1>5
  <2> QED BY <1>1, <1>2, <1>3, <2>1, <2>2 DEF PInv, PollerTypeOK, LoopAlive
<1> QED BY <1>4, <1>5

\* Calls and the clock: none of them touches a tick in flight.
LEMMA CallsKeep ==
  ASSUME PInv, Start \/ Stop \/ Poke \/ Fire \/ PollerTick
  PROVE  PInv'
<1>1. CASE Start
  BY <1>1, PollerConstants DEF PInv, PollerTypeOK, LoopAlive, Start, Run
<1>2. CASE Stop
  <2>1. PollerTypeOK'
    BY <1>2, NoLogsTyped, ZeroTyped, Zenon DEF PInv, PollerTypeOK, Stop
  <2>2. LoopAlive'
    BY <1>2 DEF PInv, LoopAlive, Stop
  <2> QED BY <2>1, <2>2 DEF PInv
<1>3. CASE Poke
  <2>1. PollerTypeOK'
    BY <1>3, ZeroTyped, Zenon DEF PInv, PollerTypeOK, Poke, Run
  <2>2. LoopAlive'
    BY <1>3 DEF PInv, LoopAlive, Poke, Run
  <2> QED BY <2>1, <2>2 DEF PInv
<1>4. CASE Fire
  BY <1>4, PollerConstants DEF PInv, PollerTypeOK, LoopAlive, Fire, Run
<1>5. CASE PollerTick
  BY <1>5, PollerConstants DEF PInv, PollerTypeOK, LoopAlive, PollerTick
<1> QED BY <1>1, <1>2, <1>3, <1>4, <1>5

LEMMA NextPInv == PInv /\ [PollerNext]_pollerVars => PInv'
<1> SUFFICES ASSUME PInv, [PollerNext]_pollerVars PROVE PInv'
  OBVIOUS
<1>1. CASE UNCHANGED pollerVars
  BY <1>1 DEF PInv, PollerTypeOK, LoopAlive, pollerVars
<1>2. CASE Start \/ Stop \/ Poke \/ Fire \/ PollerTick
  BY <1>2, CallsKeep
<1>3. ASSUME NEW list \in Logs, ListOk(list) PROVE PInv'
  BY <1>3, ListOkKeeps
<1>4. CASE ListFailed
  BY <1>4, ListFailedKeeps
<1>5. ASSUME NEW d \in Deployment, Finished(d) PROVE PInv'
  BY <1>5, FinishedKeeps
<1> QED BY <1>1, <1>2, <1>3, <1>4, <1>5 DEF PollerNext

-----------------------------------------------------------------------------

\* The loop's state keeps its shape; in particular its delay never passes the
\* ceiling, however many requests fail in a row.
THEOREM PollerTypeCorrect == PollerSpec => []PollerTypeOK
<1>1. PInv => PollerTypeOK
  BY DEF PInv
<1> QED BY <1>1, InitPInv, NextPInv, PTL DEF PollerSpec

\* server/poller.ts schedules its own next tick: whatever calls and answers come
\* in whatever order, a running loop has exactly one of a timer and a tick in
\* flight, and a stopped one has no timer.
THEOREM LoopNeverDies == PollerSpec => []LoopAlive
<1>1. PInv => LoopAlive
  BY DEF PInv
<1> QED BY <1>1, InitPInv, NextPInv, PTL DEF PollerSpec

\* publishLogs: what was pushed of a log is never pushed again while the
\* deployment stays in the list, even when the cache answers with an older list.
LEMMA StepPushesOnce ==
  ASSUME PollerTypeOK, [PollerNext]_pollerVars,
         NEW d \in DOMAIN tracked \cap DOMAIN tracked'
  PROVE  tracked'[d] >= tracked[d]
<1>1. tracked[d] \in Nat
  BY PollerConstants DEF PollerTypeOK, Logs
<1>2. CASE tracked' = tracked
  BY <1>1, <1>2
<1>3. CASE tracked' = NoLogs
  BY <1>3, NoLogsTyped
<1>4. ASSUME NEW list \in Logs, ListOk(list) PROVE tracked'[d] >= tracked[d]
  <2>1. tracked' = [e \in DOMAIN list |-> Pushed(TrackedBefore(e), list[e])]
    BY <1>4 DEF ListOk
  <2>2. tracked'[d] = Pushed(tracked[d], list[d]) /\ d \in DOMAIN list
    BY <2>1 DEF TrackedBefore
  <2>3. list[d] \in Nat
    BY <2>2, PollerConstants DEF Logs
  <2> QED BY <1>1, <2>2, <2>3 DEF Pushed
<1> QED
  BY <1>2, <1>3, <1>4 DEF PollerNext, pollerVars, Start, Stop, Poke, Fire,
     PollerTick, ListFailed, Finished

THEOREM LinesPushedOnce == PollerSpec => NoLineTwice
<1>1. PInv /\ [PollerNext]_pollerVars
        => [\A d \in DOMAIN tracked \cap DOMAIN tracked' :
              tracked'[d] >= tracked[d]]_pollerVars
  BY StepPushesOnce DEF PInv
<1> QED BY <1>1, InitPInv, NextPInv, PTL DEF PollerSpec, NoLineTwice

-----------------------------------------------------------------------------
(* The channel. *)

\* The history clock of a finish is the one the hub's dedupe keeps.
DedupeClock ==
    /\ seen \in [Deployment -> 0 .. Window]
    /\ heard \in [Deployment -> 0 .. 2]
    /\ quiet = seen

-----------------------------------------------------------------------------
(* The poller runs while a stream is open. *)

\* What the poller does by itself does not start or stop it.
LEMMA TickKeepsRunning ==
  ASSUME \/ \E list : ListOk(list)
         \/ ListFailed
         \/ \E d : Finished(d)
         \/ Poke
         \/ Fire
         \/ PollerTick
         \/ UNCHANGED pollerVars
  PROVE  running' = running
BY DEF ListOk, ListFailed, Finished, Poke, Fire, PollerTick, pollerVars

LEMMA NextWatched == WatchedIffRunning /\ [Next]_vars => WatchedIffRunning'
<1> SUFFICES ASSUME WatchedIffRunning, [Next]_vars PROVE WatchedIffRunning'
  OBVIOUS
<1>1. ASSUME running' = running, UNCHANGED listeners PROVE WatchedIffRunning'
  BY <1>1 DEF WatchedIffRunning
<1>2. ASSUME NEW c \in Client, Connect(c) PROVE WatchedIffRunning'
  <2>1. c \notin listeners /\ listeners' = listeners \cup {c}
    BY <1>2 DEF Connect, Subscribe
  <2>2. CASE listeners = {}
    BY <1>2, <2>1, <2>2 DEF Connect, Start, WatchedIffRunning
  <2>3. CASE listeners # {}
    BY <1>2, <2>1, <2>3 DEF Connect, pollerVars, WatchedIffRunning
  <2> QED BY <2>2, <2>3
<1>3. ASSUME NEW c \in Client, Disconnect(c) PROVE WatchedIffRunning'
  <2>1. c \in listeners /\ listeners' = listeners \ {c}
    BY <1>3 DEF Disconnect, Unsubscribe
  <2>2. CASE listeners = {c}
    BY <1>3, <2>1, <2>2 DEF Disconnect, Stop, WatchedIffRunning
  <2>3. CASE listeners # {c}
    BY <1>3, <2>1, <2>3 DEF Disconnect, pollerVars, WatchedIffRunning
  <2> QED BY <2>2, <2>3
<1>4. ASSUME NEW f \in flights, ListArrives(f) \/ ListRequestFails(f)
      PROVE  WatchedIffRunning'
  BY <1>1, <1>4, TickKeepsRunning DEF ListArrives, ListRequestFails, hubVars
<1>5. ASSUME NEW d \in Deployment,
             TerminalRead(d) \/ TerminalReadFails(d) \/ Webhook(d)
      PROVE  WatchedIffRunning'
  BY <1>1, <1>5, TickKeepsRunning DEF TerminalRead, TerminalReadFails, Webhook, hubVars
<1>6. CASE TimerFires \/ Tick
  BY <1>1, <1>6, TickKeepsRunning DEF TimerFires, Tick, HubTick, hubVars
<1>7. CASE DeployAnswered \/ OverviewReads \/ UNCHANGED vars
  BY <1>1, <1>7, TickKeepsRunning DEF DeployAnswered, OverviewReads, vars, hubVars
<1>8. ASSUME NEW f \in flights, ServeList(f) PROVE WatchedIffRunning'
  BY <1>1, <1>8, TickKeepsRunning DEF ServeList, hubVars
<1>9. ASSUME NEW d \in Deployment, NEW b \in BOOLEAN,
             Launch(d, b) \/ Grow(d) \/ End(d, b)
      PROVE  WatchedIffRunning'
  BY <1>1, <1>9, TickKeepsRunning DEF Launch, Grow, End, hubVars
<1> QED BY <1>2, <1>3, <1>4, <1>5, <1>6, <1>7, <1>8, <1>9 DEF Next

\* server/index.ts wires the hub's first and last subscriber to start and stop;
\* the poller runs exactly while a stream is open, for any number of browsers.
THEOREM PollerFollowsStreams == Spec => []WatchedIffRunning
<1>1. Init => WatchedIffRunning
  BY DEF Init, PollerInit, HubInit, WatchedIffRunning
<1> QED BY <1>1, NextWatched, PTL DEF Spec

-----------------------------------------------------------------------------
(* A finish is announced once a window. *)

\* An announcement restarts both clocks, and only once a window has passed.
LEMMA AnnounceOnce ==
  ASSUME DedupeClock, OncePerWindow, NEW d \in Deployment, Announce(d)
  PROVE  DedupeClock' /\ OncePerWindow'
<1>1. CASE IsNew(d)
  <2>1. /\ seen' = [seen EXCEPT ![d] = 0] /\ quiet' = [quiet EXCEPT ![d] = 0]
        /\ quiet[d] = Window
        /\ heard' = [heard EXCEPT ![d] = 1]
    BY <1>1 DEF Announce, Remember, IsNew, DedupeClock
  <2>2. DedupeClock'
    BY <2>1, HubConstants, ChannelConstants DEF DedupeClock
  <2>3. OncePerWindow'
    BY <2>1 DEF DedupeClock, OncePerWindow
  <2> QED BY <2>2, <2>3
<1>2. CASE ~IsNew(d)
  BY <1>2 DEF Announce, Remember, spoken, DedupeClock, OncePerWindow
<1> QED BY <1>1, <1>2

LEMMA NextOnce ==
  DedupeClock /\ OncePerWindow /\ [Next]_vars => DedupeClock' /\ OncePerWindow'
<1> SUFFICES ASSUME DedupeClock, OncePerWindow, [Next]_vars
             PROVE  DedupeClock' /\ OncePerWindow'
  OBVIOUS
<1>1. ASSUME UNCHANGED <<seen, quiet, heard>> PROVE DedupeClock' /\ OncePerWindow'
  BY <1>1 DEF DedupeClock, OncePerWindow
<1>2. ASSUME NEW d \in Deployment, TerminalRead(d) \/ Webhook(d)
      PROVE  DedupeClock' /\ OncePerWindow'
  BY <1>2, AnnounceOnce DEF TerminalRead, Webhook
<1>3. CASE Tick
  <2>1. seen' = quiet'
    BY <1>3, ChannelConstants DEF Tick, HubTick, DedupeClock
  <2>2. seen' \in [Deployment -> 0 .. Window]
    BY <1>3, HubConstants, ChannelConstants DEF Tick, HubTick, DedupeClock
  <2> QED BY <1>3, <2>1, <2>2 DEF Tick, DedupeClock, OncePerWindow
<1>4. ASSUME NEW c \in Client, Connect(c) \/ Disconnect(c)
      PROVE  DedupeClock' /\ OncePerWindow'
  BY <1>1, <1>4 DEF Connect, Disconnect, Subscribe, Unsubscribe, spoken
<1>5. ASSUME NEW f \in flights, ServeList(f) \/ ListArrives(f) \/ ListRequestFails(f)
      PROVE  DedupeClock' /\ OncePerWindow'
  BY <1>1, <1>5 DEF ServeList, ListArrives, ListRequestFails, hubVars, spoken
<1>6. ASSUME NEW d \in Deployment, TerminalReadFails(d)
      PROVE  DedupeClock' /\ OncePerWindow'
  BY <1>1, <1>6 DEF TerminalReadFails, hubVars, spoken
<1>7. CASE TimerFires \/ DeployAnswered \/ OverviewReads \/ UNCHANGED vars
  BY <1>1, <1>7 DEF TimerFires, DeployAnswered, OverviewReads, vars, hubVars, spoken
<1>8. ASSUME NEW d \in Deployment, NEW b \in BOOLEAN,
             Launch(d, b) \/ Grow(d) \/ End(d, b)
      PROVE  DedupeClock' /\ OncePerWindow'
  BY <1>1, <1>8 DEF Launch, Grow, End, hubVars, spoken
<1> QED BY <1>2, <1>3, <1>4, <1>5, <1>6, <1>7, <1>8 DEF Next

\* events.ts's dedupe: webhook, webhook retries and the poller's own discovery
\* broadcast the end of a deployment once per window, for any window.
THEOREM FinishAnnouncedOnce == Spec => []OncePerWindow
<1>1. Init => DedupeClock /\ OncePerWindow
  BY HubConstants, ChannelConstants DEF Init, HubInit, DedupeClock, OncePerWindow
<1> QED BY <1>1, NextOnce, PTL DEF Spec

-----------------------------------------------------------------------------
(* The loop in its environment is the loop of Poller. *)

\* What the channel does to the cache keeps it well-formed.
LEMMA AskOK == ASSUME CacheOK, AskIfStarted PROVE CacheOK'
<1>1. PollerCall \in Caller /\ ListKey \in Key
  BY ChannelConstants
<1>2. CASE Join(PollerCall, ListKey, 0)
  BY <1>1, <1>2, JoinOK
<1>3. CASE StartLoad(PollerCall, ListKey, 0)
  BY <1>1, <1>3, StartLoadOK
<1>4. CASE UNCHANGED cacheVars
  BY <1>4 DEF cacheVars, CacheOK, CacheTypeOK, CacheFilled, Filled
<1> QED BY <1>2, <1>3, <1>4 DEF AskIfStarted

\* The list Coolify answers is a list.
LEMMA CurrentListTyped ==
  ASSUME log \in [Deployment -> 0 .. MaxLog] PROVE CurrentList \in Value
<1>1. CurrentList \in [{e \in Deployment : dep[e] = "running"} -> 0 .. MaxLog]
  BY DEF CurrentList
<1> QED BY <1>1, ChannelConstants DEF Logs

ChannelInv == CacheOK /\ log \in [Deployment -> 0 .. MaxLog]

LEMMA NextChannelInv == ChannelInv /\ [Next]_vars => ChannelInv'
<1> SUFFICES ASSUME ChannelInv, [Next]_vars PROVE ChannelInv'
  OBVIOUS
<1> DEFINE LogOK == log \in [Deployment -> 0 .. MaxLog]
<1>0. CacheOK /\ LogOK
  BY DEF ChannelInv
<1>1. ASSUME UNCHANGED cacheVars PROVE CacheOK'
  BY <1>0, <1>1 DEF cacheVars, CacheOK, CacheTypeOK, CacheFilled, Filled
<1>2. ASSUME NEW d \in Deployment, Grow(d) PROVE ChannelInv'
  <2>1. log'  = [log EXCEPT ![d] = @ + 1] /\ log[d] < MaxLog /\ UNCHANGED cacheVars
    BY <1>2 DEF Grow
  <2>2. LogOK'
    BY <1>0, <2>1, PollerConstants
  <2> QED BY <1>1, <2>1, <2>2 DEF ChannelInv
<1>3. ASSUME NEW d \in Deployment, NEW b \in BOOLEAN, Launch(d, b) \/ End(d, b)
      PROVE  ChannelInv'
  BY <1>0, <1>1, <1>3 DEF Launch, End, ChannelInv
<1>4. ASSUME NEW f \in flights, ServeList(f) PROVE ChannelInv'
  BY <1>0, <1>4, CurrentListTyped, AnswerOK DEF ServeList, upstream, ChannelInv
<1>5. CASE OverviewReads
  <2>1. OverviewCall \in Caller /\ ListKey \in Key
    BY ChannelConstants
  <2> QED BY <1>0, <1>5, <2>1, JoinOK, StartLoadOK DEF OverviewReads, upstream, ChannelInv
<1>6. ASSUME NEW f \in flights, ListArrives(f) PROVE ChannelInv'
  BY <1>0, <1>6, ResolveOK DEF ListArrives, upstream, ChannelInv
<1>7. ASSUME NEW f \in flights, ListRequestFails(f) PROVE ChannelInv'
  BY <1>0, <1>7, FailOK DEF ListRequestFails, upstream, ChannelInv
<1>8. CASE DeployAnswered
  BY <1>0, <1>8, InvalidateOK DEF DeployAnswered, ChannelInv
<1>9. ASSUME NEW d \in Deployment, TerminalRead(d) \/ TerminalReadFails(d)
      PROVE  ChannelInv'
  BY <1>0, <1>1, <1>9 DEF TerminalRead, TerminalReadFails, upstream, ChannelInv
<1>10. ASSUME NEW d \in Deployment, Webhook(d) PROVE ChannelInv'
  <2>1. PollerCall \in Caller /\ ListKey \in Key
    BY ChannelConstants
  <2>2. Without(Key) \in [Key -> Entry] /\ \A k \in Key : Filled(Without(Key)[k])
    BY <1>0, WithoutOK
  <2>3. Load(Without(Key), PollerCall, ListKey) \/ Invalidate(Key)
    BY <1>10 DEF Webhook
  <2>4. CacheOK'
    BY <1>0, <2>1, <2>2, <2>3, LoadOK, InvalidateOK
  <2> QED BY <1>0, <1>10, <2>4 DEF Webhook, ChannelInv
<1>11. ASSUME NEW c \in Client, Connect(c) PROVE ChannelInv'
  BY <1>0, <1>11, AskOK DEF Connect, upstream, ChannelInv
<1>12. ASSUME NEW c \in Client, Disconnect(c) PROVE ChannelInv'
  BY <1>0, <1>1, <1>12 DEF Disconnect, upstream, ChannelInv
<1>13. CASE TimerFires
  BY <1>0, <1>13, AskOK DEF TimerFires, upstream, ChannelInv
<1>14. CASE Tick
  BY <1>0, <1>14, CacheTickOK DEF Tick, upstream, ChannelInv
<1>15. CASE UNCHANGED vars
  BY <1>0, <1>1, <1>15 DEF vars, upstream, ChannelInv
<1> QED BY <1>2, <1>3, <1>4, <1>5, <1>6, <1>7, <1>8, <1>9, <1>10, <1>11, <1>12,
           <1>13, <1>14, <1>15 DEF Next

\* Every step of the channel is a step of the loop, or none of its business.
LEMMA NextPollerStep == ChannelInv /\ [Next]_vars => [PollerNext]_pollerVars
<1> SUFFICES ASSUME ChannelInv, [Next]_vars PROVE [PollerNext]_pollerVars
  OBVIOUS
<1>1. ASSUME NEW f \in flights, ListArrives(f) PROVE [PollerNext]_pollerVars
  <2>1. f.reply \in Logs
    BY <1>1, ResolveOK, ChannelConstants DEF ListArrives, ChannelInv
  <2> QED BY <1>1, <2>1 DEF ListArrives, PollerNext
<1>2. ASSUME NEW f \in flights, ListRequestFails(f) PROVE [PollerNext]_pollerVars
  <2>1. f.prev.has => f.prev.val \in Logs
    BY <1>2, FailOK, ChannelConstants DEF ListRequestFails, ChannelInv
  <2> QED BY <1>2, <2>1 DEF ListRequestFails, PollerNext
<1>3. ASSUME NEW d \in Deployment,
             TerminalRead(d) \/ TerminalReadFails(d) \/ Webhook(d)
      PROVE  [PollerNext]_pollerVars
  BY <1>3 DEF TerminalRead, TerminalReadFails, Webhook, PollerNext
<1>4. ASSUME NEW c \in Client, Connect(c) \/ Disconnect(c)
      PROVE  [PollerNext]_pollerVars
  BY <1>4 DEF Connect, Disconnect, PollerNext
<1>5. CASE TimerFires \/ Tick
  BY <1>5 DEF TimerFires, Tick, PollerNext
<1>6. CASE DeployAnswered \/ OverviewReads \/ UNCHANGED vars
  BY <1>6 DEF DeployAnswered, OverviewReads, vars
<1>7. ASSUME NEW f \in flights, ServeList(f) PROVE [PollerNext]_pollerVars
  BY <1>7 DEF ServeList
<1>8. ASSUME NEW d \in Deployment, NEW b \in BOOLEAN,
             Launch(d, b) \/ Grow(d) \/ End(d, b)
      PROVE  [PollerNext]_pollerVars
  BY <1>8 DEF Launch, Grow, End
<1> QED BY <1>1, <1>2, <1>3, <1>4, <1>5, <1>6, <1>7, <1>8 DEF Next

\* The channel implements the loop: whatever the cache answers, and however
\* streams, webhooks and time interleave, the poller only takes Poller's steps.
THEOREM ChannelImplementsPoller == Spec => ImplementsPoller
<1>1. Init => PollerInit
  BY DEF Init
<1>2. Init => ChannelInv
  BY InitCacheOK, PollerConstants DEF Init, ChannelInv
<1> QED BY <1>1, <1>2, NextChannelInv, NextPollerStep, PTL
        DEF Spec, ImplementsPoller, PollerSpec

\* So the live channel never loses its loop nor runs two of them.
COROLLARY ChannelLoopNeverDies == Spec => []LoopAlive
BY ChannelImplementsPoller, LoopNeverDies, PTL DEF ImplementsPoller

-----------------------------------------------------------------------------
(* Type correctness, and with it the cap on the open streams. *)

\* What the poller and the cache leave to the rest: the streams are as many as the
\* route lets in, and Coolify's deployments and webhooks are what they should be.
RestOK ==
    /\ listeners \subseteq Client /\ IsFiniteSet(listeners) /\ Cardinality(listeners) <= MaxClients
    /\ dep \in [Deployment -> {"none", "running", "ended"}]
    /\ hooks \in [Deployment -> 0 .. MaxDeliveries]
    /\ owed \in BOOLEAN

LEMMA NextRestOK == RestOK /\ [Next]_vars => RestOK'
<1> SUFFICES ASSUME RestOK, [Next]_vars PROVE RestOK'
  OBVIOUS
<1>1. ASSUME UNCHANGED <<listeners, dep, hooks, owed>> PROVE RestOK'
  BY <1>1 DEF RestOK
<1>2. ASSUME NEW c \in Client, Connect(c) PROVE RestOK'
  <2>1. listeners' = listeners \cup {c} /\ c \notin listeners /\ Cardinality(listeners) < MaxClients
        /\ UNCHANGED <<dep, hooks, owed>>
    BY <1>2 DEF Connect, Subscribe, upstream
  <2>2. IsFiniteSet(listeners') /\ Cardinality(listeners') = Cardinality(listeners) + 1
        /\ Cardinality(listeners) \in Nat
    BY <2>1, FS_AddElement, FS_CardinalityType DEF RestOK
  <2>3. Cardinality(listeners') <= MaxClients
    BY <2>1, <2>2, HubConstants
  <2> QED BY <2>1, <2>2, <2>3 DEF RestOK
<1>3. ASSUME NEW c \in Client, Disconnect(c) PROVE RestOK'
  <2>1. listeners' = listeners \ {c} /\ c \in listeners /\ UNCHANGED <<dep, hooks, owed>>
    BY <1>3 DEF Disconnect, Unsubscribe, upstream
  <2>2. IsFiniteSet(listeners') /\ Cardinality(listeners') = Cardinality(listeners) - 1
        /\ Cardinality(listeners) \in Nat
    BY <2>1, FS_RemoveElement, FS_CardinalityType DEF RestOK
  <2>3. Cardinality(listeners') <= MaxClients
    BY <2>2, HubConstants DEF RestOK
  <2> QED BY <2>1, <2>2, <2>3 DEF RestOK
<1>4. ASSUME NEW d \in Deployment, NEW b \in BOOLEAN, Launch(d, b) \/ Grow(d) \/ End(d, b)
      PROVE  RestOK'
  <2>1. /\ UNCHANGED listeners
        /\ dep' \in [Deployment -> {"none", "running", "ended"}]
        /\ hooks' \in [Deployment -> 0 .. MaxDeliveries]
    BY <1>4, ChannelConstants DEF Launch, Grow, End, hubVars, RestOK
  <2>2. owed' \in BOOLEAN
    BY <1>4, Zenon DEF Launch, Grow, End, RestOK
  <2> QED BY <2>1, <2>2 DEF RestOK
<1>5. CASE DeployAnswered
  BY <1>5 DEF DeployAnswered, hubVars, RestOK
<1>6. ASSUME NEW d \in Deployment, TerminalRead(d) \/ TerminalReadFails(d)
      PROVE  RestOK'
  BY <1>1, <1>6 DEF TerminalRead, TerminalReadFails, hubVars, upstream
<1>7. ASSUME NEW d \in Deployment, Webhook(d) PROVE RestOK'
  <2>1. hooks' = [hooks EXCEPT ![d] = @ - 1] /\ hooks[d] > 0 /\ UNCHANGED <<listeners, dep, owed>>
    BY <1>7 DEF Webhook
  <2>2. hooks' \in [Deployment -> 0 .. MaxDeliveries]
    BY <2>1, ChannelConstants DEF RestOK
  <2> QED BY <2>1, <2>2 DEF RestOK
<1>8. ASSUME NEW f \in flights, ServeList(f) \/ ListArrives(f) \/ ListRequestFails(f)
      PROVE  RestOK'
  BY <1>1, <1>8 DEF ServeList, ListArrives, ListRequestFails, hubVars, upstream
<1>9. CASE OverviewReads \/ TimerFires \/ UNCHANGED vars
  BY <1>1, <1>9 DEF OverviewReads, TimerFires, vars, hubVars, upstream
<1>10. CASE Tick
  BY <1>1, <1>10 DEF Tick, HubTick, upstream
<1> QED BY <1>2, <1>3, <1>4, <1>5, <1>6, <1>7, <1>8, <1>9, <1>10 DEF Next

\* Everything the live channel keeps has its type, whatever browsers, deployments,
\* webhooks and time do: among it, that the route never lets more streams in than
\* MAX_SSE_SUBSCRIBERS, and that a delay is never beyond the back-off's ceiling.
THEOREM ChannelTypeCorrect == Spec => []TypeOK
<1>1. Init => RestOK
  <2> SUFFICES ASSUME Init PROVE RestOK
    OBVIOUS
  <2>1. listeners = {} /\ IsFiniteSet({}) /\ Cardinality({}) = 0
    BY FS_EmptySet DEF Init, HubInit
  <2>2. Cardinality(listeners) <= MaxClients
    BY <2>1, HubConstants
  <2>3. owed \in BOOLEAN /\ listeners \subseteq Client
    BY <2>1, Zenon DEF Init
  <2>4. /\ dep \in [Deployment -> {"none", "running", "ended"}]
        /\ hooks \in [Deployment -> 0 .. MaxDeliveries]
    BY ChannelConstants DEF Init
  <2> QED BY <2>1, <2>2, <2>3, <2>4 DEF RestOK
<1>2. Init => ChannelInv
  BY InitCacheOK, PollerConstants DEF Init, ChannelInv
<1>3. Init => DedupeClock /\ OncePerWindow
  BY HubConstants, ChannelConstants DEF Init, HubInit, DedupeClock, OncePerWindow
<1>4. Spec => []PollerTypeOK
  BY ChannelImplementsPoller, PollerTypeCorrect, PTL DEF ImplementsPoller
<1>5. RestOK /\ ChannelInv /\ DedupeClock /\ PollerTypeOK => TypeOK
  BY ChannelConstants DEF RestOK, ChannelInv, CacheOK, DedupeClock, TypeOK, HubTypeOK
<1> QED BY <1>1, <1>2, <1>3, <1>4, <1>5, NextRestOK, NextChannelInv, NextOnce, PTL DEF Spec
=============================================================================
