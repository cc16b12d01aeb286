----------------------------- MODULE LiveChannel -----------------------------
(***************************************************************************)
(* The BFF's live channel put together: Coolify and its webhooks, the      *)
(* cached list of running deployments that the poller shares with          *)
(* /app/overview, the poller, the hub and the browsers that subscribe.     *)
(* Wiring of server/index.ts.                                              *)
(***************************************************************************)
EXTENDS TtlCache, Poller, EventHub

CONSTANTS
    ListKey,        \* 'deployments:running', the one key modelled here
    PollerCall,     \* the poller's fetch of it, with no TTL
    OverviewCall,   \* /app/overview's fetch of it, with the deployments TTL
    OverviewTtl,
    MaxDeliveries   \* bound: attempts of one webhook, first one included

ASSUME ChannelConstants ==
    /\ Key = {ListKey}
    /\ Caller = {PollerCall, OverviewCall}
    /\ PollerCall # OverviewCall
    /\ Value = Logs
    /\ EventKey = Deployment
    /\ OverviewTtl \in 1 .. MaxAge
    /\ MaxDeliveries \in Nat

VARIABLES
    dep,            \* Deployment -> what it is in Coolify
    log,            \* Deployment -> its log's length there
    hooks,          \* Deployment -> webhook attempts still to be delivered
    owed,           \* a deploy made here whose answer is on its way
    quiet,          \* history: time since the finish was last broadcast, up to Window
    heard           \* history: broadcasts of it with no whole Window between them

upstream == <<dep, log, hooks, owed>>
spoken == <<quiet, heard>>
vars == <<cacheVars, pollerVars, hubVars, upstream, spoken>>

TypeOK ==
    /\ CacheTypeOK /\ PollerTypeOK /\ HubTypeOK
    /\ dep \in [Deployment -> {"none", "running", "ended"}]
    /\ log \in [Deployment -> 0 .. MaxLog]
    /\ hooks \in [Deployment -> 0 .. MaxDeliveries]
    /\ owed \in BOOLEAN
    /\ quiet \in [Deployment -> 0 .. Window]
    /\ heard \in [Deployment -> 0 .. 2]

Init ==
    /\ CacheInit /\ PollerInit /\ HubInit
    /\ dep = [d \in Deployment |-> "none"]
    /\ log = [d \in Deployment |-> 0]
    /\ hooks = [d \in Deployment |-> 0]
    /\ owed = FALSE
    /\ quiet = [d \in Deployment |-> Window]
    /\ heard = [d \in Deployment |-> 0]

-----------------------------------------------------------------------------
(* Coolify. *)

\* A deployment starts: from the dashboard, whose answer is then owed, or elsewhere.
Launch(d, here) ==
    /\ dep[d] = "none"
    /\ ~(here /\ owed)
    /\ dep' = [dep EXCEPT ![d] = "running"]
    /\ owed' = (owed \/ here)
    /\ UNCHANGED <<cacheVars, pollerVars, hubVars, log, hooks, spoken>>

Grow(d) ==
    /\ dep[d] = "running"
    /\ log[d] < MaxLog
    /\ log' = [log EXCEPT ![d] = @ + 1]
    /\ UNCHANGED <<cacheVars, pollerVars, hubVars, dep, hooks, owed, spoken>>

\* It ends; a webhook is sent if the instance has one configured and it can get out.
End(d, sent) ==
    /\ dep[d] = "running"
    /\ dep' = [dep EXCEPT ![d] = "ended"]
    /\ hooks' = IF sent THEN [hooks EXCEPT ![d] = MaxDeliveries] ELSE hooks
    /\ UNCHANGED <<cacheVars, pollerVars, hubVars, log, owed, spoken>>

\* GET /deployments: the queued and running ones, with their logs.
CurrentList == [d \in {e \in Deployment : dep[e] = "running"} |-> log[d]]

ServeList(f) ==
    /\ Answer(f, CurrentList)
    /\ UNCHANGED <<pollerVars, hubVars, upstream, spoken>>

-----------------------------------------------------------------------------
(* The shared list. *)

\* The tick a step of the poller started asks the cache for the list.
AskIfStarted ==
    IF phase = "none" /\ phase' = "list"
    THEN Join(PollerCall, ListKey, 0) \/ StartLoad(PollerCall, ListKey, 0)
    ELSE UNCHANGED cacheVars

OverviewReads ==
    /\ \/ Join(OverviewCall, ListKey, OverviewTtl)
       \/ StartLoad(OverviewCall, ListKey, OverviewTtl)
    /\ UNCHANGED <<pollerVars, hubVars, upstream, spoken>>

PollerAwaits(f) == waits[PollerCall] = f.by

ListArrives(f) ==
    /\ Resolve(f)
    /\ IF PollerAwaits(f) THEN ListOk(f.reply) ELSE UNCHANGED pollerVars
    /\ UNCHANGED <<hubVars, upstream, spoken>>

\* Mutant of ListRequestFails: the rejection escapes the tick.
ListRequestEscapes(f) ==
    /\ Fail(f)
    /\ IF ~PollerAwaits(f) THEN UNCHANGED pollerVars
       ELSE IF f.prev.has THEN ListOk(f.prev.val)
       ELSE /\ phase' = "none"
            /\ UNCHANGED <<running, active, armed, left, failures, reported,
                           tracked, reading, sawLive>>
    /\ UNCHANGED <<hubVars, upstream, spoken>>

\* The poller takes `.value` of what fetch returns, stale or not.
ListRequestFails(f) ==
    /\ Fail(f)
    /\ IF ~PollerAwaits(f) THEN UNCHANGED pollerVars
       ELSE IF f.prev.has THEN ListOk(f.prev.val) ELSE ListFailed
    /\ UNCHANGED <<hubVars, upstream, spoken>>

\* The answer to a deploy made here: actions.ts drops the 'deployments' family.
DeployAnswered ==
    /\ owed
    /\ owed' = FALSE
    /\ Invalidate(Key)
    /\ UNCHANGED <<pollerVars, hubVars, dep, log, hooks, spoken>>

-----------------------------------------------------------------------------
(* Announcing. *)

\* hub.publish of "d finished".
Announce(d) ==
    /\ Remember(d)
    /\ IF IsNew(d)
       THEN /\ quiet' = [quiet EXCEPT ![d] = 0]
            /\ heard' = [heard EXCEPT ![d] = IF quiet[d] = Window THEN 1 ELSE 2]
       ELSE UNCHANGED spoken

\* The terminal read is answered with what the deployment is then ...
TerminalRead(d) ==
    /\ Finished(d)
    /\ Announce(d)
    /\ UNCHANGED <<cacheVars, listeners, upstream>>

\* ... or fails, and nothing says how the deployment ended.
TerminalReadFails(d) ==
    /\ Finished(d)
    /\ UNCHANGED <<cacheVars, hubVars, upstream, spoken>>

\* deployment_success or deployment_failed is delivered: drop the family, announce,
\* and poke the poller unless this was a repeat.
Webhook(d) ==
    /\ hooks[d] > 0
    /\ hooks' = [hooks EXCEPT ![d] = @ - 1]
    /\ Announce(d)
    /\ IF IsNew(d) /\ running THEN Poke ELSE UNCHANGED pollerVars
    /\ IF phase = "none" /\ phase' = "list"
       THEN Load(Without(Key), PollerCall, ListKey)
       ELSE Invalidate(Key)
    /\ UNCHANGED <<listeners, dep, log, owed>>

-----------------------------------------------------------------------------
(* Browsers and time. *)

\* A stream opens; the first one starts the poller.
Connect(c) ==
    /\ Subscribe(c)
    /\ IF listeners = {} THEN Start ELSE UNCHANGED pollerVars
    /\ AskIfStarted
    /\ UNCHANGED <<upstream, spoken>>

\* Mutant of Disconnect: every stream that closes stops the poller.
DisconnectStops(c) ==
    /\ Unsubscribe(c)
    /\ Stop
    /\ UNCHANGED <<cacheVars, upstream, spoken>>

\* A stream closes; the last one stops the poller.
Disconnect(c) ==
    /\ Unsubscribe(c)
    /\ IF listeners = {c} THEN Stop ELSE UNCHANGED pollerVars
    /\ UNCHANGED <<cacheVars, upstream, spoken>>

TimerFires ==
    /\ Fire
    /\ AskIfStarted
    /\ UNCHANGED <<hubVars, upstream, spoken>>

Tick ==
    /\ CacheTick /\ PollerTick /\ HubTick
    /\ quiet' = [d \in Deployment |-> IF quiet[d] < Window THEN quiet[d] + 1 ELSE Window]
    /\ UNCHANGED <<upstream, heard>>

Next ==
    \/ \E d \in Deployment, here \in BOOLEAN : Launch(d, here)
    \/ \E d \in Deployment : Grow(d)
    \/ \E d \in Deployment, sent \in BOOLEAN : End(d, sent)
    \/ \E f \in flights : ServeList(f)
    \/ OverviewReads
    \/ \E f \in flights : ListArrives(f)
    \/ \E f \in flights : ListRequestFails(f)
    \/ DeployAnswered
    \/ \E d \in Deployment : TerminalRead(d)
    \/ \E d \in Deployment : TerminalReadFails(d)
    \/ \E d \in Deployment : Webhook(d)
    \/ \E c \in Client : Connect(c)
    \/ \E c \in Client : Disconnect(c)
    \/ TimerFires
    \/ Tick

\* Timers fire, requests settle, and Coolify answers the poller's list infinitely
\* often if it is asked infinitely often.
ListServed == \E f \in flights : PollerAwaits(f) /\ ServeList(f)
ListAnswered == \E f \in flights : PollerAwaits(f) /\ ListArrives(f)
ListSettled == \E f \in flights : ListArrives(f) \/ ListRequestFails(f)

Fairness ==
    /\ WF_vars(Tick)
    /\ WF_vars(TimerFires)
    /\ WF_vars(ListSettled)
    /\ SF_vars(ListServed) /\ SF_vars(ListAnswered)
    /\ \A d \in Deployment : WF_vars(TerminalRead(d) \/ TerminalReadFails(d))

Spec == Init /\ [][Next]_vars /\ Fairness

-----------------------------------------------------------------------------
(* Requirements. *)

\* "It stops when nobody is watching": the poller runs exactly while a stream is
\* open, whatever order streams open and close in and whatever is in flight.
WatchedIffRunning == running <=> listeners # {}

\* "The end of a deployment is announced once": the webhook, its retries and the
\* poller's own discovery make one broadcast per dedupe window.
OncePerWindow == \A d \in Deployment : heard[d] <= 1

\* The loop, put into its environment, is still the loop Poller describes.
ImplementsPoller == PollerSpec

\* A deployment that ends while somebody watches leaves the poller's books.
EndIsNoticed ==
    \A d \in Deployment :
        (dep[d] = "ended" /\ d \in DOMAIN tracked)
            ~> (d \notin DOMAIN tracked \/ ~running)

\* docs/api.md: "`state` is never `running`" - what is broadcast as finished has
\* ended.
FinishedIsTerminal ==
    [][\A d \in Deployment :
         (quiet[d] # 0 /\ quiet'[d] = 0) => dep[d] = "ended"]_vars

\* "Back off while upstream is failing": a list request of the poller that fails
\* lengthens the delay to the next.
BacksOff ==
    [][\A f \in flights :
         (ListRequestFails(f) /\ f.reply = NoValue /\ PollerAwaits(f))
            => failures' > 0]_vars
=============================================================================
