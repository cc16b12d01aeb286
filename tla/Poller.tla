------------------------------- MODULE Poller -------------------------------
(***************************************************************************)
(* The adaptive polling loop, server/poller.ts: a self-rescheduling tick   *)
(* that lists the running deployments, pushes what their logs gained, and  *)
(* asks how a deployment ended once it has left the list.                  *)
(*                                                                         *)
(* A tick is cut where the code awaits: the list (through the cache), then *)
(* the terminal reads.  start, stop and poke may come in between, and none *)
(* of the code after an await looks at `running` except schedule.          *)
(***************************************************************************)
EXTENDS Naturals, FiniteSets

CONSTANTS
    Deployment,   \* deployment uuids
    MaxLog,       \* bound: log lines of a deployment
    IdleDelay,    \* POLL_IDLE_MS
    ActiveDelay,  \* POLL_ACTIVE_MS
    MaxBackoff,   \* POLL_MAX_BACKOFF_MS
    MaxFailures   \* failures are counted up to this, where the delay no longer grows

ASSUME PollerConstants ==
    /\ MaxLog \in Nat
    /\ IdleDelay \in Nat \ {0}
    /\ ActiveDelay \in 1 .. IdleDelay
    /\ MaxBackoff \in Nat
    /\ IdleDelay <= MaxBackoff
    /\ MaxFailures \in Nat \ {0}
    /\ IdleDelay * 2^MaxFailures >= MaxBackoff

VARIABLES
    running,      \* start() was called, stop() not since
    active,       \* the last list was not empty
    armed,        \* a timer is set
    left,         \* time until it fires
    phase,        \* inFlight: "none", or what the tick in flight awaits
    failures,     \* list failures in a row
    reported,     \* reportedFailure: "Live updates paused" was said
    tracked,      \* deployment -> log lines pushed, for those in the last list
    reading,      \* the same, for those whose terminal status is being read
    sawLive       \* the tick in flight listed something

pollerVars == <<running, active, armed, left, phase, failures, reported,
                tracked, reading, sawLive>>

Logs == UNION {[S -> 0 .. MaxLog] : S \in SUBSET Deployment}

NoLogs == [d \in {} |-> 0]

PollerTypeOK ==
    /\ running \in BOOLEAN /\ active \in BOOLEAN /\ armed \in BOOLEAN
    /\ left \in 0 .. MaxBackoff
    /\ phase \in {"none", "list", "terminal"}
    /\ failures \in 0 .. MaxFailures
    /\ reported \in BOOLEAN
    /\ tracked \in Logs /\ reading \in Logs
    /\ sawLive \in BOOLEAN

PollerInit ==
    /\ running = FALSE /\ active = FALSE /\ armed = FALSE
    /\ left = 0
    /\ phase = "none"
    /\ failures = 0
    /\ reported = FALSE
    /\ tracked = NoLogs /\ reading = NoLogs
    /\ sawLive = FALSE

\* Mutant of Delay: the back-off has no ceiling.
DelayUncapped(act, f) ==
    IF f = 0 THEN (IF act THEN ActiveDelay ELSE IdleDelay) ELSE IdleDelay * 2^f

\* schedule's delay.
Delay(act, f) ==
    IF f = 0 THEN (IF act THEN ActiveDelay ELSE IdleDelay)
    ELSE IF IdleDelay * 2^f < MaxBackoff THEN IdleDelay * 2^f ELSE MaxBackoff

\* schedule(), when `active` and `failures` are act and f.
Schedule(act, f) ==
    IF running THEN armed' = TRUE /\ left' = Delay(act, f)
    ELSE UNCHANGED <<armed, left>>

\* run(): a tick starts unless one is in flight; a running one asks for the list.
Run == phase' = IF phase = "none" /\ running' THEN "list" ELSE phase

\* start() of a stopped poller; of a running one it does nothing.
Start ==
    /\ ~running
    /\ running' = TRUE
    /\ failures' = 0
    /\ Run
    /\ UNCHANGED <<active, armed, left, reported, tracked, reading, sawLive>>

\* stop(): a tick in flight goes on.
Stop ==
    /\ running' = FALSE /\ active' = FALSE /\ armed' = FALSE
    /\ tracked' = NoLogs
    /\ left' = 0
    /\ UNCHANGED <<phase, failures, reported, reading, sawLive>>

\* poke() of a running poller; of a stopped one it does nothing.
Poke ==
    /\ running
    /\ armed' = FALSE /\ left' = 0
    /\ UNCHANGED <<running, active, failures, reported, tracked, reading, sawLive>>
    /\ Run

\* The timer fires.
Fire ==
    /\ armed /\ left = 0
    /\ armed' = FALSE
    /\ UNCHANGED <<running, active, left, failures, reported, tracked, reading, sawLive>>
    /\ Run

\* Mutant of Pushed: publishLogs has no early return.
PushedAlways(before, now) == now

\* publishLogs: how much of a log of `now` lines is out, `before` being so far.
\* A log no longer than what is out pushes nothing.
Pushed(before, now) == IF now <= before THEN before ELSE now

TrackedBefore(d) == IF d \in DOMAIN tracked THEN tracked[d] ELSE 0

\* The end of a tick.
EndTick(act, f) ==
    /\ phase' = "none"
    /\ Schedule(act, f)

\* The list arrived: what is new or longer is pushed, and what is missing from it
\* has ended - its terminal status is read, all of them at once.
ListOk(list) ==
    LET gone == DOMAIN tracked \ DOMAIN list
        live == DOMAIN list # {}
    IN
    /\ phase = "list"
    /\ failures' = 0 /\ reported' = FALSE
    /\ tracked' = [d \in DOMAIN list |-> Pushed(TrackedBefore(d), list[d])]
    /\ \/ /\ gone = {}
          /\ active' = live
          /\ EndTick(live, 0)
          /\ UNCHANGED <<running, reading, sawLive>>
       \/ /\ gone # {}
          /\ phase' = "terminal"
          /\ reading' = [d \in gone |-> tracked[d]]
          /\ sawLive' = live
          /\ UNCHANGED <<running, active, armed, left>>

\* Mutant of ListFailed: the catch returns without scheduling.
ListFailedUnscheduled ==
    /\ phase = "list"
    /\ failures' = IF failures < MaxFailures THEN failures + 1 ELSE MaxFailures
    /\ reported' = TRUE
    /\ phase' = "none"
    /\ UNCHANGED <<running, active, armed, left, tracked, reading, sawLive>>

\* The list could not be read, and the cache had none to fall back on.
ListFailed ==
    /\ phase = "list"
    /\ failures' = IF failures < MaxFailures THEN failures + 1 ELSE MaxFailures
    /\ reported' = TRUE
    /\ EndTick(active, failures')
    /\ UNCHANGED <<running, active, tracked, reading, sawLive>>

\* Mutant of Finished: after the last terminal read, nothing schedules the next tick.
FinishedUnscheduled(d) ==
    /\ phase = "terminal"
    /\ d \in DOMAIN reading
    /\ reading' = [e \in DOMAIN reading \ {d} |-> reading[e]]
    /\ \/ /\ DOMAIN reading = {d}
          /\ active' = sawLive
          /\ sawLive' = FALSE
          /\ phase' = "none"
          /\ UNCHANGED <<armed, left>>
       \/ /\ DOMAIN reading # {d}
          /\ UNCHANGED <<active, armed, left, phase, sawLive>>
    /\ UNCHANGED <<running, failures, reported, tracked>>

\* One terminal read is over, answered or not; the last one ends the tick.
Finished(d) ==
    /\ phase = "terminal"
    /\ d \in DOMAIN reading
    /\ reading' = [e \in DOMAIN reading \ {d} |-> reading[e]]
    /\ \/ /\ DOMAIN reading = {d}
          /\ active' = sawLive
          /\ sawLive' = FALSE
          /\ EndTick(sawLive, failures)
       \/ /\ DOMAIN reading # {d}
          /\ UNCHANGED <<active, armed, left, phase, sawLive>>
    /\ UNCHANGED <<running, failures, reported, tracked>>

PollerTick ==
    /\ left' = IF armed /\ left > 0 THEN left - 1 ELSE left
    /\ UNCHANGED <<running, active, armed, phase, failures, reported,
                   tracked, reading, sawLive>>

\* The loop on its own, in any environment: any list, calls in any order.
PollerNext ==
    \/ Start \/ Stop \/ Poke \/ Fire \/ PollerTick
    \/ \E list \in Logs : ListOk(list)
    \/ ListFailed
    \/ \E d \in Deployment : Finished(d)

PollerSpec == PollerInit /\ [][PollerNext]_pollerVars

-----------------------------------------------------------------------------
(* Requirements. *)

\* The loop can neither die nor double: while it runs, either a timer is set or a
\* tick is in flight, never both; once stopped, no timer is left.  A tick is in
\* its second half exactly while terminal reads are out.
LoopAlive ==
    /\ running => (armed <=> phase = "none")
    /\ armed => running
    /\ phase = "terminal" <=> DOMAIN reading # {}

\* stop: "the next start must re-announce the logs of anything still building".
StartsAfresh == [][Start => tracked = NoLogs]_pollerVars

\* No log line is pushed twice to the streams of one run: while a deployment stays
\* in the list, what is out never shrinks - even when an older list is read.
NoLineTwice ==
    [][\A d \in DOMAIN tracked \cap DOMAIN tracked' :
         tracked'[d] >= tracked[d]]_pollerVars
=============================================================================
