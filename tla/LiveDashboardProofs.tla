------------------------- MODULE LiveDashboardProofs -------------------------
(***************************************************************************)
(* Proofs about the dashboard's hook, for any environments, deployments    *)
(* and bounds: refetches never overlap nor get lost, the screen shows what *)
(* was asked for last, and it never goes back in time.                     *)
(***************************************************************************)
EXTENDS LiveDashboard, FiniteSetTheorems, TLAPS

\* The groups of variables are abbreviations.
USE DEF page, loads, screen, hook, user, upstream

-----------------------------------------------------------------------------
(* Types. *)

WaitersTyped(w) == w \in UNION {[D -> Waiter] : D \in SUBSET Deployment}

\* What a restriction of the waiters leaves is waiters.
LEMMA WaitersRestricted ==
  ASSUME WaitersTyped(waiters), NEW S \in SUBSET DOMAIN waiters
  PROVE  WaitersTyped([d \in S |-> waiters[d]])
<1>1. PICK D \in SUBSET Deployment : waiters \in [D -> Waiter]
  BY DEF WaitersTyped
<1>2. S \in SUBSET Deployment /\ [d \in S |-> waiters[d]] \in [S -> Waiter]
  BY <1>1
<1> QED BY <1>2 DEF WaitersTyped

\* So is what a payload leaves of them.
LEMMA SettledTyped ==
  ASSUME WaitersTyped(waiters), NEW running PROVE WaitersTyped(Settled(running))
<1> DEFINE S == {e \in DOMAIN waiters : ~Over(e, running)}
<1>1. PICK D \in SUBSET Deployment : waiters \in [D -> Waiter]
  BY DEF WaitersTyped
<1>2. [sawRunning |-> TRUE, due |-> FALSE] \in Waiter
  BY DEF Waiter
<1>3. \A d \in S : waiters[d] \in Waiter
  BY <1>1
<1>4. S \in SUBSET Deployment /\ Settled(running) \in [S -> Waiter]
  BY <1>1, <1>2, <1>3 DEF Settled
<1> QED BY <1>4 DEF WaitersTyped

\* And the waiters with one more, or with one overdue.
LEMMA WaiterAdded ==
  ASSUME WaitersTyped(waiters), NEW d \in Deployment
  PROVE  WaitersTyped([e \in DOMAIN waiters \cup {d} |->
                         IF e \in DOMAIN waiters THEN waiters[e]
                         ELSE [sawRunning |-> FALSE, due |-> FALSE]])
<1> DEFINE S == DOMAIN waiters \cup {d}
           w == [e \in S |-> IF e \in DOMAIN waiters THEN waiters[e]
                             ELSE [sawRunning |-> FALSE, due |-> FALSE]]
<1>1. PICK D \in SUBSET Deployment : waiters \in [D -> Waiter]
  BY DEF WaitersTyped
<1>2. [sawRunning |-> FALSE, due |-> FALSE] \in Waiter
  BY DEF Waiter
<1>3. S \in SUBSET Deployment /\ w \in [S -> Waiter]
  BY <1>1, <1>2
<1> QED BY <1>3 DEF WaitersTyped

LEMMA WaiterOverdue ==
  ASSUME WaitersTyped(waiters), NEW d \in DOMAIN waiters
  PROVE  WaitersTyped([waiters EXCEPT ![d].due = TRUE])
<1>1. PICK D \in SUBSET Deployment : waiters \in [D -> Waiter]
  BY DEF WaitersTyped
<1>2. [waiters[d] EXCEPT !.due = TRUE] \in Waiter
  BY <1>1 DEF Waiter
<1>3. [waiters EXCEPT ![d].due = TRUE] \in [D -> Waiter]
  BY <1>1, <1>2
<1> QED BY <1>3 DEF WaitersTyped

\* No waiters at all are waiters.
LEMMA NoWaiters == WaitersTyped([d \in {} |-> {}])
<1>1. [d \in {} |-> {}] \in [{} -> Waiter]
  OBVIOUS
<1> QED BY <1>1 DEF WaitersTyped

LEMMA AskingTyped == ASSUME NEW env \in Env \cup {NoEnv} PROVE Asking(env) \in Request
BY DEF Asking, Request

\* What load() and its finally do to the requests keeps their types.
LEMMA LoadTyped ==
  ASSUME TypeOK, NEW env \in Env \cup {NoEnv}, Load(env)
  PROVE  /\ requests' \subseteq Request
         /\ fetching' \in BOOLEAN /\ refetchQueued' \in BOOLEAN
<1>1. /\ requests \subseteq Request /\ Asking(env) \in Request
      /\ fetching \in BOOLEAN /\ refetchQueued \in BOOLEAN
  BY AskingTyped DEF TypeOK
<1>2. CASE fetching
  BY <1>1, <1>2, Zenon DEF Load
<1>3. CASE ~fetching
  <2>1. /\ fetching' = TRUE /\ refetchQueued' = refetchQueued
        /\ requests' = requests \cup {Asking(env)}
    BY <1>3 DEF Load
  <2> QED BY <1>1, <2>1, Zenon
<1> QED BY <1>2, <1>3

LEMMA FinallyTyped ==
  ASSUME TypeOK, NEW r, NEW queued \in BOOLEAN, Finally(r, queued)
  PROVE  /\ requests' \subseteq Request
         /\ fetching' \in BOOLEAN /\ refetchQueued' \in BOOLEAN
<1>1. Asking(environment) \in Request /\ requests \subseteq Request
  BY AskingTyped DEF TypeOK
<1>2. CASE queued /\ mounted
  <2>1. /\ fetching' = TRUE /\ refetchQueued' = FALSE
        /\ requests' = (requests \ {r}) \cup {Asking(environment)}
    BY <1>2 DEF Finally
  <2> QED BY <1>1, <2>1, Zenon
<1>3. CASE ~(queued /\ mounted)
  <2>1. /\ fetching' = FALSE /\ refetchQueued' = queued
        /\ requests' = requests \ {r}
    BY <1>3 DEF Finally
  <2> QED BY <1>1, <2>1, Zenon
<1> QED BY <1>2, <1>3

\* The answer of a well-typed request is a well-typed answer.
LEMMA ServedTyped ==
  ASSUME TypeOK, NEW r \in requests, NEW whole \in BOOLEAN, Serve(r, whole)
  PROVE  requests' \subseteq Request
<1> DEFINE env == IF r.env = NoEnv THEN DefaultEnv ELSE r.env
           here == {d \in Deployment : dep[d] = "running" /\ HomeOf[d] = env}
           reply == [env |-> env, ver |-> version, whole |-> whole,
                     running |-> IF whole THEN here ELSE {}]
<1>1. r \in Request /\ version \in Version
  BY DEF TypeOK
<1>2. env \in Env
  BY <1>1, DashboardConstants DEF Request
<1>3. reply \in Payload
  BY <1>1, <1>2 DEF Payload
<1>4. [r EXCEPT !.reply = reply] \in Request
  BY <1>1, <1>3 DEF Request
<1>5. requests' = (requests \ {r}) \cup {[r EXCEPT !.reply = reply]}
  BY DEF Serve
<1> HIDE DEF reply
<1> QED BY <1>4, <1>5 DEF TypeOK

LEMMA InitTypeOK == Init => TypeOK
<1> SUFFICES ASSUME Init PROVE TypeOK
  OBVIOUS
<1>1. waiters \in UNION {[D -> Waiter] : D \in SUBSET Deployment}
  BY NoWaiters DEF Init, WaitersTyped
<1>2. requests \subseteq Request
  BY AskingTyped DEF Init
<1>3. version \in Version /\ pushed \in Version /\ switches \in 0 .. MaxSwitches
  BY DashboardConstants DEF Init, Version
<1>4. dep \in [Deployment -> {"none", "running", "ended"}]
  BY DEF Init
<1> QED BY <1>1, <1>2, <1>3, <1>4, Zenon DEF Init, TypeOK

\* Requests that settle.
LEMMA SettlingTyped ==
  ASSUME TypeOK, NEW r \in requests, Arrives(r) \/ Fails(r)
  PROVE  TypeOK'
<1>1. r \in Request /\ WaitersTyped(waiters)
  BY DEF TypeOK, WaitersTyped
<1>2. CASE Fails(r)
  <2>1. (error \/ Current(r)) \in BOOLEAN
    BY DEF TypeOK, Current
  <2>2. /\ requests' \subseteq Request
        /\ fetching' \in BOOLEAN /\ refetchQueued' \in BOOLEAN
    BY <1>2, FinallyTyped DEF Fails, TypeOK
  <2> QED BY <1>2, <2>1, <2>2, Zenon DEF Fails, TypeOK
<1>3. CASE Arrives(r) /\ Current(r)
  <2>1. /\ data' = r.reply /\ error' = FALSE
        /\ waiters' = Settled(r.reply.running)
        /\ Finally(r, refetchQueued) /\ r.reply # NoData
    BY <1>3 DEF Arrives
  <2>2. /\ requests' \subseteq Request
        /\ fetching' \in BOOLEAN /\ refetchQueued' \in BOOLEAN
    BY <2>1, FinallyTyped DEF TypeOK
  <2>3. data' \in Payload \cup {NoData}
    BY <1>1, <2>1 DEF Request
  <2>4. WaitersTyped(waiters')
    BY <1>1, <2>1, SettledTyped
  <2> QED BY <1>3, <2>1, <2>2, <2>3, <2>4, Zenon
          DEF Arrives, TypeOK, WaitersTyped
<1>4. CASE Arrives(r) /\ ~Current(r)
  <2>1. Finally(r, refetchQueued \/ mounted) /\ UNCHANGED <<data, error, waiters>>
    BY <1>4 DEF Arrives
  <2>2. (refetchQueued \/ mounted) \in BOOLEAN
    BY DEF TypeOK
  <2>3. /\ requests' \subseteq Request
        /\ fetching' \in BOOLEAN /\ refetchQueued' \in BOOLEAN
    BY <2>1, <2>2, FinallyTyped
  <2> QED BY <1>4, <2>1, <2>3, Zenon DEF Arrives, TypeOK
<1> QED BY <1>2, <1>3, <1>4

\* Pushes, timers and cleanups.
LEMMA EventsTyped ==
  ASSUME TypeOK,
         \/ Hello \/ Offline \/ OverviewChanged \/ Unmount
         \/ \E d \in Deployment : DeploymentFinished(d) \/ Expires(d)
  PROVE  TypeOK'
<1>1. WaitersTyped(waiters)
  BY DEF TypeOK, WaitersTyped
<1>2. CASE Hello
  BY <1>2, Zenon DEF Hello, ScheduleReload, TypeOK
<1>3. CASE Offline
  BY <1>3, Zenon DEF Offline, TypeOK
<1>4. CASE OverviewChanged
  BY <1>4, Zenon DEF OverviewChanged, ScheduleReload, TypeOK
<1>5. CASE Unmount
  <2>1. WaitersTyped(waiters')
    BY <1>5, NoWaiters DEF Unmount
  <2> QED BY <1>5, <2>1, Zenon DEF Unmount, TypeOK, WaitersTyped
<1>6. ASSUME NEW d \in Deployment, DeploymentFinished(d) PROVE TypeOK'
  <2>1. waiters' = [e \in DOMAIN waiters \ {d} |-> waiters[e]]
    BY <1>6 DEF DeploymentFinished
  <2>2. WaitersTyped(waiters')
    BY <1>1, <2>1, WaitersRestricted
  <2> QED BY <1>6, <2>2, Zenon DEF DeploymentFinished, ScheduleReload, TypeOK, WaitersTyped
<1>7. ASSUME NEW d \in Deployment, Expires(d) PROVE TypeOK'
  <2>1. WaitersTyped(waiters')
    BY <1>1, <1>7, WaiterOverdue DEF Expires
  <2> QED BY <1>7, <2>1, Zenon DEF Expires, TypeOK, WaitersTyped
<1> QED BY <1>2, <1>3, <1>4, <1>5, <1>6, <1>7

\* Everything that loads.
LEMMA LoadsTyped ==
  ASSUME TypeOK,
         \/ CoalesceFires \/ PollFires \/ Reload
         \/ \E env \in Env : SetEnvironment(env)
         \/ \E d \in Deployment : DeployAnswered(d)
  PROVE  TypeOK'
<1>0. environment \in Env \cup {NoEnv}
  BY DEF TypeOK
<1> DEFINE Loaded == /\ requests' \subseteq Request
                     /\ fetching' \in BOOLEAN /\ refetchQueued' \in BOOLEAN
<1>1. CASE CoalesceFires
  <2>1. Loaded
    BY <1>0, <1>1, LoadTyped DEF CoalesceFires
  <2> QED BY <1>1, <2>1, Zenon DEF CoalesceFires, TypeOK
<1>2. CASE PollFires
  <2>1. Loaded
    BY <1>0, <1>2, LoadTyped DEF PollFires
  <2> QED BY <1>2, <2>1, Zenon DEF PollFires, TypeOK
<1>3. CASE Reload
  <2>1. Loaded
    BY <1>0, <1>3, LoadTyped DEF Reload
  <2> QED BY <1>3, <2>1, Zenon DEF Reload, TypeOK
<1>4. ASSUME NEW env \in Env, SetEnvironment(env) PROVE TypeOK'
  <2>1. Loaded
    BY <1>4, LoadTyped DEF SetEnvironment
  <2>2. switches' \in 0 .. MaxSwitches
    BY <1>4, DashboardConstants DEF SetEnvironment, TypeOK
  <2> QED BY <1>4, <2>1, <2>2, Zenon DEF SetEnvironment, TypeOK
<1>5. ASSUME NEW d \in Deployment, DeployAnswered(d) PROVE TypeOK'
  <2>1. Loaded
    BY <1>0, <1>5, LoadTyped DEF DeployAnswered
  <2>2. WaitersTyped(waiters)
    BY DEF TypeOK, WaitersTyped
  <2>3. WaitersTyped(waiters')
    BY <1>5, <2>2, WaiterAdded DEF DeployAnswered
  <2>4. asked' \subseteq Deployment
    BY <1>5 DEF DeployAnswered, TypeOK
  <2> QED BY <1>5, <2>1, <2>3, <2>4, Zenon DEF DeployAnswered, TypeOK, WaitersTyped
<1> QED BY <1>1, <1>2, <1>3, <1>4, <1>5

\* What happens in Coolify.
LEMMA UpstreamTyped ==
  ASSUME TypeOK, Changes \/ \E d \in Deployment : Deploy(d) \/ Ends(d)
  PROVE  TypeOK'
<1>1. version' \in Version
  BY DashboardConstants DEF TypeOK, Version, Changes, Deploy, Ends
<1>2. dep' \in [Deployment -> {"none", "running", "ended"}]
  BY DEF TypeOK, Changes, Deploy, Ends
<1>3. asked' \subseteq Deployment
  BY DEF TypeOK, Changes, Deploy, Ends
<1>4. UNCHANGED <<hook, switches, pushed>>
  BY DEF Changes, Deploy, Ends
<1> QED BY <1>1, <1>2, <1>3, <1>4, Zenon DEF TypeOK

LEMMA NextTypeOK == TypeOK /\ [Next]_vars => TypeOK'
<1> SUFFICES ASSUME TypeOK, [Next]_vars PROVE TypeOK'
  OBVIOUS
<1>1. CASE UNCHANGED vars
  BY <1>1, Zenon DEF vars, TypeOK
<1>2. ASSUME NEW r \in requests, NEW whole \in BOOLEAN, Serve(r, whole) PROVE TypeOK'
  <2>1. requests' \subseteq Request
    BY <1>2, ServedTyped
  <2> QED BY <1>2, <2>1, Zenon DEF Serve, TypeOK
<1> QED BY <1>1, <1>2, SettlingTyped, EventsTyped, LoadsTyped, UpstreamTyped DEF Next

\* Every variable of the hook keeps its type, and an unmounted hook keeps neither a
\* timer nor the stream.
THEOREM TypeCorrect == Spec => []TypeOK
BY InitTypeOK, NextTypeOK, PTL DEF Spec

-----------------------------------------------------------------------------
(* The requests and the screen. *)

\* No request, or one: what NeverOverlap counts.
OneRequest == requests = {} \/ \E r : requests = {r}

Loading ==
    /\ OneRequest
    /\ fetching \in BOOLEAN
    /\ fetching <=> requests # {}
    /\ (refetchQueued /\ mounted) => fetching

\* An answer is about the environment of its request, and no older than the screen.
Answers ==
    /\ version \in Nat
    /\ data # NoData => data.ver \in Nat /\ data.ver <= version
    /\ \A r \in requests : r.reply # NoData =>
         /\ r.reply.env = (IF r.env = NoEnv THEN DefaultEnv ELSE r.env)
         /\ r.reply.ver \in Nat /\ r.reply.ver <= version
         /\ data # NoData => data.ver <= r.reply.ver

HInv == Loading /\ Answers

\* A request just made has no answer.
LEMMA AskingPlain == ASSUME NEW env PROVE Asking(env).reply = NoData
BY DEF Asking

\* load() makes a request only when none is out.
LEMMA LoadKeeps ==
  ASSUME HInv, NEW env, Load(env), UNCHANGED <<mounted, data, version>>
  PROVE  HInv'
<1>1. CASE fetching
  BY <1>1 DEF HInv, Loading, OneRequest, Answers, Load
<1>2. CASE ~fetching
  <2>1. requests = {} /\ requests' = {Asking(env)} /\ fetching' = TRUE
    BY <1>2 DEF HInv, Loading, Load
  <2>2. Loading'
    BY <2>1 DEF Loading, OneRequest
  <2>3. Answers'
    BY <2>1, AskingPlain DEF HInv, Answers
  <2> QED BY <2>2, <2>3 DEF HInv
<1> QED BY <1>1, <1>2

\* load()'s finally leaves at most one request, with no answer yet, and nothing
\* owed to a mounted hook that is not on its way.
LEMMA FinallyKeeps ==
  ASSUME Loading, NEW r \in requests, NEW queued, refetchQueued => queued,
         Finally(r, queued), UNCHANGED mounted
  PROVE  Loading' /\ \A s \in requests' : s.reply = NoData
<1>1. requests \ {r} = {}
  BY DEF Loading, OneRequest
<1>2. CASE queued /\ mounted
  <2>1. requests' = {Asking(environment)} /\ fetching' = TRUE
    BY <1>1, <1>2 DEF Finally
  <2> QED BY <2>1, AskingPlain DEF Loading, OneRequest
<1>3. CASE ~(queued /\ mounted)
  <2>1. requests' = {} /\ fetching' = FALSE /\ refetchQueued' = queued
    BY <1>1, <1>3 DEF Finally
  <2> QED BY <1>3, <2>1 DEF Loading, OneRequest
<1> QED BY <1>2, <1>3

LEMMA InitHInv == Init => HInv
<1> SUFFICES ASSUME Init PROVE HInv
  OBVIOUS
<1>1. Loading
  BY DEF Init, Loading, OneRequest
<1>2. Answers
  BY AskingPlain DEF Init, Answers
<1> QED BY <1>1, <1>2 DEF HInv

LEMMA ServeKeeps ==
  ASSUME TypeOK, HInv, NEW r \in requests, NEW whole \in BOOLEAN, Serve(r, whole)
  PROVE  HInv'
<1> DEFINE env == IF r.env = NoEnv THEN DefaultEnv ELSE r.env
<1>1. PICK s : /\ requests' = (requests \ {r}) \cup {s}
               /\ s.env = r.env /\ s.reply.env = env /\ s.reply.ver = version
  <2> DEFINE here == {d \in Deployment : dep[d] = "running" /\ HomeOf[d] = env}
             reply == [env |-> env, ver |-> version, whole |-> whole,
                       running |-> IF whole THEN here ELSE {}]
             s == [r EXCEPT !.reply = reply]
  <2>1. requests' = (requests \ {r}) \cup {s}
    BY DEF Serve
  <2>2. r \in Request
    BY DEF TypeOK
  <2>3. s.env = r.env /\ s.reply = reply
    BY <2>2 DEF Request
  <2>4. reply.env = env /\ reply.ver = version
    OBVIOUS
  <2> HIDE DEF reply, s
  <2> QED BY <2>1, <2>3, <2>4
<1>2. requests' = {s}
  BY <1>1 DEF HInv, Loading, OneRequest
<1>3. UNCHANGED <<mounted, fetching, refetchQueued, data, version>>
  BY DEF Serve
<1>4. Loading'
  BY <1>2, <1>3 DEF HInv, Loading, OneRequest
<1>5. Answers'
  BY <1>1, <1>2, <1>3 DEF HInv, Answers
<1> QED BY <1>4, <1>5 DEF HInv

\* An answer or a failure: the screen moves to an answer no older than itself.
LEMMA SettlingKeeps ==
  ASSUME HInv, NEW r \in requests, Arrives(r) \/ Fails(r)
  PROVE  HInv'
<1>1. UNCHANGED <<mounted, version>>
  BY DEF Arrives, Fails
<1>2. PICK queued : (refetchQueued => queued) /\ Finally(r, queued)
  BY DEF Arrives, Fails
<1>3. Loading' /\ \A s \in requests' : s.reply = NoData
  BY <1>1, <1>2, FinallyKeeps DEF HInv
<1>4. data' = data \/ (r.reply # NoData /\ data' = r.reply)
  BY DEF Arrives, Fails
<1>5. Answers'
  BY <1>1, <1>3, <1>4 DEF HInv, Answers
<1> QED BY <1>3, <1>5 DEF HInv

LEMMA NextHInv == TypeOK /\ HInv /\ [Next]_vars => HInv'
<1> SUFFICES ASSUME TypeOK, HInv, [Next]_vars PROVE HInv'
  OBVIOUS
<1>1. ASSUME NEW r \in requests, NEW whole \in BOOLEAN, Serve(r, whole) PROVE HInv'
  BY <1>1, ServeKeeps
<1>2. ASSUME NEW r \in requests, Arrives(r) \/ Fails(r) PROVE HInv'
  BY <1>2, SettlingKeeps
<1>3. ASSUME CoalesceFires \/ PollFires \/ Reload PROVE HInv'
  BY <1>3, LoadKeeps DEF CoalesceFires, PollFires, Reload
<1>4. ASSUME NEW env \in Env, SetEnvironment(env) PROVE HInv'
  BY <1>4, LoadKeeps DEF SetEnvironment
<1>5. ASSUME NEW d \in Deployment, DeployAnswered(d) PROVE HInv'
  BY <1>5, LoadKeeps DEF DeployAnswered
<1>6. ASSUME UNCHANGED <<fetching, requests, refetchQueued, data, version>>,
             mounted' => mounted
      PROVE  HInv'
  BY <1>6 DEF HInv, Loading, OneRequest, Answers
<1>7. CASE Hello \/ Offline \/ OverviewChanged \/ Unmount
  BY <1>6, <1>7 DEF Hello, Offline, OverviewChanged, Unmount
<1>8. ASSUME NEW d \in Deployment, DeploymentFinished(d) \/ Expires(d) PROVE HInv'
  BY <1>6, <1>8 DEF DeploymentFinished, Expires
<1>9. ASSUME Changes \/ \E d \in Deployment : Deploy(d) \/ Ends(d) PROVE HInv'
  <2>1. version' = version + 1
    BY <1>9 DEF Changes, Deploy, Ends
  <2>2. UNCHANGED hook
    BY <1>9 DEF Changes, Deploy, Ends
  <2>3. Loading'
    BY <2>2 DEF HInv, Loading, OneRequest
  <2>4. Answers'
    BY <2>1, <2>2 DEF HInv, Answers
  <2> QED BY <2>3, <2>4 DEF HInv
<1>10. CASE UNCHANGED vars
  BY <1>6, <1>10 DEF vars
<1> QED BY <1>1, <1>2, <1>3, <1>4, <1>5, <1>7, <1>8, <1>9, <1>10 DEF Next

\* useLiveDashboard.ts: "Refetches are coalesced and never overlap", and the one a
\* push asked for during another is never forgotten.
THEOREM RefetchesNeverOverlap == Spec => []NeverOverlap
<1>1. HInv => NeverOverlap
  <2> SUFFICES ASSUME HInv PROVE NeverOverlap
    OBVIOUS
  <2>1. Cardinality(requests) <= 1
    <3>1. CASE requests = {}
      <4>1. Cardinality(requests) = 0
        BY <3>1, FS_EmptySet
      <4> QED BY <4>1
    <3>2. ASSUME NEW r, requests = {r} PROVE Cardinality(requests) <= 1
      <4>1. Cardinality(requests) = 1
        BY <3>2, FS_Singleton
      <4> QED BY <4>1
    <3> QED BY <3>1, <3>2 DEF HInv, Loading, OneRequest
  <2> QED BY <2>1 DEF HInv, Loading, NeverOverlap
<1> QED BY <1>1, InitHInv, NextHInv, TypeCorrect, PTL DEF Spec

\* A step that changes the screen is the arrival of an answer.
LEMMA ScreenStep ==
  ASSUME [Next]_vars, data' # data
  PROVE  \E r \in requests : Arrives(r) /\ Current(r) /\ data' = r.reply
<1>1. ASSUME NEW r \in requests, Arrives(r)
      PROVE  \E s \in requests : Arrives(s) /\ Current(s) /\ data' = s.reply
  BY <1>1 DEF Arrives
<1> QED
  BY <1>1 DEF Next, vars, hook, Serve, Fails, Hello, Offline, OverviewChanged,
     DeploymentFinished, CoalesceFires, PollFires, Expires, SetEnvironment, Reload,
     Deploy, DeployAnswered, Unmount, Ends, Changes

\* The screen of an environment never goes back in time, whatever order pushes,
\* polls, clicks and environment changes come in.
THEOREM ScreenMovesForwards == Spec => ShownForwards
<1>1. HInv /\ [Next]_vars =>
        [(data # NoData /\ data' # NoData /\ data.env = data'.env)
           => data'.ver >= data.ver]_vars
  <2> SUFFICES ASSUME HInv, [Next]_vars, data # NoData, data' # NoData
               PROVE  data'.ver >= data.ver
    OBVIOUS
  <2>1. CASE data' = data
    BY <2>1 DEF HInv, Answers
  <2>2. CASE data' # data
    BY <2>2, ScreenStep DEF HInv, Answers, Arrives
  <2> QED BY <2>1, <2>2
<1> QED BY <1>1, InitHInv, NextHInv, TypeCorrect, PTL DEF Spec, ShownForwards

\* An error that appears is about a request for the environment still asked for.
LEMMA ErrorStep ==
  ASSUME TypeOK, [Next]_vars, error', ~error
  PROVE  \E r \in requests : r.env = environment
<1>1. ASSUME NEW r \in requests, Fails(r) PROVE r.env = environment
  BY <1>1 DEF Fails, Current
<1> QED
  BY <1>1, Zenon DEF Next, vars, hook, Serve, Arrives, Hello, Offline, OverviewChanged,
     DeploymentFinished, CoalesceFires, PollFires, Expires, SetEnvironment, Reload,
     Deploy, DeployAnswered, Unmount, Ends, Changes

\* Only the environment asked for last reaches the screen, however late the answers
\* of the others come.
THEOREM ScreenIsWhatWasAsked == Spec => OnlyWhatIsAskedFor
<1> DEFINE Asked ==
      /\ data' # data => /\ mounted
                         /\ data'.env = (IF environment = NoEnv THEN DefaultEnv
                                         ELSE environment)
      /\ (error' /\ ~error) => \E r \in requests : r.env = environment
<1>1. TypeOK /\ HInv /\ [Next]_vars => [Asked]_vars
  <2> SUFFICES ASSUME TypeOK, HInv, [Next]_vars PROVE Asked
    OBVIOUS
  <2>1. ASSUME data' # data
        PROVE  /\ mounted
               /\ data'.env = (IF environment = NoEnv THEN DefaultEnv ELSE environment)
    BY <2>1, ScreenStep DEF HInv, Answers, Arrives, Current
  <2> QED BY <2>1, ErrorStep
<1> QED BY <1>1, InitHInv, NextHInv, TypeCorrect, PTL DEF Spec, OnlyWhatIsAskedFor
-----------------------------------------------------------------------------
(* The pending buttons. *)

\* A build that was seen was started, and an answer on its way that covers one seen
\* before and still running lists it: it was asked after the answer that showed it.
Seen(d) == waiters[d].sawRunning => dep[d] # "none"

Covers(r, d) ==
    r.reply # NoData =>
      /\ d \in r.reply.running => dep[d] # "none"
      /\ ( /\ d \in DOMAIN waiters /\ waiters[d].sawRunning /\ dep[d] = "running"
           /\ r.reply.whole /\ r.reply.env = HomeOf[d] ) => d \in r.reply.running

Sightings ==
    /\ DOMAIN waiters \subseteq Deployment
    /\ \A d \in DOMAIN waiters : Seen(d)
    /\ \A r \in requests, d \in Deployment : Covers(r, d)

\* Steps that bring no answer, show no build and only move a build forwards.
LEMMA SightingsKept ==
  ASSUME Sightings, DOMAIN waiters' \subseteq Deployment,
         \A s \in requests' : s \in requests \/ s.reply = NoData,
         \A d \in DOMAIN waiters' :
            waiters'[d].sawRunning => d \in DOMAIN waiters /\ waiters[d].sawRunning,
         \A d \in Deployment : \/ dep'[d] = dep[d]
                               \/ dep[d] = "none" /\ dep'[d] = "running"
                               \/ dep'[d] = "ended"
  PROVE  Sightings'
<1>1. ASSUME NEW d \in DOMAIN waiters' PROVE Seen(d)'
  BY <1>1 DEF Sightings, Seen
<1>2. ASSUME NEW r \in requests', NEW d \in Deployment PROVE Covers(r, d)'
  BY <1>2 DEF Sightings, Seen, Covers
<1> QED BY <1>1, <1>2 DEF Sightings

\* load() and its finally only make requests without an answer.
LEMMA LoadPlain ==
  ASSUME NEW env, Load(env) PROVE \A s \in requests' : s \in requests \/ s.reply = NoData
BY AskingPlain DEF Load

LEMMA FinallyPlain ==
  ASSUME NEW r, NEW queued, Finally(r, queued)
  PROVE  \A s \in requests' : s \in requests \/ s.reply = NoData
BY AskingPlain DEF Finally

\* Coolify's answer lists what is running there.
LEMMA ServeSights ==
  ASSUME TypeOK, Sightings, NEW r \in requests, NEW whole \in BOOLEAN, Serve(r, whole)
  PROVE  Sightings'
<1> DEFINE env == IF r.env = NoEnv THEN DefaultEnv ELSE r.env
           here == {d \in Deployment : dep[d] = "running" /\ HomeOf[d] = env}
           reply == [env |-> env, ver |-> version, whole |-> whole,
                     running |-> IF whole THEN here ELSE {}]
<1>1. PICK s : s = [r EXCEPT !.reply = reply]
  OBVIOUS
<1>2. requests' = (requests \ {r}) \cup {s} /\ UNCHANGED <<waiters, dep>>
  BY <1>1 DEF Serve
<1>3. s.reply = reply
  BY <1>1 DEF TypeOK, Request
<1>4. s.reply.env = env /\ s.reply.whole = whole /\ s.reply.running = IF whole THEN here ELSE {}
  BY <1>3
<1>5. ASSUME NEW d \in Deployment PROVE Covers(s, d)'
  BY <1>2, <1>4 DEF Covers
<1>6. ASSUME NEW q \in requests, NEW d \in Deployment PROVE Covers(q, d)'
  BY <1>2 DEF Sightings, Covers
<1>7. ASSUME NEW d \in DOMAIN waiters PROVE Seen(d)'
  BY <1>2 DEF Sightings, Seen
<1> HIDE DEF env, here, reply
<1> QED BY <1>2, <1>5, <1>6, <1>7 DEF Sightings

\* A payload that lands shows builds that were started; no answer is left on its way.
LEMMA ArrivesSights ==
  ASSUME HInv, Sightings, NEW r \in requests, Arrives(r)
  PROVE  Sightings'
<1>1. UNCHANGED <<mounted, dep>> /\ r.reply # NoData
  BY DEF Arrives
<1>2. PICK queued : (refetchQueued => queued) /\ Finally(r, queued)
  BY DEF Arrives
<1>3. \A s \in requests' : s.reply = NoData
  BY <1>1, <1>2, FinallyKeeps DEF HInv
<1>4. waiters' = waiters \/ waiters' = Settled(r.reply.running)
  BY DEF Arrives
<1>5. DOMAIN waiters' \subseteq DOMAIN waiters
  BY <1>4 DEF Settled
<1>6. ASSUME NEW d \in DOMAIN waiters' PROVE Seen(d)'
  <2>1. d \in DOMAIN waiters /\ d \in Deployment /\ Seen(d) /\ Covers(r, d)
    BY <1>5 DEF Sightings
  <2>2. waiters'[d].sawRunning => waiters[d].sawRunning \/ d \in r.reply.running
    BY <1>4, <1>6 DEF Settled
  <2> QED BY <1>1, <2>1, <2>2 DEF Seen, Covers
<1>7. ASSUME NEW s \in requests', NEW d \in Deployment PROVE Covers(s, d)'
  BY <1>3 DEF Covers
<1> QED BY <1>5, <1>6, <1>7 DEF Sightings

LEMMA InitSightings == Init => Sightings
<1> SUFFICES ASSUME Init PROVE Sightings
  OBVIOUS
<1>1. DOMAIN waiters = {}
  BY DEF Init
<1>2. \A r \in requests : r.reply = NoData
  BY AskingPlain DEF Init
<1> QED BY <1>1, <1>2 DEF Sightings, Covers

LEMMA NextSightings == TypeOK /\ HInv /\ Sightings /\ [Next]_vars => Sightings'
<1> SUFFICES ASSUME TypeOK, HInv, Sightings, [Next]_vars PROVE Sightings'
  OBVIOUS
<1>1. ASSUME NEW r \in requests, NEW whole \in BOOLEAN, Serve(r, whole) PROVE Sightings'
  BY <1>1, ServeSights
<1>2. ASSUME NEW r \in requests, Arrives(r) PROVE Sightings'
  BY <1>2, ArrivesSights
<1>3. ASSUME UNCHANGED <<waiters, dep>>,
             \A s \in requests' : s \in requests \/ s.reply = NoData
      PROVE  Sightings'
  BY <1>3, SightingsKept DEF Sightings
<1>4. ASSUME NEW r \in requests, Fails(r) PROVE Sightings'
  BY <1>3, <1>4, FinallyPlain DEF Fails
<1>5. CASE CoalesceFires \/ PollFires \/ Reload
  BY <1>3, <1>5, LoadPlain DEF CoalesceFires, PollFires, Reload
<1>6. ASSUME NEW env \in Env, SetEnvironment(env) PROVE Sightings'
  BY <1>3, <1>6, LoadPlain DEF SetEnvironment
<1>7. CASE Hello \/ Offline \/ OverviewChanged \/ UNCHANGED vars
  BY <1>3, <1>7 DEF Hello, Offline, OverviewChanged, vars
<1>8. ASSUME NEW d \in Deployment, DeployAnswered(d) PROVE Sightings'
  <2>1. /\ \A s \in requests' : s \in requests \/ s.reply = NoData
        /\ dep' = dep
        /\ waiters' = [e \in DOMAIN waiters \cup {d} |->
                         IF e \in DOMAIN waiters THEN waiters[e]
                         ELSE [sawRunning |-> FALSE, due |-> FALSE]]
    BY <1>8, LoadPlain DEF DeployAnswered
  <2>2. DOMAIN waiters' \subseteq Deployment
    BY <2>1 DEF Sightings
  <2> QED BY <2>1, <2>2, SightingsKept
<1>9. ASSUME NEW d \in Deployment, DeploymentFinished(d) PROVE Sightings'
  <2>1. /\ UNCHANGED <<requests, dep>>
        /\ waiters' = [e \in DOMAIN waiters \ {d} |-> waiters[e]]
    BY <1>9 DEF DeploymentFinished
  <2>2. DOMAIN waiters' \subseteq Deployment
    BY <2>1 DEF Sightings
  <2> QED BY <2>1, <2>2, SightingsKept
<1>10. ASSUME NEW d \in Deployment, Expires(d) PROVE Sightings'
  <2>1. /\ UNCHANGED <<requests, dep>> /\ DOMAIN waiters' = DOMAIN waiters
        /\ \A e \in DOMAIN waiters : waiters'[e].sawRunning = waiters[e].sawRunning
    <3>1. PICK D \in SUBSET Deployment : waiters \in [D -> Waiter]
      BY DEF TypeOK
    <3> QED BY <1>10, <3>1 DEF Expires, Waiter
  <2> QED BY <2>1, SightingsKept DEF Sightings
<1>11. CASE Unmount
  <2>1. UNCHANGED <<requests, dep>> /\ DOMAIN waiters' = {}
    BY <1>11 DEF Unmount
  <2> QED BY <2>1, SightingsKept
<1>12. ASSUME Changes \/ \E d \in Deployment : Deploy(d) \/ Ends(d) PROVE Sightings'
  <2>1. UNCHANGED <<requests, waiters>>
    BY <1>12 DEF Changes, Deploy, Ends
  <2>2. \A d \in Deployment : \/ dep'[d] = dep[d]
                              \/ dep[d] = "none" /\ dep'[d] = "running"
                              \/ dep'[d] = "ended"
    BY <1>12 DEF Changes, Deploy, Ends, TypeOK
  <2> QED BY <2>1, <2>2, SightingsKept DEF Sightings
<1> QED BY <1>1, <1>2, <1>4, <1>5, <1>6, <1>7, <1>8, <1>9, <1>10, <1>11, <1>12 DEF Next

\* A wait ends by an answer that lands, by the push that says so, or with the tab.
LEMMA WaiterStep ==
  ASSUME TypeOK, [Next]_vars, NEW d \in DOMAIN waiters \ DOMAIN waiters'
  PROVE  \/ ~mounted'
         \/ dep[d] = "ended"
         \/ \E r \in requests : Arrives(r) /\ data' = r.reply /\ Over(d, r.reply.running)
<1>1. ASSUME NEW r \in requests, Arrives(r)
      PROVE  data' = r.reply /\ Over(d, r.reply.running)
  <2>1. waiters' # waiters
    OBVIOUS
  <2>2. data' = r.reply /\ waiters' = Settled(r.reply.running)
    BY <1>1, <2>1 DEF Arrives
  <2> QED BY <2>2 DEF Settled
<1>2. ASSUME NEW e \in Deployment, DeploymentFinished(e) PROVE dep[d] = "ended"
  BY <1>2 DEF DeploymentFinished
<1>3. ASSUME NEW e \in Deployment, DeployAnswered(e) PROVE FALSE
  BY <1>3 DEF DeployAnswered
<1>4. ASSUME NEW e \in Deployment, Expires(e) PROVE FALSE
  BY <1>4 DEF Expires
<1>5. CASE Unmount
  BY <1>5 DEF Unmount
<1>6. waiters' # waiters
  OBVIOUS
<1> QED
  BY <1>1, <1>2, <1>3, <1>4, <1>5, <1>6 DEF Next, vars, Serve, Fails, Hello, Offline,
     OverviewChanged, CoalesceFires, PollFires, SetEnvironment, Reload, Deploy, Ends, Changes

\* No Deploy button is released while its build runs by a payload that covers it,
\* whatever pushes, polls and switches do, unless the grace of a wait was over.
THEOREM ButtonHeld == Spec => HeldWhileBuilding
<1> DEFINE Held ==
      \A d \in DOMAIN waiters \ DOMAIN waiters' :
         dep[d] = "running" =>
           \/ ~mounted'
           \/ waiters[d].due
           \/ ~data'.whole \/ data'.env # HomeOf[d]
<1>1. TypeOK /\ Sightings /\ [Next]_vars => [Held]_vars
  <2> SUFFICES ASSUME TypeOK, Sightings, [Next]_vars,
                      NEW d \in DOMAIN waiters \ DOMAIN waiters', dep[d] = "running",
                      mounted', ~waiters[d].due, data'.whole, data'.env = HomeOf[d]
               PROVE  FALSE
    OBVIOUS
  <2>1. PICK r \in requests : Arrives(r) /\ data' = r.reply /\ Over(d, r.reply.running)
    BY WaiterStep
  <2>2. d \in Deployment /\ Covers(r, d) /\ r.reply # NoData
    BY <2>1 DEF Sightings, Arrives
  <2> QED BY <2>1, <2>2 DEF Over, Covers
<1> QED
  BY <1>1, InitHInv, NextHInv, InitSightings, NextSightings, TypeCorrect, PTL
  DEF Spec, HeldWhileBuilding
=============================================================================
