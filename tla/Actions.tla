-------------------------------- MODULE Actions --------------------------------
(***************************************************************************)
(* The write side: server/actions.ts over the Coolify client, and the      *)
(* webhook route.  Both tell the cache what has changed in Coolify - one   *)
(* after its own write was answered, the other after Coolify's word -, and *)
(* both can miss it: an answer is lost, a webhook is not delivered.        *)
(*                                                                         *)
(* One application; the keys of the cache are grouped as the prefixes of   *)
(* invalidate do, and every group may be in the cache at any time.  What   *)
(* Coolify's actions change and which verbs it takes is external.          *)
(***************************************************************************)
EXTENDS Naturals, FiniteSets

CONSTANTS
    Click,           \* requests of the browsers for an action
    Verbs,           \* sets of verbs a version may take for start, stop and restart
    Kinds,           \* Click -> SUBSET AllKinds: the actions it may be for
    Events,          \* SUBSET AllEvents: the webhooks sent
    MaxEvents        \* bound: changes Coolify makes on its own account

AllKinds == {"deploy", "rollback", "cancel", "restart", "stop", "autodeploy", "task"}
AllEvents == {"deployment", "container", "server", "disk", "backup", "task", "other"}

ASSUME ActionConstants ==
    /\ Verbs \subseteq SUBSET {"POST", "GET"}
    /\ Kinds \in [Click -> SUBSET AllKinds] /\ Events \subseteq AllEvents
    /\ MaxEvents \in Nat

VARIABLES
    takes,           \* the verbs Coolify takes
    verb,            \* actionMethod, "?" until one worked
    call,            \* Click -> its request
    stale,           \* groups the cache holds and Coolify would answer otherwise now
    owed,            \* those of them nobody will be told of any more
    hooks,           \* webhooks on their way
    happened         \* changes Coolify made on its own account

actionVars == <<takes, verb, call, stale, owed, hooks, happened>>

NoCall == [at |-> "idle", kind |-> "none", method |-> "?", learning |-> FALSE, acted |-> 0,
           answer |-> "none", report |-> "none"]

\* What an action changes in Coolify (external).
Changed(kind) ==
    CASE kind \in {"deploy", "cancel"} -> {"deployments"}
      [] kind = "rollback" -> {"deployments", "rollback"}
      [] kind \in {"restart", "stop"} -> {"deployments", "applications", "application"}
      [] kind = "autodeploy" -> {"application"}
      [] OTHER -> {}

\* What an event is about (external).  A deployment that ends may leave another image
\* running than the one before.
Touched(event) ==
    CASE event = "deployment" -> {"deployments", "rollback"}
      [] event = "container" -> {"applications", "application"}
      [] event \in {"server", "disk"} -> {"servers"}
      [] event = "backup" -> {"backups"}
      [] OTHER -> {}

\* The invalidations of the service, action by action.
Invalidated(kind) ==
    CASE kind \in {"deploy", "cancel"} -> {"deployments"}
      [] kind = "rollback" -> {"deployments", "rollback"}
      [] kind \in {"restart", "stop"} -> {"deployments", "applications", "application"}
      [] kind = "autodeploy" -> {"application"}
      [] OTHER -> {}

\* interpretWebhook: the prefixes it drops.
HookInvalidates(event) ==
    CASE event = "deployment" -> {"deployments"}
      [] event = "container" -> {"applications", "application"}
      [] event \in {"server", "disk"} -> {"servers"}
      [] event = "backup" -> {"backups"}
      [] OTHER -> {}

ActionInit ==
    /\ takes \in Verbs /\ verb = "?"
    /\ call = [c \in Click |-> NoCall]
    /\ stale = {} /\ owed = {}
    /\ hooks = {} /\ happened = 0

-----------------------------------------------------------------------------
(* The cache. *)

\* What is dropped, or expires, is loaded anew when it is read, and no debt is left.
Drop(groups) ==
    /\ stale' = stale \ groups
    /\ owed' = owed \ groups

Expire(g) ==
    /\ g \in stale
    /\ Drop({g})
    /\ UNCHANGED <<takes, verb, call, hooks, happened>>

-----------------------------------------------------------------------------
(* One action. *)

Learns(kind) == kind \in {"restart", "stop"}

\* The route calls the client: with POST, until the instance turned out to want GET
\* for some of them.
Submit(c, kind) ==
    /\ call[c].at \in {"idle", "over"}
    /\ call' = [call EXCEPT ![c] =
                  [NoCall EXCEPT !.at = "sent", !.kind = kind,
                                 !.method = IF Learns(kind) /\ verb = "GET" THEN "GET" ELSE "POST",
                                 !.learning = Learns(kind) /\ verb = "?"]]
    /\ UNCHANGED <<takes, verb, stale, owed, hooks, happened>>

Answers == {"ok", "skipped", "unauthorized", "error", "405"}

\* Coolify handles it: a verb it does not take is a 405; else it acts, or it does not
\* and says so, in a 200 or in an error.
Handled(c, answer) ==
    LET mine == call[c] IN
    /\ mine.at = "sent"
    /\ answer = "405" <=> Learns(mine.kind) /\ mine.method \notin takes
    /\ answer = "skipped" => mine.kind \in {"deploy", "rollback", "restart"}
    /\ answer = "unauthorized" => mine.kind \in {"deploy", "rollback"}
    /\ call' = [call EXCEPT ![c].at = "answered", ![c].answer = answer,
                            ![c].acted = @ + (IF answer = "ok" THEN 1 ELSE 0)]
    /\ stale' = stale \cup (IF answer = "ok" THEN Changed(mine.kind) ELSE {})
    /\ UNCHANGED <<takes, verb, owed, hooks, happened>>

\* Mutant of Outcome: a 200 is a success.
OutcomeOf200(kind, answer) ==
    IF kind \in {"cancel", "stop", "autodeploy"} THEN "done" ELSE "queued"

\* The readers: a 200 may say that nothing was done.
Outcome(kind, answer) ==
    IF answer = "skipped" THEN "skipped"
    ELSE IF kind \in {"cancel", "stop", "autodeploy"} THEN "done" ELSE "queued"

\* What a request that is over leaves for the requirements, and for Coolify, which may
\* not have got to one that failed.
Over(c, report) ==
    LET late == report = "failed" /\ call[c].answer = "none" IN
    [call EXCEPT ![c] = [NoCall EXCEPT !.at = "over", !.report = report, !.acted = call[c].acted,
                                       !.kind = IF late THEN call[c].kind ELSE @,
                                       !.answer = IF late THEN "none" ELSE "error"]]

\* applicationAction while the verb is not known: a refused POST is tried once as GET.
TryGet(c) ==
    /\ call[c].at = "answered" /\ call[c].learning
    /\ call[c].answer = "405" /\ call[c].method = "POST"
    /\ call' = [call EXCEPT ![c].at = "sent", ![c].method = "GET"]
    /\ UNCHANGED <<takes, verb, stale, owed, hooks, happened>>

\* Mutant of Received: the cache is not told.
ReceivedUndropped(c) ==
    LET mine == call[c]
        good == mine.answer \in {"ok", "skipped"} IN
    /\ mine.at = "answered"
    /\ ~(mine.learning /\ mine.answer = "405" /\ mine.method = "POST")
    /\ call' = Over(c, IF good THEN Outcome(mine.kind, mine.answer) ELSE "failed")
    /\ verb' = IF mine.learning /\ good THEN mine.method ELSE verb
    /\ UNCHANGED <<takes, stale, owed, hooks, happened>>

\* The answer is read: the verb that worked is remembered, the readers throw what
\* Coolify did not allow, and what the action may have changed is dropped.
Received(c) ==
    LET mine == call[c]
        good == mine.answer \in {"ok", "skipped"} IN
    /\ mine.at = "answered"
    /\ ~(mine.learning /\ mine.answer = "405" /\ mine.method = "POST")
    /\ call' = Over(c, IF good THEN Outcome(mine.kind, mine.answer) ELSE "failed")
    /\ verb' = IF mine.learning /\ good THEN mine.method ELSE verb
    /\ Drop(IF good THEN Invalidated(mine.kind) ELSE {})
    /\ UNCHANGED <<takes, hooks, happened>>

\* The time-out, or a connection that breaks: nothing comes back, whatever was done.
\* Nothing is tried again and nothing is dropped.
Lost(c) ==
    /\ call[c].at \in {"sent", "answered"}
    /\ call' = Over(c, "failed")
    /\ owed' = IF call[c].acted > 0 THEN owed \cup (Changed(call[c].kind) \cap stale) ELSE owed
    /\ UNCHANGED <<takes, verb, stale, hooks, happened>>

\* Coolify gets to a request the BFF has given up.
HandledLate(c) ==
    LET mine == call[c] IN
    /\ mine.at = "over" /\ mine.report = "failed" /\ mine.answer = "none"
    /\ call' = [call EXCEPT ![c].answer = "ok", ![c].acted = @ + 1]
    /\ stale' = stale \cup Changed(mine.kind) /\ owed' = owed \cup Changed(mine.kind)
    /\ UNCHANGED <<takes, verb, hooks, happened>>

\* An instance that wanted GET is upgraded.
Upgrade ==
    /\ takes = {"GET"}
    /\ takes' = {"POST"}
    /\ UNCHANGED <<verb, call, stale, owed, hooks, happened>>

-----------------------------------------------------------------------------
(* Coolify's own changes, and its webhooks. *)

\* Something happens in Coolify, and a webhook is sent: up to MaxTries deliveries.
MaxTries == 2

Happens(event) ==
    /\ happened < MaxEvents
    /\ happened' = happened + 1
    /\ hooks' = hooks \cup {[event |-> event, of |-> happened, tries |-> MaxTries]}
    /\ stale' = stale \cup Touched(event)
    /\ UNCHANGED <<takes, verb, call, owed>>

\* Coolify may not have seen the answer, and delivers once more.
Leaves(h) ==
    \/ hooks' = hooks \ {h}
    \/ h.tries > 1 /\ hooks' = (hooks \ {h}) \cup {[h EXCEPT !.tries = @ - 1]}

\* The webhook route: the cache is told on every delivery, before the hub's dedupe is
\* asked.  What the webhook does not drop stays owed.
Delivered(h) ==
    LET dropped == HookInvalidates(h.event)
        untold == (Touched(h.event) \ HookInvalidates(h.event)) \cap stale IN
    /\ h \in hooks /\ Leaves(h)
    /\ stale' = stale \ dropped
    /\ owed' = (owed \ dropped) \cup untold
    /\ UNCHANGED <<takes, verb, call, happened>>

\* It never arrives: Coolify gave up, or WEBHOOK_SECRET is not set.
Undelivered(h) ==
    /\ h \in hooks
    /\ hooks' = hooks \ {h}
    /\ owed' = owed \cup (Touched(h.event) \cap stale)
    /\ UNCHANGED <<takes, verb, call, stale, happened>>

ActionNext ==
    \/ \E c \in Click : \E kind \in Kinds[c] : Submit(c, kind)
    \/ \E c \in Click, answer \in Answers : Handled(c, answer)
    \/ \E c \in Click : TryGet(c) \/ Received(c) \/ Lost(c) \/ HandledLate(c)
    \/ Upgrade
    \/ \E event \in Events : Happens(event)
    \/ \E h \in hooks : Delivered(h) \/ Undelivered(h)
    \/ \E g \in stale : Expire(g)

ActionSpec == ActionInit /\ [][ActionNext]_actionVars

-----------------------------------------------------------------------------
(* Requirements. *)

\* "A write invalidates what the reads cached": nothing in the cache is out of date
\* but for news that is on its way, was lost - an answer that did not come, a webhook
\* that did not arrive - or that no webhook tells of.
StaleIsExplained ==
    stale \subseteq
      owed \cup (UNION {Changed(call[c].kind) : c \in {d \in Click : call[d].acted > 0 /\ call[d].at # "over"}})
           \cup (UNION {Touched(h.event) : h \in hooks})

\* "200 for outcomes that are not successes", "fall back to GET once": a click acts
\* once at most, whichever verbs were tried; what is reported as done or queued was
\* done, what is reported as skipped was not; and a POST that is remembered is taken.
ActedOnce ==
    /\ verb = "POST" => "POST" \in takes
    /\ \A c \in Click :
         /\ call[c].acted <= 1
         /\ call[c].report \in {"queued", "done"} => call[c].acted = 1
         /\ call[c].report = "skipped" => call[c].acted = 0
=============================================================================
