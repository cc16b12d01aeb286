------------------------------ MODULE EventHub ------------------------------
(***************************************************************************)
(* The push hub, server/events.ts: the set of SSE listeners, whose first   *)
(* and last members start and stop the poller, and the dedupe of keyed     *)
(* events.  A key is remembered by its age; at Window it is as if never    *)
(* seen, which is what prune leaves.                                       *)
(***************************************************************************)
EXTENDS Naturals, FiniteSets

CONSTANTS
    Client,       \* browsers that may open an event stream
    MaxClients,   \* MAX_SSE_SUBSCRIBERS
    EventKey,     \* dedupe keys
    Window        \* DEDUPE_WINDOW_MS

ASSUME HubConstants == MaxClients \in Nat \ {0} /\ Window \in Nat \ {0}

VARIABLES
    listeners,    \* the open streams
    seen          \* EventKey -> age of its last accepted publication

hubVars == <<listeners, seen>>

HubTypeOK ==
    /\ listeners \subseteq Client
    /\ Cardinality(listeners) <= MaxClients
    /\ seen \in [EventKey -> 0 .. Window]

HubInit ==
    /\ listeners = {}
    /\ seen = [k \in EventKey |-> Window]

\* Mutant of IsNew: prune compares with a window one tick short.
IsNewEarly(k) == seen[k] >= Window - 1

\* publish(event, key) broadcasts: after prune, the key is not in the map.
IsNew(k) == seen[k] = Window

\* What a keyed publish leaves in the map: a repeat leaves the first stamp.
Remember(k) == seen' = IF IsNew(k) THEN [seen EXCEPT ![k] = 0] ELSE seen

\* Mutant of Subscribe: the cap is not looked at.
SubscribeUncapped(c) ==
    /\ c \notin listeners
    /\ listeners' = listeners \cup {c}
    /\ UNCHANGED seen

\* The route checks the cap and subscribes in one run.
Subscribe(c) ==
    /\ c \notin listeners
    /\ Cardinality(listeners) < MaxClients
    /\ listeners' = listeners \cup {c}
    /\ UNCHANGED seen

\* The stream aborts or its loop ends; the second of the two calls does nothing.
Unsubscribe(c) ==
    /\ c \in listeners
    /\ listeners' = listeners \ {c}
    /\ UNCHANGED seen

HubTick ==
    /\ seen' = [k \in EventKey |-> IF seen[k] < Window THEN seen[k] + 1 ELSE Window]
    /\ UNCHANGED listeners
=============================================================================
