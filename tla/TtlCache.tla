------------------------------ MODULE TtlCache ------------------------------
(***************************************************************************)
(* The BFF's read-through cache, server/cache.ts: one entry per key, a     *)
(* value that is fresh for the TTL its reader asks for, a load in flight   *)
(* that later readers join, and invalidation.  This module holds the       *)
(* mechanism alone; VersionedCache adds the upstream the values come from  *)
(* and the requirements, and LiveChannel uses the mechanism for the list   *)
(* of running deployments.                                                 *)
(*                                                                         *)
(* One step is one uninterrupted run of the event loop, microtasks         *)
(* included: a loader that settles, the handler that stores its value and  *)
(* the continuations of every caller awaiting it are one action.           *)
(***************************************************************************)
EXTENDS Naturals, FiniteSets

CONSTANTS
    Key,          \* cache keys: 'applications', 'deployments:running', ...
    Caller,       \* concurrent calls of fetch; the one that loads names the load
    Value,        \* what a loader may return
    NoValue,      \* the value of an entry that has none
    Nobody,       \* no caller: nothing in flight, nothing awaited
    MaxAge,       \* ages are counted up to this, the longest TTL in use
    LoadTimeout   \* the client gives a request up after this long

ASSUME CacheConstants ==
    /\ NoValue \notin Value
    /\ Nobody \notin Caller
    /\ MaxAge \in Nat
    /\ LoadTimeout \in Nat

VARIABLES
    entries,      \* Key -> entry; a key missing from the Map is Absent
    flights,      \* the loads in flight, attached to their entry or not
    waits         \* Caller -> the caller whose load it awaits, or Nobody

cacheVars == <<entries, flights, waits>>

Held == [has : BOOLEAN, val : Value \cup {NoValue}, age : 0 .. MaxAge]

Entry == [has : BOOLEAN, val : Value \cup {NoValue}, age : 0 .. MaxAge,
          inflight : Caller \cup {Nobody}]

\* `prev` is the placeholder #load took from the entry it found.
Flight == [by : Caller, key : Key, prev : Held,
           reply : Value \cup {NoValue}, age : 0 .. LoadTimeout]

Absent == [has |-> FALSE, val |-> NoValue, age |-> MaxAge, inflight |-> Nobody]

EntryOf(held) == [has |-> held.has, val |-> held.val, age |-> held.age,
                  inflight |-> Nobody]

CacheTypeOK ==
    /\ entries \in [Key -> Entry]
    /\ flights \subseteq Flight
    /\ waits \in [Caller -> Caller \cup {Nobody}]

CacheInit ==
    /\ entries = [k \in Key |-> Absent]
    /\ flights = {}
    /\ waits = [c \in Caller |-> Nobody]

\* A fetch(key, ttl) that starts now is answered from the entry.
HasFresh(k, ttl) == entries[k].has /\ entries[k].age < ttl

\* fetch: nothing fresh, a load is already running - await that one.
Join(c, k, ttl) ==
    /\ waits[c] = Nobody
    /\ ~HasFresh(k, ttl)
    /\ entries[k].inflight # Nobody
    /\ waits' = [waits EXCEPT ![c] = entries[k].inflight]
    /\ UNCHANGED <<entries, flights>>

\* The load c starts for a key whose entry is e.
NewFlight(c, k, e) ==
    [by |-> c, key |-> k, reply |-> NoValue, age |-> 0,
     prev |-> [has |-> e.has, val |-> e.val, age |-> e.age]]

\* Mutant of Load: no placeholder is left.
LoadUnmarked(es, c, k) ==
    /\ flights' = flights \cup {NewFlight(c, k, es[k])}
    /\ entries' = es
    /\ waits' = [waits EXCEPT ![c] = c]

\* #load, when the entries are `es`: call the loader, leave a placeholder.
Load(es, c, k) ==
    /\ flights' = flights \cup {NewFlight(c, k, es[k])}
    /\ entries' = [es EXCEPT ![k].inflight = c]
    /\ waits' = [waits EXCEPT ![c] = c]

\* fetch: nothing fresh and no load running - start one.
StartLoad(c, k, ttl) ==
    /\ waits[c] = Nobody
    /\ ~HasFresh(k, ttl)
    /\ entries[k].inflight = Nobody
    /\ Load(entries, c, k)

\* Upstream reads `v` for this request; the answer is on its way back.
Answer(f, v) ==
    /\ f \in flights
    /\ f.reply = NoValue
    /\ flights' = (flights \ {f}) \cup {[f EXCEPT !.reply = v]}
    /\ UNCHANGED <<entries, waits>>

\* The load is over: everyone awaiting it continues.
Release(f) ==
    /\ flights' = flights \ {f}
    /\ waits' = [c \in Caller |-> IF waits[c] = f.by THEN Nobody ELSE waits[c]]

\* The loader succeeded: its value is stored, whatever the entry now is.
Resolve(f) ==
    /\ f \in flights
    /\ f.reply # NoValue
    /\ entries' = [entries EXCEPT ![f.key] =
                     [has |-> TRUE, val |-> f.reply, age |-> 0, inflight |-> Nobody]]
    /\ Release(f)

\* Mutants of Fail: the placeholder comes back as if just stored; the key goes
\* whatever the placeholder held; the failed load stays the one to join.
FailAsFresh(f) ==
    /\ f \in flights
    /\ entries' = [entries EXCEPT ![f.key] =
                     IF f.prev.has THEN [EntryOf(f.prev) EXCEPT !.age = 0] ELSE Absent]
    /\ Release(f)

FailForgets(f) ==
    /\ f \in flights
    /\ entries' = [entries EXCEPT ![f.key] = Absent]
    /\ Release(f)

FailStaysJoined(f) ==
    /\ f \in flights
    /\ entries' = [entries EXCEPT ![f.key] =
                     IF f.prev.has THEN [EntryOf(f.prev) EXCEPT !.inflight = f.by]
                     ELSE Absent]
    /\ Release(f)

\* The loader failed: the placeholder's value comes back, or the key goes.
\* Its callers get that value as stale, and the error when there is none.
Fail(f) ==
    /\ f \in flights
    /\ entries' = [entries EXCEPT ![f.key] =
                     IF f.prev.has THEN EntryOf(f.prev) ELSE Absent]
    /\ Release(f)

\* Mutant of Without: only what has expired goes.
WithoutExpired(K) ==
    [k \in Key |-> IF k \in K /\ entries[k].age = MaxAge THEN Absent ELSE entries[k]]

\* The entries once those of the keys `K` are deleted.
Without(K) == [k \in Key |-> IF k \in K THEN Absent ELSE entries[k]]

\* invalidate(prefix), `K` being the keys that start with the prefix.
Invalidate(K) ==
    /\ entries' = Without(K)
    /\ UNCHANGED <<flights, waits>>

Older(age) == IF age < MaxAge THEN age + 1 ELSE MaxAge

Aged(f) == [f EXCEPT !.age = @ + 1, !.prev.age = Older(@)]

\* Mutant of CacheTick: requests carry no timeout.
CacheTickUntimed ==
    /\ entries' = [k \in Key |-> [entries[k] EXCEPT !.age = Older(@)]]
    /\ flights' = {Aged(f) : f \in flights}
    /\ UNCHANGED waits

\* Time passes; a request that reached its timeout fails first.
CacheTick ==
    /\ \A f \in flights : f.age < LoadTimeout
    /\ entries' = [k \in Key |-> [entries[k] EXCEPT !.age = Older(@)]]
    /\ flights' = {Aged(f) : f \in flights}
    /\ UNCHANGED waits
=============================================================================
