--------------------------- MODULE VersionedCache ---------------------------
(***************************************************************************)
(* TtlCache over an upstream whose resources change: a value is the        *)
(* version of the resource it was read from.  What server/cache.ts,        *)
(* server/actions.ts and docs/api.md ask of the cache is stated here over  *)
(* the mechanism and four history variables that no action reads.          *)
(***************************************************************************)
EXTENDS TtlCache

CONSTANTS
    Family,       \* the key sets an invalidation prefix can match
    MaxVersion,   \* bound: upstream changes of one key
    MaxLag        \* lags are counted up to this

ASSUME VersionConstants ==
    /\ MaxVersion \in Nat
    /\ Value = 0 .. MaxVersion
    /\ Family \subseteq SUBSET Key
    /\ MaxLag \in Nat
    /\ MaxLag > LoadTimeout + MaxAge

VARIABLES
    version,      \* Key -> the resource's current version
    lag,          \* Key -> version -> time since that version was superseded
    settled,      \* Key -> the version at the key's last invalidation
    crossed,      \* Key -> whether an invalidation overtook a load of the key
    known         \* Key -> a load succeeded since the last invalidation

history == <<lag, settled, crossed, known>>
vars == <<entries, flights, waits, version, lag, settled, crossed, known>>

FlightsOf(k) == {f \in flights : f.key = k}

TypeOK ==
    /\ CacheTypeOK
    /\ version \in [Key -> Value]
    /\ lag \in [Key -> [Value -> 0 .. MaxLag]]
    /\ settled \in [Key -> Value]
    \* "flying": an invalidation hit the key during a load, and the key has had
    \* a load in flight ever since; "landed": those loads have ended.
    /\ crossed \in [Key -> {"clear", "flying", "landed"}]
    /\ known \in [Key -> BOOLEAN]

Init ==
    /\ CacheInit
    /\ version = [k \in Key |-> 0]
    /\ lag = [k \in Key |-> [v \in Value |-> 0]]
    /\ settled = [k \in Key |-> 0]
    /\ crossed = [k \in Key |-> "clear"]
    /\ known = [k \in Key |-> FALSE]

\* Coolify's resource changes: a deploy, a push, somebody in Coolify's own UI.
Change(k) ==
    /\ version[k] < MaxVersion
    /\ version' = [version EXCEPT ![k] = @ + 1]
    /\ UNCHANGED <<entries, flights, waits>>
    /\ UNCHANGED history

\* A call of fetch the entry cannot answer; one it can answer changes nothing.
Fetch(c, k, ttl) ==
    /\ Join(c, k, ttl) \/ StartLoad(c, k, ttl)
    /\ UNCHANGED <<version, lag, settled, crossed, known>>

Serve(f) ==
    /\ Answer(f, version[f.key])
    /\ UNCHANGED <<version, lag, settled, crossed, known>>

\* How `crossed` moves when the load f ends.
Landing(f) ==
    IF crossed[f.key] = "flying" /\ FlightsOf(f.key) = {f} THEN "landed"
    ELSE crossed[f.key]

Stored(f) ==
    /\ Resolve(f)
    /\ known' = [known EXCEPT ![f.key] = TRUE]
    /\ crossed' = [crossed EXCEPT ![f.key] =
                     IF @ = "landed" THEN "clear" ELSE Landing(f)]
    /\ UNCHANGED <<version, lag, settled>>

Failed(f) ==
    /\ Fail(f)
    /\ crossed' = [crossed EXCEPT ![f.key] = Landing(f)]
    /\ UNCHANGED <<version, lag, settled, known>>

\* A write's answer or a webhook drops the family it touched.
Drop(K) ==
    /\ Invalidate(K)
    /\ settled' = [k \in Key |-> IF k \in K THEN version[k] ELSE settled[k]]
    /\ known' = [k \in Key |-> known[k] /\ k \notin K]
    /\ crossed' = [k \in Key |-> IF k \notin K THEN crossed[k]
                                 ELSE IF FlightsOf(k) = {} THEN "clear"
                                 ELSE "flying"]
    /\ UNCHANGED <<version, lag>>

Tick ==
    /\ CacheTick
    /\ lag' = [k \in Key |-> [v \in Value |->
                 IF v < version[k] /\ lag[k][v] < MaxLag THEN lag[k][v] + 1
                 ELSE lag[k][v]]]
    /\ UNCHANGED <<version, settled, crossed, known>>

Next ==
    \/ \E k \in Key : Change(k)
    \/ \E c \in Caller, k \in Key, ttl \in 0 .. MaxAge : Fetch(c, k, ttl)
    \/ \E f \in flights : Serve(f)
    \/ \E f \in flights : Stored(f)
    \/ \E f \in flights : Failed(f)
    \/ \E K \in Family : Drop(K)
    \/ Tick

\* A request settles: the client aborts one that is never answered.
Landed(c) == \E f \in flights : f.by = c /\ (Stored(f) \/ Failed(f))

Fairness == \A c \in Caller : WF_vars(Landed(c))

Spec == Init /\ [][Next]_vars /\ Fairness

-----------------------------------------------------------------------------
(* Requirements. *)

\* "N concurrent browser tabs hitting /app/overview at once produce one upstream
\* call": no two loads of a key are in flight together, unless an invalidation
\* overtook one and the key has not been quiet since.
SingleFlight ==
    \A f, g \in flights :
        (f.key = g.key /\ crossed[f.key] # "flying") => f = g

\* A value a reader gets as fresh was what Coolify had at some moment no further
\* back than the reader's TTL plus the time a request may take - whatever loads,
\* failures and restored placeholders came between.
BoundedStaleness ==
    \A k \in Key, ttl \in 0 .. MaxAge :
        HasFresh(k, ttl) => lag[k][entries[k].val] < LoadTimeout + ttl

\* "A blip upstream degrades the dashboard rather than blanking it": once a load
\* succeeded, the value stays there to fall back on until it is invalidated, and
\* a load that fails has it to restore.
StaleOnError ==
    \A k \in Key : (known[k] /\ crossed[k] = "clear") =>
        /\ entries[k].has
        /\ \A f \in FlightsOf(k) : f.prev.has

\* A reader that arrives after an invalidation sees at least the version that
\* was current then, as long as the invalidation overtook no load: from the
\* entry, and from the load it would join.
BarrierWhenQuiet ==
    \A k \in Key : crossed[k] = "clear" =>
        /\ entries[k].has => entries[k].val >= settled[k]
        /\ \A f \in FlightsOf(k) :
              (f.by = entries[k].inflight /\ f.reply # NoValue) => f.reply >= settled[k]

\* docs/api.md: "Every write invalidates the cache entries its read counterpart
\* filled ... so the effect of a click is visible on the next refetch": a refetch
\* answered as fresh never shows a version older than the invalidation.
InvalidationIsABarrier ==
    \A k \in Key : HasFresh(k, MaxAge) => entries[k].val >= settled[k]

\* While no invalidation overtakes a load, a key's value only moves forward:
\* no late answer replaces a newer one.
NeverBackwards ==
    [][\A k \in Key :
         (entries[k].has /\ entries'[k].has /\ crossed[k] = "clear"
            /\ crossed'[k] = "clear")
         => entries'[k].val >= entries[k].val]_vars

\* Every reader gets an answer: joining a load never leaves a caller waiting on
\* one that is over.
EveryCallAnswered ==
    \A c \in Caller : waits[c] # Nobody ~> waits[c] = Nobody
=============================================================================
