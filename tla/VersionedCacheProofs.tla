------------------------ MODULE VersionedCacheProofs ------------------------
(***************************************************************************)
(* Proofs about VersionedCache, for every number of keys and readers, any  *)
(* TTLs, timeout and bounds: types, single-flight and the staleness bound, *)
(* each from an inductive invariant over the one before.                   *)
(***************************************************************************)
EXTENDS VersionedCache, TtlCacheProofs

\* A load belongs to the one caller that started it, who still awaits it.
Owned ==
    /\ \A f \in flights : waits[f.by] = f.by
    /\ \A f, g \in flights : f.by = g.by => f = g

\* Unless an invalidation overtook a load, every load in flight is the one its
\* entry tells later readers to join.
Attached ==
    \A f \in flights : crossed[f.key] # "flying" => entries[f.key].inflight = f.by

\* Only a superseded version lags.
LagZero == \A k \in Key, v \in Value : v >= version[k] => lag[k][v] = 0

\* How far behind a value can be: what a request read, by the request's age;
\* what an entry or a placeholder holds, by its own age more than a timeout.
HeldLag(k, h) ==
    h.has => /\ h.val \in Value
             /\ h.age < MaxAge => lag[k][h.val] <= LoadTimeout + h.age

Lags ==
    /\ LagZero
    /\ \A k \in Key : HeldLag(k, entries[k])
    /\ \A f \in flights : HeldLag(f.key, f.prev)
    /\ \A f \in flights : f.reply # NoValue => lag[f.key][f.reply] <= f.age

-----------------------------------------------------------------------------
(* Types. *)

\* The initial state is well typed.
LEMMA InitTypeOK == Init => TypeOK /\ CacheFilled
  BY InitCacheOK, VersionConstants DEF Init, TypeOK, CacheOK

\* The history changes of a load's end are well typed.
LEMMA LandingTyped ==
  ASSUME TypeOK, NEW f \in flights
  PROVE  f.key \in Key /\ Landing(f) \in {"clear", "flying", "landed"}
  <1>1. f.key \in Key
    BY DEF TypeOK, CacheTypeOK, Flight
  <1> QED
    BY <1>1 DEF TypeOK, Landing

\* Every step keeps the types: the cache's by TtlCacheProofs.
LEMMA NextTypeOK == TypeOK /\ CacheFilled /\ [Next]_vars => TypeOK' /\ CacheFilled'
  <1> DEFINE Ghosts == /\ version \in [Key -> Value]
                       /\ lag \in [Key -> [Value -> 0 .. MaxLag]]
                       /\ settled \in [Key -> Value]
                       /\ crossed \in [Key -> {"clear", "flying", "landed"}]
                       /\ known \in [Key -> BOOLEAN]
  <1> SUFFICES ASSUME CacheOK, Ghosts, [Next]_vars PROVE CacheOK' /\ Ghosts'
    BY DEF TypeOK, CacheOK
  <1>0. TypeOK
    BY DEF TypeOK, CacheOK
  <1>1. ASSUME NEW k \in Key, Change(k) PROVE CacheOK' /\ Ghosts'
    <2>1. version' \in [Key -> Value]
      BY <1>1, VersionConstants DEF Change
    <2> QED
      BY <1>1, <2>1 DEF Change, history, CacheOK, CacheTypeOK, CacheFilled, Filled
  <1>2. ASSUME NEW c \in Caller, NEW k \in Key, NEW ttl \in 0 .. MaxAge,
               Fetch(c, k, ttl)
        PROVE CacheOK' /\ Ghosts'
    BY <1>2, JoinOK, StartLoadOK DEF Fetch
  <1>3. ASSUME NEW f \in flights, Serve(f) PROVE CacheOK' /\ Ghosts'
    <2>1. version[f.key] \in Value
      BY <1>0, LandingTyped
    <2> QED
      BY <1>3, <2>1, AnswerOK DEF Serve
  <1>4. ASSUME NEW f \in flights, Stored(f) PROVE CacheOK' /\ Ghosts'
    BY <1>0, <1>4, ResolveOK, LandingTyped DEF Stored
  <1>5. ASSUME NEW f \in flights, Failed(f) PROVE CacheOK' /\ Ghosts'
    BY <1>0, <1>5, FailOK, LandingTyped DEF Failed
  <1>6. ASSUME NEW K \in Family, Drop(K) PROVE CacheOK' /\ Ghosts'
    BY <1>6, InvalidateOK DEF Drop
  <1>7. CASE Tick
    <2>1. lag' \in [Key -> [Value -> 0 .. MaxLag]]
      <3>1. lag' = [k \in Key |-> [v \in Value |->
                      IF v < version[k] /\ lag[k][v] < MaxLag THEN lag[k][v] + 1
                      ELSE lag[k][v]]]
        BY <1>7 DEF Tick
      <3>2. ASSUME NEW k \in Key, NEW v \in Value
            PROVE  (IF v < version[k] /\ lag[k][v] < MaxLag THEN lag[k][v] + 1 ELSE lag[k][v])
                     \in 0 .. MaxLag
        <4>1. lag[k][v] \in 0 .. MaxLag /\ MaxLag \in Nat
          BY VersionConstants
        <4> QED
          BY <4>1
      <3> QED
        BY <3>1, <3>2
    <2> QED
      BY <1>7, <2>1, CacheTickOK DEF Tick
  <1>8. CASE UNCHANGED vars
    BY <1>8 DEF vars, CacheOK, CacheTypeOK, CacheFilled, Filled
  <1> QED
    BY <1>1, <1>2, <1>3, <1>4, <1>5, <1>6, <1>7, <1>8 DEF Next

\* Every variable keeps its type, whatever the constants.
THEOREM TypeCorrect == Spec => []TypeOK
  BY InitTypeOK, NextTypeOK, PTL DEF Spec

-----------------------------------------------------------------------------
(* Single-flight. *)

\* A step of the cache keeps every load owned and, short of an invalidation
\* that overtakes it, attached.
LEMMA NextAttached ==
    TypeOK /\ Owned /\ Attached /\ [Next]_vars => Owned' /\ Attached'
  <1> SUFFICES ASSUME TypeOK, Owned, Attached, [Next]_vars PROVE Owned' /\ Attached'
    OBVIOUS
  <1> USE CacheConstants DEF TypeOK, CacheTypeOK, Owned, Attached
  <1>0. \A f \in flights : f \in Flight /\ f.by \in Caller /\ f.key \in Key
                           /\ f.by # Nobody /\ entries[f.key] \in Entry
    BY DEF Flight
  <1>1. ASSUME NEW k \in Key, Change(k) PROVE Owned' /\ Attached'
    BY <1>1 DEF Change, history
  <1>2. ASSUME NEW c \in Caller, NEW k \in Key, NEW ttl \in 0 .. MaxAge,
               Fetch(c, k, ttl)
        PROVE Owned' /\ Attached'
    \* c awaits nothing, so no load in flight is c's.
    <2>1. \A f \in flights : f.by # c
      BY <1>0, <1>2 DEF Fetch, Join, StartLoad
    <2>2. CASE Join(c, k, ttl)
      BY <1>0, <1>2, <2>1, <2>2 DEF Fetch, Join
    <2>3. CASE StartLoad(c, k, ttl)
      <3> DEFINE new == [by |-> c, key |-> k, reply |-> NoValue, age |-> 0,
                         prev |-> [has |-> entries[k].has, val |-> entries[k].val,
                                   age |-> entries[k].age]]
      <3>1. flights' = flights \cup {new} /\ new.by = c /\ new.key = k
        BY <2>3 DEF StartLoad, Load, NewFlight
      <3>2. Owned'
        BY <1>0, <2>1, <2>3, <3>1 DEF StartLoad, Load, NewFlight
      \* An attached load of k would be the one the entry names, and it names none.
      <3>3. \A f \in flights : f.key = k => crossed[k] = "flying"
        BY <1>0, <2>3 DEF StartLoad, Load, NewFlight
      <3>4. /\ crossed' = crossed
            /\ entries'[k].inflight = c
            /\ \A j \in Key \ {k} : entries'[j] = entries[j]
        BY <1>2, <2>3 DEF Fetch, StartLoad, Load, NewFlight, Entry
      <3>5. Attached'
        BY <1>0, <3>1, <3>3, <3>4
      <3> QED
        BY <3>2, <3>5
    <2> QED
      BY <1>2, <2>2, <2>3 DEF Fetch
  <1>3. ASSUME NEW f \in flights, Serve(f) PROVE Owned' /\ Attached'
    <2> DEFINE answered == [f EXCEPT !.reply = version[f.key]]
    <2>1. answered.by = f.by /\ answered.key = f.key
      BY <1>0 DEF Flight
    <2>2. /\ flights' = (flights \ {f}) \cup {answered}
          /\ UNCHANGED <<entries, waits, crossed>>
      BY <1>3 DEF Serve, Answer
    <2> HIDE DEF answered
    <2>3. Owned'
      BY <1>0, <2>1, <2>2
    <2>4. Attached'
      BY <1>0, <2>1, <2>2
    <2> QED
      BY <2>3, <2>4
  <1>4. ASSUME NEW f \in flights,
               Release(f),
               crossed'[f.key] = "flying" \/ Landing(f) # "flying",
               \A k \in Key \ {f.key} :
                 entries'[k] = entries[k] /\ crossed'[k] = crossed[k]
        PROVE Owned' /\ Attached'
    <2>1. Owned'
      BY <1>0, <1>4 DEF Release
    \* Another load of the same key means that the key is flying, and it stays so.
    <2>2. ASSUME NEW g \in flights', g.key = f.key PROVE crossed'[g.key] = "flying"
      <3>1. g \in flights /\ g # f
        BY <1>4 DEF Release
      <3>2. crossed[f.key] = "flying"
        BY <1>0, <2>2, <3>1
      <3>3. Landing(f) = "flying"
        BY <1>0, <2>2, <3>1, <3>2 DEF Landing, FlightsOf
      <3> QED
        BY <1>4, <2>2, <3>3
    <2>3. ASSUME NEW g \in flights', g.key # f.key, crossed'[g.key] # "flying"
          PROVE entries'[g.key].inflight = g.by
      BY <1>0, <1>4, <2>3 DEF Release
    <2> QED
      BY <2>1, <2>2, <2>3
  <1>5. ASSUME NEW f \in flights, Stored(f) PROVE Owned' /\ Attached'
    <2>1. crossed'[f.key] = "flying" \/ Landing(f) # "flying"
      BY <1>0, <1>5 DEF Stored, Landing
    <2>2. \A k \in Key \ {f.key} :
            entries'[k] = entries[k] /\ crossed'[k] = crossed[k]
      BY <1>0, <1>5 DEF Stored, Resolve
    <2> QED
      BY <1>4, <1>5, <2>1, <2>2 DEF Stored, Resolve
  <1>6. ASSUME NEW f \in flights, Failed(f) PROVE Owned' /\ Attached'
    <2>1. crossed'[f.key] = "flying" \/ Landing(f) # "flying"
      BY <1>0, <1>6 DEF Failed
    <2>2. \A k \in Key \ {f.key} :
            entries'[k] = entries[k] /\ crossed'[k] = crossed[k]
      BY <1>0, <1>6 DEF Failed, Fail
    <2> QED
      BY <1>4, <1>6, <2>1, <2>2 DEF Failed, Fail
  <1>7. ASSUME NEW K \in Family, Drop(K) PROVE Owned' /\ Attached'
    <2>1. Owned'
      BY <1>7 DEF Drop, Invalidate, Without
    <2>2. ASSUME NEW f \in flights, crossed'[f.key] # "flying"
          PROVE entries'[f.key].inflight = f.by
      <3>1. f.key \notin K
        BY <1>0, <1>7, <2>2 DEF Drop, FlightsOf
      <3> QED
        BY <1>0, <1>7, <2>2, <3>1 DEF Drop, Invalidate, Without
    <2> QED
      BY <1>7, <2>1, <2>2 DEF Drop, Invalidate, Without
  <1>8. CASE Tick
    <2>1. \A f \in flights : Aged(f).by = f.by /\ Aged(f).key = f.key
      BY <1>0 DEF Aged, Flight
    <2>2. \A k \in Key : entries'[k].inflight = entries[k].inflight
      BY <1>8 DEF Tick, CacheTick, Entry
    <2>3. /\ flights' = {Aged(f) : f \in flights}
          /\ UNCHANGED <<waits, crossed>>
      BY <1>8 DEF Tick, CacheTick
    <2>4. Owned'
      <3>1. ASSUME NEW f \in flights, NEW g \in flights, Aged(f).by = Aged(g).by
            PROVE Aged(f) = Aged(g)
        <4>1. f = g
          BY <2>1, <3>1
        <4> QED
          BY <4>1
      <3>2. \A f \in flights' : waits'[f.by] = f.by
        BY <2>1, <2>3
      <3> QED
        BY <2>3, <3>1, <3>2
    <2>5. Attached'
      BY <1>0, <2>1, <2>2, <2>3
    <2> QED
      BY <2>4, <2>5
  <1>9. CASE UNCHANGED vars
    BY <1>9 DEF vars
  <1> QED
    BY <1>1, <1>2, <1>3, <1>5, <1>6, <1>7, <1>8, <1>9 DEF Next

\* server/cache.ts's first property, for any number of tabs: one load of a key at
\* a time, as long as no invalidation overtakes one.
THEOREM SingleFlightHolds == Spec => []SingleFlight
  <1>1. Init => Owned /\ Attached
    BY DEF Init, CacheInit, Owned, Attached
  <1>2. TypeOK /\ Owned /\ Attached => SingleFlight
    BY DEF Owned, Attached, SingleFlight
  <1> QED
    BY <1>1, <1>2, TypeCorrect, NextAttached, PTL DEF Spec

-----------------------------------------------------------------------------
(* The staleness bound. *)

\* Every step keeps what is held within its age of the timeout.
LEMMA NextLags == TypeOK /\ Lags /\ [Next]_vars => Lags'
  <1> SUFFICES ASSUME TypeOK, Lags, [Next]_vars PROVE Lags'
    OBVIOUS
  <1> USE CacheConstants
  <1>0. /\ \A f \in flights : /\ f \in Flight /\ f.by \in Caller /\ f.key \in Key
                              /\ f.prev \in Held /\ f.age \in Nat
                              /\ f.reply \in Value \cup {NoValue}
        /\ \A k \in Key : entries[k] \in Entry /\ entries[k].age \in Nat
        /\ \A k \in Key, v \in Value : lag[k][v] \in Nat
        /\ \A k \in Key : version[k] \in Value
        /\ Value \subseteq Nat
    BY VersionConstants DEF TypeOK, CacheTypeOK, Flight, Entry
  <1>1. ASSUME NEW k \in Key, Change(k) PROVE Lags'
    <2>1. LagZero'
      <3> SUFFICES ASSUME NEW j \in Key, NEW v \in Value, v >= version'[j]
                   PROVE lag[j][v] = 0
        BY <1>1 DEF Change, history, LagZero
      <3>1. /\ version'[j] = version[j] \/ version'[j] = version[j] + 1
            /\ version[j] \in Nat /\ v \in Nat
        BY <1>0, <1>1 DEF Change, TypeOK
      <3>2. v >= version[j]
        BY <3>1
      <3> QED
        BY <3>2 DEF Lags, LagZero
    <2> QED
      BY <1>0, <1>1, <2>1 DEF Change, history, Lags, HeldLag
  <1>2. ASSUME NEW c \in Caller, NEW k \in Key, NEW ttl \in 0 .. MaxAge,
               Fetch(c, k, ttl)
        PROVE Lags'
    <2>1. CASE Join(c, k, ttl)
      BY <1>2, <2>1 DEF Fetch, Join, Lags, LagZero, HeldLag
    <2>2. CASE StartLoad(c, k, ttl)
      <3> DEFINE prev == [has |-> entries[k].has, val |-> entries[k].val,
                          age |-> entries[k].age]
                 new == [by |-> c, key |-> k, reply |-> NoValue, age |-> 0,
                         prev |-> prev]
      <3>1. flights' = flights \cup {new} /\ UNCHANGED <<version, lag>>
        BY <1>2, <2>2 DEF Fetch, StartLoad, Load, NewFlight
      <3>2. \A j \in Key : /\ entries'[j].has = entries[j].has
                           /\ entries'[j].val = entries[j].val
                           /\ entries'[j].age = entries[j].age
        BY <1>0, <2>2 DEF StartLoad, Load, NewFlight, Entry
      <3>3. HeldLag(k, prev)
        BY DEF Lags, HeldLag
      <3>4. \A j \in Key : HeldLag(j, entries[j])'
        BY <3>1, <3>2 DEF Lags, HeldLag
      <3>5. \A f \in flights' : HeldLag(f.key, f.prev)'
        BY <3>1, <3>3 DEF Lags, HeldLag
      <3> QED
        BY <1>0, <3>1, <3>4, <3>5 DEF Lags, LagZero
    <2> QED
      BY <1>2, <2>1, <2>2 DEF Fetch
  <1>3. ASSUME NEW f \in flights, Serve(f) PROVE Lags'
    <2> DEFINE answered == [f EXCEPT !.reply = version[f.key]]
    <2>1. /\ answered.key = f.key /\ answered.prev = f.prev
          /\ answered.age = f.age /\ answered.reply = version[f.key]
      BY <1>0 DEF Flight
    <2>2. /\ flights' = (flights \ {f}) \cup {answered}
          /\ UNCHANGED <<entries, version, lag>>
      BY <1>3 DEF Serve, Answer
    <2>3. lag[f.key][version[f.key]] = 0
      <3>1. f.key \in Key /\ version[f.key] \in Value
        BY <1>0
      <3>2. version[f.key] \in Nat
        BY <1>0, <3>1
      <3> QED
        BY <3>1, <3>2 DEF Lags, LagZero
    <2> HIDE DEF answered
    <2>4. \A g \in flights' : HeldLag(g.key, g.prev)'
      BY <2>1, <2>2 DEF Lags, HeldLag
    <2>5. \A g \in flights' : g.reply # NoValue => lag'[g.key][g.reply] <= g.age
      BY <1>0, <2>1, <2>2, <2>3 DEF Lags
    <2> QED
      BY <2>2, <2>4, <2>5 DEF Lags, LagZero, HeldLag
  <1>4. ASSUME NEW f \in flights, Stored(f) PROVE Lags'
    <2>1. /\ flights' \subseteq flights /\ UNCHANGED <<version, lag>>
          /\ entries'[f.key] = [has |-> TRUE, val |-> f.reply, age |-> 0,
                                inflight |-> Nobody]
          /\ f.reply # NoValue
          /\ \A k \in Key \ {f.key} : entries'[k] = entries[k]
      BY <1>0, <1>4 DEF Stored, Resolve, Release, TypeOK, CacheTypeOK
    <2>2. f.reply \in Value /\ lag[f.key][f.reply] <= f.age /\ f.age <= LoadTimeout
      BY <1>0, <2>1 DEF Lags, Flight
    <2>3. lag[f.key][f.reply] <= LoadTimeout + 0
      <3>1. lag[f.key][f.reply] \in Nat /\ f.age \in Nat /\ LoadTimeout \in Nat
        BY <1>0, <2>2
      <3> QED
        BY <2>2, <3>1
    <2>4. HeldLag(f.key, entries[f.key])'
      BY <2>1, <2>2, <2>3 DEF HeldLag
    <2>5. \A k \in Key : HeldLag(k, entries[k])'
      BY <2>1, <2>4 DEF Lags, HeldLag
    <2> QED
      BY <2>1, <2>5 DEF Lags, LagZero, HeldLag
  <1>5. ASSUME NEW f \in flights, Failed(f) PROVE Lags'
    <2>1. /\ flights' \subseteq flights /\ UNCHANGED <<version, lag>>
          /\ entries'[f.key] = IF f.prev.has THEN EntryOf(f.prev) ELSE Absent
          /\ \A k \in Key \ {f.key} : entries'[k] = entries[k]
      BY <1>0, <1>5 DEF Failed, Fail, Release, TypeOK, CacheTypeOK
    <2>2. HeldLag(f.key, f.prev)
      BY DEF Lags
    <2>3. HeldLag(f.key, entries[f.key])'
      BY <2>1, <2>2 DEF HeldLag, EntryOf, Absent
    <2>4. \A k \in Key : HeldLag(k, entries[k])'
      BY <2>1, <2>3 DEF Lags, HeldLag
    <2> QED
      BY <2>1, <2>4 DEF Lags, LagZero, HeldLag
  <1>6. ASSUME NEW K \in Family, Drop(K) PROVE Lags'
    <2>1. \A k \in Key : entries'[k] = Absent \/ entries'[k] = entries[k]
      BY <1>6 DEF Drop, Invalidate, Without
    <2>2. UNCHANGED <<flights, version, lag>>
      BY <1>6 DEF Drop, Invalidate, Without
    <2> QED
      <3>1. \A k \in Key : HeldLag(k, entries[k])'
        BY <2>1, <2>2 DEF Lags, HeldLag, Absent
      <3>2. \A f \in flights' : HeldLag(f.key, f.prev)'
        BY <2>2 DEF Lags, HeldLag
      <3> QED
        BY <2>2, <3>1, <3>2 DEF Lags, LagZero
  <1>7. CASE Tick
    <2>1. version' = version /\ flights' = {Aged(f) : f \in flights}
      BY <1>7 DEF Tick, CacheTick
    <2>2. \A k \in Key, v \in Value :
            /\ v >= version[k] => lag'[k][v] = lag[k][v]
            /\ lag'[k][v] <= lag[k][v] + 1
            /\ lag'[k][v] \in Nat /\ lag[k][v] \in Nat
      BY <1>0, <1>7, VersionConstants DEF Tick, TypeOK
    <2>3. \A f \in flights :
            /\ Aged(f).key = f.key /\ Aged(f).reply = f.reply
            /\ Aged(f).age = f.age + 1
            /\ Aged(f).prev.has = f.prev.has /\ Aged(f).prev.val = f.prev.val
            /\ Aged(f).prev.age = Older(f.prev.age)
      BY <1>0 DEF Aged, Flight, Held
    <2>4. \A k \in Key : /\ entries'[k].has = entries[k].has
                         /\ entries'[k].val = entries[k].val
                         /\ entries'[k].age = Older(entries[k].age)
      BY <1>0, <1>7 DEF Tick, CacheTick, Entry
    <2>5. LagZero'
      BY <2>1, <2>2 DEF Lags, LagZero
    \* One more tick of lag, one more of age - unless the age is at its cap.
    <2>6. ASSUME NEW k \in Key, NEW v \in Value, NEW a \in 0 .. MaxAge,
                 a < MaxAge => lag[k][v] <= LoadTimeout + a,
                 Older(a) < MaxAge
          PROVE lag'[k][v] <= LoadTimeout + Older(a)
      <3>1. a < MaxAge /\ Older(a) = a + 1
        BY <2>6 DEF Older
      <3>2. /\ lag'[k][v] \in Nat /\ lag[k][v] \in Nat
            /\ lag'[k][v] <= lag[k][v] + 1
        BY <2>2
      <3> QED
        BY <2>6, <3>1, <3>2
    <2>7. ASSUME NEW k \in Key PROVE HeldLag(k, entries[k])'
      <3>1. HeldLag(k, entries[k]) /\ entries[k].age \in 0 .. MaxAge
        BY <1>0 DEF Lags, Entry
      <3> QED
        BY <2>4, <2>6, <3>1 DEF HeldLag
    <2>8. ASSUME NEW f \in flights PROVE HeldLag(f.key, Aged(f).prev)'
      <3>1. HeldLag(f.key, f.prev) /\ f.prev.age \in 0 .. MaxAge /\ f.key \in Key
        BY <1>0 DEF Lags, Held
      <3> QED
        BY <2>3, <2>6, <3>1 DEF HeldLag
    <2>9. ASSUME NEW f \in flights, f.reply # NoValue
          PROVE lag'[f.key][f.reply] <= f.age + 1
      <3>1. f.reply \in Value /\ lag[f.key][f.reply] <= f.age
        BY <1>0, <2>9 DEF Lags
      <3>2. /\ lag'[f.key][f.reply] <= lag[f.key][f.reply] + 1
            /\ lag'[f.key][f.reply] \in Nat /\ lag[f.key][f.reply] \in Nat
            /\ f.age \in Nat
        BY <1>0, <2>2, <3>1
      <3> QED
        BY <3>1, <3>2
    <2>10. \A g \in flights' : HeldLag(g.key, g.prev)'
      BY <2>1, <2>3, <2>8
    <2>11. \A g \in flights' : g.reply # NoValue => lag'[g.key][g.reply] <= g.age
      BY <2>1, <2>3, <2>9
    <2> QED
      BY <2>5, <2>7, <2>10, <2>11 DEF Lags
  <1>8. CASE UNCHANGED vars
    BY <1>8 DEF vars, Lags, LagZero, HeldLag
  <1> QED
    BY <1>1, <1>2, <1>3, <1>4, <1>5, <1>6, <1>7, <1>8 DEF Next

\* The cache's freshness promise, for any TTL, timeout and interleaving: a value
\* handed out as fresh was current less than its TTL and one timeout ago.
THEOREM StalenessBounded == Spec => []BoundedStaleness
  <1>1. Init => Lags
    BY CacheConstants, VersionConstants
    DEF Init, CacheInit, Lags, LagZero, HeldLag, Absent
  <1>2. TypeOK /\ Lags => BoundedStaleness
    <2> SUFFICES ASSUME TypeOK, Lags, NEW k \in Key, NEW ttl \in 0 .. MaxAge,
                        HasFresh(k, ttl)
                 PROVE lag[k][entries[k].val] < LoadTimeout + ttl
      BY DEF BoundedStaleness
    <2>1. entries[k].age \in 0 .. MaxAge /\ entries[k].has /\ entries[k].age < ttl
      BY DEF TypeOK, CacheTypeOK, Entry, HasFresh
    <2>2. /\ entries[k].val \in Value
          /\ lag[k][entries[k].val] <= LoadTimeout + entries[k].age
      BY <2>1, CacheConstants DEF Lags, HeldLag
    <2>3. lag[k][entries[k].val] \in 0 .. MaxLag
      BY <2>2 DEF TypeOK
    <2> QED
      BY <2>1, <2>2, <2>3, CacheConstants, VersionConstants
  <1> QED
    BY <1>1, <1>2, TypeCorrect, NextLags, PTL DEF Spec
-----------------------------------------------------------------------------
(* Order of versions. *)

\* Where no invalidation overtook a load, a key holds nothing from before its last
\* invalidation, and what one load brought it still has.
KeyOrder(k) ==
    /\ settled[k] <= version[k]
    /\ entries[k].has => entries[k].val <= version[k]
    /\ crossed[k] = "clear" => /\ entries[k].has => settled[k] <= entries[k].val
                               /\ known[k] => entries[k].has

\* A load that started after the overtaken ones ended reads nothing from before the
\* invalidation; where none was overtaken, its placeholder is the entry as it is,
\* and what it reads is not older.
FlightOrder(f) ==
    /\ f.prev.has => f.prev.val <= version[f.key]
    /\ f.reply # NoValue => f.reply <= version[f.key]
    /\ (crossed[f.key] # "flying" /\ f.reply # NoValue) => settled[f.key] <= f.reply
    /\ crossed[f.key] = "clear" =>
         /\ f.prev.has = entries[f.key].has /\ f.prev.val = entries[f.key].val
         /\ (entries[f.key].has /\ f.reply # NoValue) => entries[f.key].val <= f.reply

Ordered ==
    /\ \A k \in Key : KeyOrder(k)
    /\ \A f \in flights : FlightOrder(f)

\* Unless the key is flying, its load is alone.
LEMMA LoadAlone ==
  ASSUME Owned, Attached, NEW f \in flights, NEW g \in flights, g.key = f.key,
         crossed[f.key] # "flying"
  PROVE  g = f
  BY DEF Owned, Attached

\* Every step keeps versions in order.
LEMMA NextOrdered ==
    TypeOK /\ CacheFilled /\ Owned /\ Attached /\ Ordered /\ [Next]_vars => Ordered'
  <1> SUFFICES ASSUME TypeOK, CacheFilled, Owned, Attached, Ordered, [Next]_vars
               PROVE  Ordered'
    OBVIOUS
  <1> USE CacheConstants
  <1>0. /\ \A f \in flights : /\ f \in Flight /\ f.key \in Key /\ f.prev \in Held
                              /\ f.reply \in Value \cup {NoValue}
                              /\ f.prev.has => f.prev.val \in Value
        /\ \A k \in Key : /\ entries[k] \in Entry
                          /\ entries[k].has => entries[k].val \in Value
                          /\ version[k] \in Value /\ settled[k] \in Value
        /\ Value \subseteq Nat
    BY VersionConstants DEF TypeOK, CacheTypeOK, CacheFilled, Filled, Flight
  <1>1. ASSUME NEW k \in Key, Change(k) PROVE Ordered'
    <2>1. ASSUME NEW j \in Key
          PROVE  version'[j] \in Nat /\ \A n \in Nat : n <= version[j] => n <= version'[j]
      <3>1. version[j] \in Nat /\ version'[j] = IF j = k THEN version[j] + 1 ELSE version[j]
        BY <1>0, <1>1 DEF Change, TypeOK
      <3> QED
        BY <3>1
    <2>2. UNCHANGED <<entries, flights, settled, crossed, known>>
      BY <1>1 DEF Change, history
    <2>3. ASSUME NEW j \in Key PROVE KeyOrder(j)'
      <3>1. KeyOrder(j) /\ settled[j] \in Nat /\ (entries[j].has => entries[j].val \in Nat)
        BY <1>0 DEF Ordered
      <3> QED
        BY <2>1, <2>2, <3>1 DEF KeyOrder
    <2>4. ASSUME NEW f \in flights PROVE FlightOrder(f)'
      <3>1. /\ FlightOrder(f) /\ f.key \in Key
            /\ f.prev.has => f.prev.val \in Nat
            /\ f.reply # NoValue => f.reply \in Nat
        BY <1>0 DEF Ordered
      <3> QED
        BY <2>1, <2>2, <3>1 DEF FlightOrder
    <2> QED
      BY <2>2, <2>3, <2>4 DEF Ordered
  <1>2. ASSUME NEW c \in Caller, NEW k \in Key, NEW ttl \in 0 .. MaxAge,
               Fetch(c, k, ttl)
        PROVE Ordered'
    <2>1. CASE Join(c, k, ttl)
      BY <1>2, <2>1 DEF Fetch, Join, Ordered, KeyOrder, FlightOrder
    <2>2. CASE StartLoad(c, k, ttl)
      <3>0. PICK new : new = NewFlight(c, k, entries[k])
        OBVIOUS
      <3>1. /\ new.key = k /\ new.reply = NoValue
            /\ new.prev.has = entries[k].has /\ new.prev.val = entries[k].val
        BY <3>0 DEF NewFlight
      <3>2. flights' = flights \cup {new} /\ UNCHANGED <<version, settled, crossed, known>>
        BY <1>2, <2>2, <3>0 DEF Fetch, StartLoad, Load
      <3>3. \A j \in Key : entries'[j].has = entries[j].has /\ entries'[j].val = entries[j].val
        BY <1>0, <2>2 DEF StartLoad, Load, Entry
      <3>4. \A j \in Key : KeyOrder(j)'
        BY <3>2, <3>3 DEF Ordered, KeyOrder
      <3>5. ASSUME NEW f \in flights PROVE FlightOrder(f)'
        BY <1>0, <3>2, <3>3 DEF Ordered, FlightOrder
      <3>6. FlightOrder(new)'
        BY <3>1, <3>2, <3>3 DEF Ordered, KeyOrder, FlightOrder
      <3> QED
        BY <3>2, <3>4, <3>5, <3>6 DEF Ordered
    <2> QED
      BY <1>2, <2>1, <2>2 DEF Fetch
  <1>3. ASSUME NEW f \in flights, Serve(f) PROVE Ordered'
    <2>0. PICK answered : answered = [f EXCEPT !.reply = version[f.key]]
      OBVIOUS
    <2>1. /\ answered.key = f.key /\ answered.prev = f.prev
          /\ answered.reply = version[f.key]
      BY <1>0, <2>0 DEF Flight
    <2>2. /\ flights' = (flights \ {f}) \cup {answered}
          /\ UNCHANGED <<entries, version, settled, crossed, known>>
      BY <1>3, <2>0 DEF Serve, Answer
    <2>3. \A j \in Key : KeyOrder(j)'
      BY <2>2 DEF Ordered, KeyOrder
    \* It reads the version of now, which nothing stored exceeds.
    <2>4. FlightOrder(answered)'
      <3>1. FlightOrder(f) /\ KeyOrder(f.key) /\ version[f.key] \in Nat
        BY <1>0 DEF Ordered
      <3> QED
        BY <2>1, <2>2, <3>1 DEF KeyOrder, FlightOrder
    <2>5. ASSUME NEW g \in flights PROVE FlightOrder(g)'
      BY <2>2 DEF Ordered, FlightOrder
    <2> QED
      BY <2>2, <2>3, <2>4, <2>5 DEF Ordered
  \* The end of a load: nothing of another key changes, and what is left of the
  \* loads of this one is those of a flying key.
  <1>4. ASSUME NEW f \in flights, Release(f), UNCHANGED <<version, settled>>,
               \A k \in Key \ {f.key} :
                 /\ entries'[k] = entries[k] /\ crossed'[k] = crossed[k]
                 /\ known'[k] = known[k],
               crossed[f.key] = "flying" => crossed'[f.key] # "clear",
               crossed[f.key] = "flying" /\ crossed'[f.key] # "flying"
                 => FlightsOf(f.key) = {f},
               KeyOrder(f.key)'
        PROVE Ordered'
    <2>1. flights' = flights \ {f}
      BY <1>4 DEF Release
    <2>2. \A k \in Key : KeyOrder(k)'
      BY <1>4 DEF Ordered, KeyOrder
    <2>3. ASSUME NEW g \in flights', g.key # f.key PROVE FlightOrder(g)'
      BY <1>0, <1>4, <2>1, <2>3 DEF Ordered, FlightOrder
    <2>4. ASSUME NEW g \in flights', g.key = f.key PROVE FlightOrder(g)'
      <3>1. g \in flights /\ g # f
        BY <2>1
      <3>2. crossed[f.key] = "flying"
        BY <2>4, <3>1, LoadAlone
      <3>3. crossed'[f.key] = "flying"
        BY <1>4, <2>4, <3>1, <3>2 DEF FlightsOf
      <3> QED
        BY <1>4, <2>4, <3>1, <3>2, <3>3 DEF Ordered, FlightOrder
    <2> QED
      BY <2>2, <2>3, <2>4 DEF Ordered
  <1>5. ASSUME NEW f \in flights, Stored(f) PROVE Ordered'
    <2>1. /\ Release(f) /\ f.reply # NoValue /\ UNCHANGED <<version, settled>>
          /\ entries'[f.key].has /\ entries'[f.key].val = f.reply
          /\ crossed'[f.key] = IF crossed[f.key] = "landed" THEN "clear" ELSE Landing(f)
          /\ \A k \in Key \ {f.key} : /\ entries'[k] = entries[k] /\ crossed'[k] = crossed[k]
                                      /\ known'[k] = known[k]
      BY <1>0, <1>5 DEF Stored, Resolve, TypeOK, CacheTypeOK
    <2>2. /\ crossed[f.key] = "flying" => crossed'[f.key] # "clear"
          /\ crossed[f.key] = "flying" /\ crossed'[f.key] # "flying"
                 => FlightsOf(f.key) = {f}
      BY <2>1 DEF Landing
    <2>3. KeyOrder(f.key)'
      BY <1>0, <2>1, <2>2 DEF Ordered, FlightOrder, KeyOrder
    <2> QED
      BY <1>4, <2>1, <2>2, <2>3
  <1>6. ASSUME NEW f \in flights, Failed(f) PROVE Ordered'
    <2>1. /\ Release(f) /\ UNCHANGED <<version, settled, known>>
          /\ entries'[f.key] = IF f.prev.has THEN EntryOf(f.prev) ELSE Absent
          /\ crossed'[f.key] = Landing(f)
          /\ \A k \in Key \ {f.key} : entries'[k] = entries[k] /\ crossed'[k] = crossed[k]
      BY <1>0, <1>6 DEF Failed, Fail, TypeOK, CacheTypeOK
    <2>2. entries'[f.key].has = f.prev.has /\ (f.prev.has => entries'[f.key].val = f.prev.val)
      <3>1. f.prev.has \in BOOLEAN
        BY <1>0 DEF Held
      <3>2. CASE f.prev.has = TRUE
        BY <2>1, <3>2 DEF EntryOf
      <3>3. CASE f.prev.has = FALSE
        <4>1. entries'[f.key] = Absent /\ Absent.has = FALSE
          BY <2>1, <3>3 DEF Absent
        <4> QED
          BY <3>3, <4>1
      <3> QED
        BY <3>1, <3>2, <3>3
    <2>3. /\ crossed[f.key] = "flying" => crossed'[f.key] # "clear"
          /\ crossed[f.key] = "flying" /\ crossed'[f.key] # "flying"
                 => FlightsOf(f.key) = {f}
          /\ crossed'[f.key] = "clear" => crossed[f.key] = "clear"
      BY <2>1 DEF Landing
    <2>4. KeyOrder(f.key)'
      BY <1>0, <2>1, <2>2, <2>3 DEF Ordered, FlightOrder, KeyOrder
    <2> QED
      BY <1>4, <2>1, <2>3, <2>4
  <1>7. ASSUME NEW K \in Family, Drop(K) PROVE Ordered'
    <2>1. ASSUME NEW k \in Key, k \in K
          PROVE  /\ ~entries'[k].has /\ settled'[k] = version[k] /\ ~known'[k]
                 /\ crossed'[k] = IF FlightsOf(k) = {} THEN "clear" ELSE "flying"
      BY <1>7, <2>1, AbsentTyped DEF Drop, Invalidate, Without
    <2>2. ASSUME NEW k \in Key, k \notin K
          PROVE  /\ entries'[k] = entries[k] /\ settled'[k] = settled[k]
                 /\ crossed'[k] = crossed[k] /\ (known'[k] => known[k])
      BY <1>7, <2>2 DEF Drop, Invalidate, Without
    <2>3. UNCHANGED <<flights, version>>
      BY <1>7 DEF Drop, Invalidate
    <2>4. ASSUME NEW k \in Key PROVE KeyOrder(k)'
      <3>1. KeyOrder(k) /\ version[k] \in Nat
        BY <1>0 DEF Ordered
      <3>2. CASE k \in K
        BY <2>1, <2>3, <3>1, <3>2 DEF KeyOrder
      <3>3. CASE k \notin K
        BY <2>2, <2>3, <3>1, <3>3 DEF KeyOrder
      <3> QED
        BY <3>2, <3>3
    <2>5. ASSUME NEW f \in flights PROVE FlightOrder(f)'
      <3>1. CASE f.key \in K
        <4>1. FlightsOf(f.key) # {}
          BY DEF FlightsOf
        <4> QED
          BY <1>0, <2>1, <2>3, <3>1, <4>1 DEF Ordered, FlightOrder
      <3>2. CASE f.key \notin K
        BY <1>0, <2>2, <2>3, <3>2 DEF Ordered, FlightOrder
      <3> QED
        BY <3>1, <3>2
    <2> QED
      BY <2>3, <2>4, <2>5 DEF Ordered
  <1>8. CASE Tick
    <2>1. /\ UNCHANGED <<version, settled, crossed, known>>
          /\ flights' = {Aged(f) : f \in flights}
      BY <1>8 DEF Tick, CacheTick
    <2>2. \A f \in flights :
            /\ Aged(f).key = f.key /\ Aged(f).reply = f.reply
            /\ Aged(f).prev.has = f.prev.has /\ Aged(f).prev.val = f.prev.val
      BY <1>0 DEF Aged, Flight, Held
    <2>3. \A k \in Key : entries'[k].has = entries[k].has /\ entries'[k].val = entries[k].val
      BY <1>0, <1>8 DEF Tick, CacheTick, Entry
    <2>4. \A k \in Key : KeyOrder(k)'
      BY <2>1, <2>3 DEF Ordered, KeyOrder
    <2>5. ASSUME NEW f \in flights PROVE FlightOrder(Aged(f))'
      BY <1>0, <2>1, <2>2, <2>3 DEF Ordered, FlightOrder
    <2> QED
      BY <2>1, <2>4, <2>5 DEF Ordered
  <1>9. CASE UNCHANGED vars
    BY <1>9 DEF vars, Ordered, KeyOrder, FlightOrder
  <1> QED
    BY <1>1, <1>2, <1>3, <1>5, <1>6, <1>7, <1>8, <1>9 DEF Next

\* The order holds from the start on.
LEMMA AlwaysOrdered ==
    Spec => [](TypeOK /\ CacheFilled /\ Owned /\ Attached /\ Ordered)
  <1>1. Init => Owned /\ Attached /\ Ordered
    BY AbsentTyped DEF Init, CacheInit, Owned, Attached, Ordered, KeyOrder
  <1> QED
    BY <1>1, InitTypeOK, NextTypeOK, NextAttached, NextOrdered, PTL DEF Spec

\* A blip upstream never blanks a key: what a load brought stays there to fall back
\* on, for any number of loads, failures and readers, until it is invalidated.
THEOREM FallbackKept == Spec => []StaleOnError
  <1>1. Ordered => StaleOnError
    <2> SUFFICES ASSUME Ordered, NEW k \in Key, known[k], crossed[k] = "clear"
                 PROVE  entries[k].has /\ \A f \in FlightsOf(k) : f.prev.has
      BY DEF StaleOnError
    <2> QED
      BY DEF Ordered, KeyOrder, FlightOrder, FlightsOf
  <1> QED
    BY <1>1, AlwaysOrdered, PTL

\* Reads after an invalidation that overtook no load see what was current then.
THEOREM BarrierHolds == Spec => []BarrierWhenQuiet
  <1>1. TypeOK /\ Ordered => BarrierWhenQuiet
    <2> SUFFICES ASSUME TypeOK, Ordered, NEW k \in Key, crossed[k] = "clear"
                 PROVE  /\ entries[k].has => entries[k].val >= settled[k]
                        /\ \A f \in FlightsOf(k) :
                             (f.by = entries[k].inflight /\ f.reply # NoValue)
                               => f.reply >= settled[k]
      BY DEF BarrierWhenQuiet
    <2>1. KeyOrder(k) /\ \A f \in FlightsOf(k) : f.key = k /\ FlightOrder(f)
      BY DEF Ordered, FlightsOf
    <2> QED
      BY <2>1 DEF KeyOrder, FlightOrder
  <1> QED
    BY <1>1, AlwaysOrdered, PTL

\* No late answer replaces a newer one, while no invalidation overtakes a load.
THEOREM ValuesMoveForward == Spec => NeverBackwards
  <1>1. TypeOK /\ CacheFilled /\ Ordered /\ [Next]_vars =>
          \A k \in Key :
            (entries[k].has /\ entries'[k].has /\ crossed[k] = "clear" /\ crossed'[k] = "clear")
              => entries'[k].val >= entries[k].val
    <2> SUFFICES ASSUME TypeOK, CacheFilled, Ordered, [Next]_vars, NEW k \in Key,
                        entries[k].has, entries'[k].has, crossed[k] = "clear"
                 PROVE  entries'[k].val >= entries[k].val
      OBVIOUS
    <2>1. /\ \A f \in flights : f \in Flight /\ f.prev \in Held /\ f.key \in Key
          /\ entries \in [Key -> Entry]
      BY DEF TypeOK, CacheTypeOK, Flight
    <2>0. entries[k].val \in Nat
      BY VersionConstants DEF CacheFilled, Filled
    <2>2. CASE entries'[k].val = entries[k].val
      BY <2>0, <2>2
    <2>3. ASSUME NEW f \in flights, Stored(f) PROVE entries'[k].val >= entries[k].val
      <3>1. f.reply # NoValue /\ entries' = [entries EXCEPT ![f.key] =
                     [has |-> TRUE, val |-> f.reply, age |-> 0, inflight |-> Nobody]]
        BY <2>3 DEF Stored, Resolve
      <3>2. CASE f.key = k
        <4>1. FlightOrder(f)
          BY DEF Ordered
        <4>2. entries[k].val <= f.reply /\ entries'[k].val = f.reply
          BY <2>1, <3>1, <3>2, <4>1 DEF FlightOrder
        <4>3. f.reply \in Nat
          BY <2>1, <3>1, VersionConstants DEF Flight
        <4> QED
          BY <2>0, <4>2, <4>3
      <3> QED
        BY <2>1, <2>2, <3>1, <3>2
    <2>4. ASSUME NEW f \in flights, Failed(f) PROVE entries'[k].val = entries[k].val
      <3>1. entries' = [entries EXCEPT ![f.key] =
                          IF f.prev.has THEN EntryOf(f.prev) ELSE Absent]
        BY <2>4 DEF Failed, Fail
      <3>2. FlightOrder(f)
        BY DEF Ordered
      <3> QED
        BY <2>1, <3>1, <3>2 DEF FlightOrder, EntryOf, Absent
    <2>5. ASSUME NEW K \in Family, Drop(K) PROVE entries'[k].val = entries[k].val
      BY <2>5, AbsentTyped DEF Drop, Invalidate, Without
    <2>6. ASSUME NEW c \in Caller, NEW j \in Key, NEW ttl \in 0 .. MaxAge, Fetch(c, j, ttl)
          PROVE  entries'[k].val = entries[k].val
      BY <2>1, <2>6 DEF Fetch, Join, StartLoad, Load, Entry
    <2>7. CASE Tick
      <3>1. entries' = [j \in Key |-> [entries[j] EXCEPT !.age = Older(@)]]
        BY <2>7 DEF Tick, CacheTick
      <3>2. entries[k] \in Entry /\ entries'[k] = [entries[k] EXCEPT !.age = Older(@)]
        BY <2>1, <3>1
      <3>3. entries'[k].val = entries[k].val
        BY <3>2 DEF Entry
      <3> QED
        BY <2>2, <3>3
    <2>8. CASE (\E j \in Key : Change(j)) \/ (\E f \in flights : Serve(f)) \/ UNCHANGED vars
      <3>1. entries' = entries
        BY <2>8 DEF Change, Serve, Answer, vars
      <3> QED
        BY <2>2, <3>1
    <2> QED
      BY <2>2, <2>3, <2>4, <2>5, <2>6, <2>7, <2>8 DEF Next
  <1>2. TypeOK /\ CacheFilled /\ Ordered /\ [Next]_vars =>
          [\A k \in Key :
             (entries[k].has /\ entries'[k].has /\ crossed[k] = "clear" /\ crossed'[k] = "clear")
               => entries'[k].val >= entries[k].val]_vars
    BY <1>1
  <1> QED
    BY <1>2, AlwaysOrdered, PTL DEF Spec, NeverBackwards
=============================================================================
