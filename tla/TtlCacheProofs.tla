--------------------------- MODULE TtlCacheProofs ---------------------------
(***************************************************************************)
(* Lemmas about the operations of TtlCache, for the modules that build on  *)
(* it: each keeps the cache's types, and never leaves an entry or a        *)
(* placeholder that claims a value it does not hold.                       *)
(***************************************************************************)
EXTENDS TtlCache, TLAPS

\* What is said to hold a value holds one.
Filled(h) == h.has => h.val \in Value

CacheFilled ==
    /\ \A k \in Key : Filled(entries[k])
    /\ \A f \in flights : Filled(f.prev)

CacheOK == CacheTypeOK /\ CacheFilled

\* An entry that is not there is an entry.
LEMMA AbsentTyped == Absent \in Entry /\ ~Absent.has
BY CacheConstants DEF Absent, Entry

LEMMA InitCacheOK == CacheInit => CacheOK
BY AbsentTyped DEF CacheInit, CacheOK, CacheTypeOK, CacheFilled, Filled

LEMMA JoinOK == ASSUME CacheOK, NEW c \in Caller, NEW k \in Key, NEW ttl, Join(c, k, ttl)
                PROVE  CacheOK'
<1>1. entries[k].inflight \in Caller \cup {Nobody}
  BY DEF CacheOK, CacheTypeOK, Entry
<1> QED BY <1>1 DEF CacheOK, CacheTypeOK, CacheFilled, Filled, Join

\* A load leaves well-formed what it finds, whatever entries it finds.
LEMMA LoadOK ==
  ASSUME CacheOK, NEW es \in [Key -> Entry], \A k \in Key : Filled(es[k]),
         NEW c \in Caller, NEW k \in Key, Load(es, c, k)
  PROVE  CacheOK'
<1> DEFINE held == [has |-> es[k].has, val |-> es[k].val, age |-> es[k].age]
           new == NewFlight(c, k, es[k])
           put == [es[k] EXCEPT !.inflight = c]
<1>1. es[k] \in Entry /\ Filled(es[k])
  OBVIOUS
<1>2. held \in Held /\ Filled(held)
  BY <1>1 DEF Entry, Held, Filled
<1>3. 0 \in 0 .. LoadTimeout
  BY CacheConstants
<1>4. new \in Flight /\ new.prev = held
  BY <1>2, <1>3 DEF Flight, NewFlight
<1>5. put \in Entry /\ Filled(put)
  BY <1>1 DEF Entry, Filled
<1>6. /\ flights' = flights \cup {new}
      /\ entries' = [es EXCEPT ![k] = put]
      /\ waits' = [waits EXCEPT ![c] = c]
  BY DEF Load
<1> HIDE DEF held, new, put
<1>7. CacheTypeOK'
  BY <1>4, <1>5, <1>6 DEF CacheOK, CacheTypeOK
<1>8. CacheFilled'
  BY <1>2, <1>4, <1>5, <1>6 DEF CacheOK, CacheFilled
<1> QED BY <1>7, <1>8 DEF CacheOK

LEMMA StartLoadOK ==
  ASSUME CacheOK, NEW c \in Caller, NEW k \in Key, NEW ttl, StartLoad(c, k, ttl)
  PROVE  CacheOK'
<1>1. entries \in [Key -> Entry] /\ \A j \in Key : Filled(entries[j])
  BY DEF CacheOK, CacheTypeOK, CacheFilled
<1>2. Load(entries, c, k)
  BY DEF StartLoad
<1> QED BY <1>1, <1>2, LoadOK

LEMMA AnswerOK == ASSUME CacheOK, NEW f, NEW v \in Value, Answer(f, v)
                  PROVE  CacheOK'
<1>1. f \in flights /\ f \in Flight /\ Filled(f.prev)
  BY DEF Answer, CacheOK, CacheTypeOK, CacheFilled
<1>2. [f EXCEPT !.reply = v] \in Flight /\ [f EXCEPT !.reply = v].prev = f.prev
  BY <1>1 DEF Flight
<1>3. UNCHANGED <<entries, waits>> /\ flights' = (flights \ {f}) \cup {[f EXCEPT !.reply = v]}
  BY DEF Answer
<1>4. CacheTypeOK'
  BY <1>2, <1>3 DEF CacheOK, CacheTypeOK
<1>5. CacheFilled'
  BY <1>1, <1>2, <1>3 DEF CacheOK, CacheFilled, Filled
<1> QED BY <1>4, <1>5 DEF CacheOK

\* The end of a load, when what it puts in its entry is well-formed.
LEMMA LandOK ==
  ASSUME CacheOK, NEW f \in flights, NEW e \in Entry, Filled(e),
         entries' = [entries EXCEPT ![f.key] = e], Release(f)
  PROVE  CacheOK'
<1>1. f.key \in Key
  BY DEF CacheOK, CacheTypeOK, Flight
<1>2. CacheTypeOK'
  BY <1>1 DEF CacheOK, CacheTypeOK, Release
<1>3. CacheFilled'
  BY <1>1 DEF CacheOK, CacheTypeOK, CacheFilled, Filled, Release
<1> QED BY <1>2, <1>3 DEF CacheOK

LEMMA ResolveOK == ASSUME CacheOK, NEW f \in flights, Resolve(f)
                   PROVE  CacheOK' /\ f.reply \in Value
<1> DEFINE e == [has |-> TRUE, val |-> f.reply, age |-> 0, inflight |-> Nobody]
<1>1. f \in Flight /\ f.reply # NoValue
  BY DEF CacheOK, CacheTypeOK, Resolve
<1>2. f.reply \in Value
  BY <1>1 DEF Flight
<1>3. 0 \in 0 .. MaxAge
  BY CacheConstants
<1>4. e \in Entry /\ Filled(e)
  BY <1>2, <1>3 DEF Entry, Filled
<1>5. entries' = [entries EXCEPT ![f.key] = e] /\ Release(f)
  BY DEF Resolve
<1> HIDE DEF e
<1> QED BY <1>2, <1>4, <1>5, LandOK

LEMMA FailOK == ASSUME CacheOK, NEW f \in flights, Fail(f)
                PROVE  CacheOK' /\ (f.prev.has => f.prev.val \in Value)
<1> DEFINE e == IF f.prev.has THEN EntryOf(f.prev) ELSE Absent
<1>1. f \in Flight /\ f.prev \in Held /\ Filled(f.prev)
  BY DEF CacheOK, CacheTypeOK, CacheFilled, Flight
<1>2. EntryOf(f.prev) \in Entry /\ (f.prev.has => Filled(EntryOf(f.prev)))
  BY <1>1 DEF EntryOf, Entry, Held, Filled
<1>3. e \in Entry /\ Filled(e)
  BY <1>2, AbsentTyped DEF Filled
<1>4. entries' = [entries EXCEPT ![f.key] = e] /\ Release(f)
  BY DEF Fail
<1> HIDE DEF e
<1>5. CacheOK'
  BY <1>3, <1>4, LandOK
<1> QED BY <1>1, <1>5 DEF Filled

\* Dropping keys leaves well-formed entries.
LEMMA WithoutOK ==
  ASSUME CacheOK, NEW K
  PROVE  Without(K) \in [Key -> Entry] /\ \A k \in Key : Filled(Without(K)[k])
BY AbsentTyped DEF CacheOK, CacheTypeOK, CacheFilled, Filled, Without

LEMMA InvalidateOK == ASSUME CacheOK, NEW K, Invalidate(K) PROVE CacheOK'
<1>1. entries' = Without(K) /\ UNCHANGED <<flights, waits>>
  BY DEF Invalidate
<1> QED BY <1>1, WithoutOK DEF CacheOK, CacheTypeOK, CacheFilled, Filled

LEMMA OlderTyped == \A a \in 0 .. MaxAge : Older(a) \in 0 .. MaxAge
BY CacheConstants DEF Older

\* A request that has not reached its timeout ages within its type.
LEMMA AgedTyped ==
  ASSUME NEW f \in Flight, f.age < LoadTimeout, Filled(f.prev)
  PROVE  Aged(f) \in Flight /\ Filled(Aged(f).prev)
<1> DEFINE p == [f.prev EXCEPT !.age = Older(@)]
<1>1. f.prev \in Held /\ f.age \in 0 .. LoadTimeout
  BY DEF Flight
<1>2. p \in Held /\ Filled(p)
  BY <1>1, OlderTyped DEF Held, Filled
<1>3. f.age + 1 \in 0 .. LoadTimeout
  BY <1>1, CacheConstants
<1>4. Aged(f) = [f EXCEPT !.age = f.age + 1, !.prev = p]
  BY <1>1 DEF Aged, Flight, Held
<1> HIDE DEF p
<1> QED BY <1>2, <1>3, <1>4 DEF Flight

LEMMA CacheTickOK == ASSUME CacheOK, CacheTick PROVE CacheOK'
<1>1. ASSUME NEW k \in Key
      PROVE  /\ [entries[k] EXCEPT !.age = Older(@)] \in Entry
             /\ Filled([entries[k] EXCEPT !.age = Older(@)])
  <2>1. entries[k] \in Entry /\ Filled(entries[k])
    BY DEF CacheOK, CacheTypeOK, CacheFilled
  <2>2. Older(entries[k].age) \in 0 .. MaxAge
    BY <2>1, OlderTyped DEF Entry
  <2> QED BY <2>1, <2>2 DEF Entry, Filled
<1>2. ASSUME NEW f \in flights PROVE Aged(f) \in Flight /\ Filled(Aged(f).prev)
  <2>1. f \in Flight /\ Filled(f.prev) /\ f.age < LoadTimeout
    BY DEF CacheOK, CacheTypeOK, CacheFilled, CacheTick
  <2> QED BY <2>1, AgedTyped
<1>3. /\ entries' = [k \in Key |-> [entries[k] EXCEPT !.age = Older(@)]]
      /\ flights' = {Aged(f) : f \in flights}
      /\ UNCHANGED waits
  BY DEF CacheTick
<1>4. CacheTypeOK'
  BY <1>1, <1>2, <1>3 DEF CacheOK, CacheTypeOK
<1>5. CacheFilled'
  BY <1>1, <1>2, <1>3 DEF CacheFilled
<1> QED BY <1>4, <1>5 DEF CacheOK
=============================================================================
