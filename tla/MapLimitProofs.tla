---------------------------- MODULE MapLimitProofs ----------------------------
(***************************************************************************)
(* Lemmas about the bounded fan-out of server/concurrency.ts, for the two  *)
(* loops that use it: a pool keeps to its list, no step makes it wider     *)
(* than it was launched, and it is launched no wider than Limit.           *)
(***************************************************************************)
EXTENDS MapLimit, FiniteSetTheorems, TLAPS

\* The pools over a list of items, a call being one of `calls`.
PoolOver(items, calls) ==
    [left : SUBSET items, at : UNION {[D -> calls] : D \in SUBSET items}]

\* Calls in flight.
Width(pool) == Cardinality(DOMAIN pool.at)

\* A pool over some items is one over more of them.
LEMMA PoolOverMore ==
  ASSUME NEW S, NEW T, S \subseteq T, NEW calls, NEW pool \in PoolOver(S, calls)
  PROVE  pool \in PoolOver(T, calls)
<1>1. PICK D \in SUBSET S : pool.at \in [D -> calls]
  BY DEF PoolOver
<1>2. pool.at \in UNION {[E -> calls] : E \in SUBSET T}
  BY <1>1
<1> QED BY <1>2 DEF PoolOver

\* The calls of a pool are for items of its list.
LEMMA PoolOverCalls ==
  ASSUME NEW S, NEW calls, NEW pool \in PoolOver(S, calls)
  PROVE  /\ pool.left \subseteq S /\ DOMAIN pool.at \subseteq S
         /\ \A i \in DOMAIN pool.at : pool.at[i] \in calls
         /\ pool.at \in [DOMAIN pool.at -> calls]
<1>1. PICK D \in SUBSET S : pool.at \in [D -> calls]
  BY DEF PoolOver
<1> QED BY <1>1 DEF PoolOver

\* How wide a pool over a finite list is, is a number, and 0 when it is idle.
LEMMA WidthNat ==
  ASSUME NEW S, IsFiniteSet(S), NEW calls, NEW pool \in PoolOver(S, calls)
  PROVE  /\ IsFiniteSet(DOMAIN pool.at)
         /\ Width(pool) \in Nat
         /\ Idle(pool) => Width(pool) = 0
<1>1. DOMAIN pool.at \subseteq S
  BY PoolOverCalls
<1>2. IsFiniteSet(DOMAIN pool.at)
  BY <1>1, FS_Subset
<1> QED BY <1>2, FS_CardinalityType, FS_EmptySet DEF Width, Idle

\* A pool that is over, or was never launched, has nothing left and nobody at work.
LEMMA IdlePoolOver ==
  ASSUME NEW S, NEW calls
  PROVE  IdlePool \in PoolOver(S, calls) /\ Idle(IdlePool) /\ Width(IdlePool) = 0
<1>1. DOMAIN IdlePool.at = {} /\ IdlePool.left = {}
  BY DEF IdlePool
<1>2. IdlePool.at \in [{} -> calls]
  BY DEF IdlePool
<1>3. IdlePool.at \in UNION {[D -> calls] : D \in SUBSET S}
  BY <1>2
<1>4. IdlePool \in PoolOver(S, calls)
  BY <1>3 DEF IdlePool, PoolOver
<1> QED BY <1>1, <1>4, FS_EmptySet DEF Idle, Width

\* mapLimit starts min(limit, items.length) workers: one at least if there is anything
\* to do, and Limit at most.
LEMMA LaunchedOver ==
  ASSUME NEW S, IsFiniteSet(S), NEW batch \in FirstBatch(S), NEW calls,
         NEW start, \A i \in S : start[i] \in calls
  PROVE  /\ Launched(S, batch, start) \in PoolOver(S, calls)
         /\ Width(Launched(S, batch, start)) \in Nat
         /\ Width(Launched(S, batch, start)) <= Limit
         /\ S # {} => ~Idle(Launched(S, batch, start))
         /\ batch \subseteq S
         /\ DOMAIN Launched(S, batch, start).at = batch
         /\ \A i \in batch : Launched(S, batch, start).at[i] = start[i]
<1> DEFINE pool == Launched(S, batch, start)
<1>1. batch \subseteq S /\ IsFiniteSet(batch)
  BY FS_Subset DEF FirstBatch
<1>2. pool.left = S \ batch /\ pool.at = [i \in batch |-> start[i]]
  BY DEF Launched
<1>3. pool.at \in [batch -> calls]
  BY <1>1, <1>2
<1>4. pool \in PoolOver(S, calls)
  BY <1>1, <1>2, <1>3 DEF PoolOver, Launched
<1>5. Cardinality(batch) =
        IF Cardinality(S) < Limit THEN Cardinality(S) ELSE Limit
  BY DEF FirstBatch
<1>6. Cardinality(S) \in Nat /\ Cardinality(batch) \in Nat
  BY <1>1, FS_CardinalityType
<1>7. Cardinality(batch) <= Limit
  BY <1>5, <1>6, LimitConstant
<1>8. ASSUME S # {} PROVE batch # {}
  <2>1. Cardinality(S) # 0
    BY <1>8, FS_EmptySet
  <2>2. Cardinality(batch) # 0
    BY <2>1, <1>5, LimitConstant
  <2> QED BY <2>2, FS_EmptySet
<1>9. DOMAIN pool.at = batch
  BY <1>2
<1> QED BY <1>1, <1>2, <1>4, <1>6, <1>7, <1>8, <1>9 DEF Width, Idle

\* A worker that goes on takes one item or none: the pool is no wider than before.
LEMMA AdvancedOver ==
  ASSUME NEW S, IsFiniteSet(S), NEW calls, NEW pool \in PoolOver(S, calls),
         NEW i \in DOMAIN pool.at, NEW next \in Onwards(pool.left),
         NEW start, \A j \in S : start[j] \in calls
  PROVE  /\ Advanced(pool, i, next, start) \in PoolOver(S, calls)
         /\ Width(Advanced(pool, i, next, start)) \in Nat
         /\ Width(Advanced(pool, i, next, start)) <= Width(pool)
         /\ Idle(Advanced(pool, i, next, start)) =>
              Advanced(pool, i, next, start).left = {}
<1> DEFINE new == Advanced(pool, i, next, start)
           rest == DOMAIN pool.at \ {i}
<1>1. /\ pool.left \subseteq S /\ DOMAIN pool.at \subseteq S
      /\ \A j \in DOMAIN pool.at : pool.at[j] \in calls
  BY PoolOverCalls
<1>2. next \subseteq pool.left
  BY DEF Onwards
<1>3. /\ new = [left |-> pool.left \ next, at |-> new.at]
      /\ new.left = pool.left \ next
      /\ new.at = [j \in rest \cup next |-> IF j \in next THEN start[j] ELSE pool.at[j]]
  BY DEF Advanced
<1> HIDE DEF new
<1>4. new.at \in [rest \cup next -> calls] /\ rest \cup next \subseteq S
  BY <1>1, <1>2, <1>3
<1>5. new \in PoolOver(S, calls)
  BY <1>1, <1>3, <1>4 DEF PoolOver
<1>6. /\ IsFiniteSet(DOMAIN pool.at) /\ Width(pool) \in Nat
  BY WidthNat
<1>7. IsFiniteSet(rest) /\ Cardinality(rest) = Width(pool) - 1
  BY <1>6, FS_RemoveElement DEF Width
<1>8. Width(new) \in Nat /\ Width(new) <= Width(pool)
  <2>1. DOMAIN new.at = rest \cup next
    BY <1>4
  <2>2. Cardinality(rest) \in Nat
    BY <1>7, FS_CardinalityType
  <2>3. CASE pool.left = {}
    <3>1. DOMAIN new.at = rest
      BY <2>1, <2>3, <1>2
    <3>2. Width(new) = Cardinality(rest)
      BY <3>1 DEF Width
    <3> QED BY <3>2, <2>2, <1>6, <1>7
  <2>4. CASE pool.left # {}
    <3>1. PICK j : next = {j}
      BY <2>4 DEF Onwards
    <3>2. Cardinality(rest \cup {j}) \in {Cardinality(rest), Cardinality(rest) + 1}
      BY <1>7, FS_AddElement
    <3>3. Width(new) \in {Cardinality(rest), Cardinality(rest) + 1}
      BY <3>1, <3>2, <2>1 DEF Width
    <3> QED BY <3>3, <2>2, <1>6, <1>7
  <2> QED BY <2>3, <2>4
<1>9. Idle(new) => new.left = {}
  <2>1. pool.left # {} => next # {}
    BY DEF Onwards
  <2> QED BY <2>1, <1>3 DEF Idle
<1> QED BY <1>5, <1>8, <1>9 DEF new

\* A worker that rejects leaves the pool narrower by one.
LEMMA DroppedOver ==
  ASSUME NEW S, IsFiniteSet(S), NEW calls, NEW pool \in PoolOver(S, calls),
         NEW i \in DOMAIN pool.at
  PROVE  /\ Dropped(pool, i) \in PoolOver(S, calls)
         /\ Width(Dropped(pool, i)) = Width(pool) - 1
         /\ DOMAIN Dropped(pool, i).at = DOMAIN pool.at \ {i}
         /\ \A j \in DOMAIN pool.at \ {i} : Dropped(pool, i).at[j] = pool.at[j]
         /\ Dropped(pool, i).left = pool.left
<1> DEFINE new == Dropped(pool, i)
           rest == DOMAIN pool.at \ {i}
<1>1. /\ pool.left \subseteq S /\ DOMAIN pool.at \subseteq S
      /\ \A j \in DOMAIN pool.at : pool.at[j] \in calls
  BY PoolOverCalls
<1>2. new = [left |-> pool.left, at |-> [j \in rest |-> pool.at[j]]]
  BY DEF Dropped, PoolOver
<1>3. new.at \in [rest -> calls] /\ rest \subseteq S /\ DOMAIN new.at = rest
  BY <1>1, <1>2
<1>4. new \in PoolOver(S, calls)
  BY <1>1, <1>2, <1>3 DEF PoolOver
<1>5. IsFiniteSet(DOMAIN pool.at)
  BY WidthNat
<1>6. Width(new) = Width(pool) - 1
  BY <1>3, <1>5, FS_RemoveElement DEF Width
<1> QED BY <1>2, <1>3, <1>4, <1>6
=============================================================================
