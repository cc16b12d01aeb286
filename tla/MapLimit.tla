------------------------------- MODULE MapLimit -------------------------------
(***************************************************************************)
(* The bounded fan-out, server/concurrency.ts: at most Limit workers walk  *)
(* one list.  A pool is what is left of the list and what the workers are  *)
(* at.  The order of the list is Coolify's, so any item left may be next.  *)
(***************************************************************************)
EXTENDS Naturals, FiniteSets

CONSTANT Limit     \* calls in flight at most

ASSUME LimitConstant == Limit \in Nat \ {0}

\* Mutant of FirstBatch: one worker per item.
FirstBatchAll(items) == {items}

\* The items the workers may start with.
FirstBatch(items) ==
    {S \in SUBSET items :
        Cardinality(S) = IF Cardinality(items) < Limit THEN Cardinality(items) ELSE Limit}

\* What a worker may go on to when its call is over: an item, or nothing at the end.
Onwards(left) == IF left = {} THEN {{}} ELSE {{i} : i \in left}

IdlePool == [left |-> {}, at |-> [i \in {} |-> 0]]

\* A pool whose workers start `batch`, each call beginning in state start[i].
Launched(items, batch, start) ==
    [left |-> items \ batch, at |-> [i \in batch |-> start[i]]]

\* The worker at item i goes on to `next`.
Advanced(pool, i, next, start) ==
    [left |-> pool.left \ next,
     at   |-> [j \in (DOMAIN pool.at \ {i}) \cup next |->
                 IF j \in next THEN start[j] ELSE pool.at[j]]]

\* The worker at item i rejected: it ends, and the others go on.
Dropped(pool, i) ==
    [pool EXCEPT !.at = [j \in DOMAIN pool.at \ {i} |-> pool.at[j]]]

Idle(pool) == DOMAIN pool.at = {}
=============================================================================
