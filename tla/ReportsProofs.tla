----------------------------- MODULE ReportsProofs -----------------------------
(***************************************************************************)
(* Proofs about Mappers and Reports, for every world their assumptions     *)
(* allow: what a sort returns, and from it the requirements of the panel   *)
(* of insights, of the strip, of the cards and of the answers of the BFF.  *)
(* A behaviour is one step, so each requirement is a fact about a function *)
(* of the world, carried by the invariant that what is shown is computed   *)
(* from the world that was chosen.                                         *)
(***************************************************************************)
EXTENDS Reports, FiniteSetTheorems, SequenceTheorems, TLAPS

-----------------------------------------------------------------------------
(* Sorting. *)

\* `ahead` orders S: every two are one before the other, and none before itself.
Ordering(S, ahead) ==
    /\ ahead \in [S -> SUBSET S]
    /\ \A x \in S : x \notin ahead[x]
    /\ \A x, y \in S : x # y => x \in ahead[y] \/ y \in ahead[x]
    /\ \A x, y \in S : x \in ahead[y] => ahead[x] \subseteq ahead[y]

\* A part of a finite set that leaves an element out is smaller.
LEMMA PartIsSmaller ==
  ASSUME NEW S, IsFiniteSet(S), NEW T \in SUBSET S, NEW x \in S, x \notin T
  PROVE  /\ IsFiniteSet(T) /\ Cardinality(T) \in Nat /\ Cardinality(S) \in Nat
         /\ Cardinality(T) < Cardinality(S)
<1>1. IsFiniteSet(T) /\ Cardinality(T) <= Cardinality(S) /\ (Cardinality(S) = Cardinality(T) => S = T)
  BY FS_Subset
<1>2. Cardinality(T) \in Nat /\ Cardinality(S) \in Nat
  BY <1>1, FS_CardinalityType
<1>3. Cardinality(S) # Cardinality(T)
  BY <1>1
<1> QED BY <1>1, <1>2, <1>3

\* InOrder returns each element once, in a place that counts those before it.
LEMMA InOrderSorts ==
  ASSUME NEW S, IsFiniteSet(S), NEW ahead, Ordering(S, ahead)
  PROVE  LET n == Cardinality(S)
             s == InOrder(S, ahead)
         IN /\ n \in Nat /\ s \in [1 .. n -> S]
            /\ \A i \in 1 .. n : Cardinality(ahead[s[i]]) = i - 1
            /\ \A i, j \in 1 .. n : i < j => s[i] \in ahead[s[j]] /\ s[i] # s[j]
            /\ \A x \in S : \E i \in 1 .. n : s[i] = x
<1> DEFINE n == Cardinality(S)
           s == InOrder(S, ahead)
           C(x) == Cardinality(ahead[x])
           P == [x \in S |-> C(x) + 1]
<1>0. n \in Nat
  BY FS_CardinalityType
<1>1. \A x \in S : C(x) \in Nat /\ C(x) < n
  BY PartIsSmaller DEF Ordering
<1>2. \A x, y \in S : x \in ahead[y] => C(x) < C(y)
  <2> SUFFICES ASSUME NEW x \in S, NEW y \in S, x \in ahead[y] PROVE C(x) < C(y)
    OBVIOUS
  <2>1. ahead[x] \subseteq ahead[y] /\ x \notin ahead[x] /\ ahead[y] \subseteq S
    BY DEF Ordering
  <2>2. IsFiniteSet(ahead[y])
    BY <2>1, FS_Subset
  <2> QED BY <2>1, <2>2, PartIsSmaller
<1> HIDE DEF n, C
<1>3. \A x, y \in S : x # y => C(x) < C(y) \/ C(y) < C(x)
  BY <1>2 DEF Ordering
<1>4. P \in Injection(S, 1 .. n)
  <2>1. P \in [S -> 1 .. n]
    BY <1>0, <1>1
  <2>2. \A x, y \in S : P[x] = P[y] => x = y
    BY <1>1, <1>3
  <2> QED BY <2>1, <2>2 DEF Injection, IsInjective
<1>5. IsFiniteSet(1 .. n) /\ Cardinality(1 .. n) = n
  <2>1. IsFiniteSet(1 .. n) /\ Cardinality(1 .. n) = IF 1 > n THEN 0 ELSE n - 1 + 1
    BY <1>0, FS_Interval
  <2> QED BY <1>0, <2>1
<1>6. P \in Surjection(S, 1 .. n)
  BY <1>4, <1>5, FS_Injection DEF n
<1>7. \A i \in 1 .. n : \E x \in S : C(x) = i - 1
  <2> SUFFICES ASSUME NEW i \in 1 .. n PROVE \E x \in S : C(x) = i - 1
    OBVIOUS
  <2>1. PICK x \in S : P[x] = i
    BY <1>6 DEF Surjection
  <2> QED BY <1>0, <1>1, <2>1
<1>8. s = [i \in 1 .. n |-> CHOOSE x \in S : C(x) = i - 1]
  BY DEF InOrder, n, C
<1>9. \A i \in 1 .. n : s[i] \in S /\ C(s[i]) = i - 1
  BY <1>7, <1>8
<1>10. s \in [1 .. n -> S]
  BY <1>8, <1>9
<1> HIDE DEF s
<1>11. \A i, j \in 1 .. n : i < j => s[i] \in ahead[s[j]] /\ s[i] # s[j]
  <2> SUFFICES ASSUME NEW i \in 1 .. n, NEW j \in 1 .. n, i < j
               PROVE  s[i] \in ahead[s[j]] /\ s[i] # s[j]
    OBVIOUS
  <2>1. C(s[i]) < C(s[j]) /\ s[i] \in S /\ s[j] \in S /\ C(s[i]) \in Nat /\ C(s[j]) \in Nat
    BY <1>0, <1>9
  <2>2. s[i] # s[j]
    BY <2>1
  <2>3. s[j] \notin ahead[s[i]]
    BY <2>1, <1>2
  <2> QED BY <2>1, <2>2, <2>3 DEF Ordering
<1>12. \A x \in S : \E i \in 1 .. n : s[i] = x
  <2> SUFFICES ASSUME NEW x \in S PROVE \E i \in 1 .. n : s[i] = x
    OBVIOUS
  <2>1. C(x) + 1 \in 1 .. n
    BY <1>0, <1>1
  <2>2. s[C(x) + 1] \in S /\ C(s[C(x) + 1]) = C(x)
    BY <2>1, <1>9, <1>1
  <2> QED BY <2>1, <2>2, <1>1, <1>3
<1> QED BY <1>0, <1>9, <1>10, <1>11, <1>12 DEF n, s, C
\* What a function takes on a finite set is finite.
LEMMA ImageFinite ==
  ASSUME NEW S, IsFiniteSet(S), NEW f, DOMAIN f = S, NEW T, T = {f[x] : x \in S}
  PROVE  IsFiniteSet(T)
<1> DEFINE g == [x \in S |-> f[x]]
<1>1. g \in Surjection(S, T)
  BY DEF Surjection
<1> QED BY <1>1, FS_Surjection

\* T is what s has in the places a .. b; and s has nothing twice in 1 .. n.
Stretch(T, s, a, b) == /\ \A i \in a .. b : s[i] \in T
                       /\ \A x \in T : \E i \in a .. b : s[i] = x

Distinct(s, n) == \A i, j \in 1 .. n : i < j => s[i] # s[j]

\* A stretch of a sequence without repetition has as many elements as places.
LEMMA StretchCount ==
  ASSUME NEW s, NEW n \in Nat, Distinct(s, n),
         NEW a \in 1 .. n + 1, NEW b \in a - 1 .. n, NEW T, Stretch(T, s, a, b)
  PROVE  IsFiniteSet(T) /\ Cardinality(T) = b - a + 1
<1> DEFINE g == [i \in a .. b |-> s[i]]
<1>0. a \in Nat /\ b \in Nat /\ a .. b \subseteq 1 .. n
  OBVIOUS
<1>1. g \in Surjection(a .. b, T)
  BY DEF Surjection, Stretch
<1>2. g \in Injection(a .. b, T)
  <2>1. \A i, j \in a .. b : i # j => i < j \/ j < i
    BY <1>0
  <2>2. \A i, j \in a .. b : g[i] = g[j] => i = j
    BY <1>0, <2>1 DEF Distinct
  <2> QED BY <1>1, <2>2 DEF Injection, IsInjective, Surjection
<1>3. IsFiniteSet(a .. b) /\ Cardinality(a .. b) = b - a + 1
  <2>1. IsFiniteSet(a .. b) /\ Cardinality(a .. b) = IF a > b THEN 0 ELSE b - a + 1
    BY <1>0, FS_Interval
  <2> QED BY <1>0, <2>1
<1>4. IsFiniteSet(T) /\ Cardinality(T) = Cardinality(a .. b)
  BY <1>1, <1>2, <1>3, FS_Surjection
<1> QED BY <1>3, <1>4

\* A finite set of numbers that is not empty has a least one and a greatest one.
LEMMA ExtremesExist ==
  ASSUME NEW S \in SUBSET Int, IsFiniteSet(S), S # {}
  PROVE  (\E x \in S : \A y \in S : x <= y) /\ (\E x \in S : \A y \in S : y <= x)
<1> DEFINE below == [x \in S |-> {y \in S : y < x}]
           n == Cardinality(S)
           s == InOrder(S, below)
<1>0. below \in [S -> SUBSET S] /\ \A x, y \in S : y \in below[x] <=> y < x
  OBVIOUS
<1>1. Ordering(S, below)
  <2> HIDE DEF below
  <2>1. \A x, y \in S : y \in below[x] => below[y] \subseteq below[x]
    <3> SUFFICES ASSUME NEW x \in S, NEW y \in below[x], NEW z \in below[y] PROVE z \in below[x]
      BY <1>0
    <3>1. y \in S /\ z \in S
      BY <1>0
    <3>2. z < y /\ y < x
      BY <1>0, <3>1
    <3> QED BY <1>0, <3>1, <3>2
  <2>2. \A x, y \in S : x # y => x \in below[y] \/ y \in below[x]
    BY <1>0
  <2>3. \A x \in S : x \notin below[x]
    BY <1>0
  <2> QED BY <1>0, <2>1, <2>2, <2>3 DEF Ordering
<1> HIDE DEF below
<1>2. /\ n \in Nat /\ s \in [1 .. n -> S]
      /\ \A i, j \in 1 .. n : i < j => s[i] \in below[s[j]]
      /\ \A x \in S : \E i \in 1 .. n : s[i] = x
  BY <1>1, InOrderSorts
<1>3. n # 0
  BY FS_EmptySet
<1> HIDE DEF n, s
<1>4. \A i, j \in 1 .. n : i < j => s[i] < s[j]
  BY <1>0, <1>2
<1>5. s[1] \in S /\ s[n] \in S
  BY <1>2, <1>3
<1>6. \A y \in S : s[1] <= y /\ y <= s[n]
  <2> SUFFICES ASSUME NEW y \in S PROVE s[1] <= y /\ y <= s[n]
    OBVIOUS
  <2>1. PICK i \in 1 .. n : s[i] = y
    BY <1>2
  <2>2. (i = 1 \/ 1 < i) /\ (i = n \/ i < n) /\ 1 \in 1 .. n /\ n \in 1 .. n
    BY <1>2, <1>3
  <2>a. s[1] \in Int /\ s[n] \in Int /\ y \in Int
    BY <1>5
  <2>3. s[1] <= y
    <3>1. CASE i = 1
      BY <2>1, <3>1
    <3>2. CASE 1 < i
      <4>1. s[1] < s[i]
        BY <1>4, <2>2, <3>2
      <4> QED BY <2>a, <2>1, <4>1
    <3> QED BY <2>2, <3>1, <3>2
  <2>4. y <= s[n]
    <3>1. CASE i = n
      BY <2>1, <3>1
    <3>2. CASE i < n
      <4>1. s[i] < s[n]
        BY <1>4, <2>2, <3>2
      <4> QED BY <2>a, <2>1, <4>1
    <3> QED BY <2>2, <3>1, <3>2
  <2> QED BY <2>3, <2>4
<1> QED BY <1>5, <1>6

-----------------------------------------------------------------------------
(* The panel of insights. *)

Severities == {"err", "warn"}

\* What one rule says: no two of its rows are of one subject.
Ruled(S, k) ==
    /\ IsFiniteSet(S)
    /\ \A p \in S : p.rule = k /\ p.severity \in Severities /\ p.nth \in Nat
    /\ \A p, q \in S : p.nth = q.nth => p = q

\* What is said of some of a list, each in its place, is what a rule says.
LEMMA RuledByPlace ==
  ASSUME NEW T, IsFiniteSet(T), NEW k, NEW f \in [T -> Severities], NEW place \in [T -> Nat],
         \A x, y \in T : place[x] = place[y] => x = y,
         NEW S, S = {[rule |-> k, of |-> x.id, severity |-> f[x], nth |-> place[x]] : x \in T}
  PROVE  Ruled(S, k)
<1> DEFINE row == [x \in T |-> [rule |-> k, of |-> x.id, severity |-> f[x], nth |-> place[x]]]
<1>1. S = {row[x] : x \in T}
  OBVIOUS
<1>2. IsFiniteSet(S)
  <2>1. DOMAIN row = T
    OBVIOUS
  <2> HIDE DEF row
  <2> QED BY <1>1, <2>1, ImageFinite
<1>3. \A p \in S : p.rule = k /\ p.severity \in Severities /\ p.nth \in Nat
  OBVIOUS
<1>4. \A p, q \in S : p.nth = q.nth => p = q
  OBVIOUS
<1> QED BY <1>2, <1>3, <1>4 DEF Ruled

\* The same, where the place is the one in Coolify's list.
LEMMA RuledByNth ==
  ASSUME NEW L, Listing(L), NEW T \in SUBSET L, NEW k, NEW f \in [T -> Severities],
         NEW S, S = {[rule |-> k, of |-> x.id, severity |-> f[x], nth |-> x.nth] : x \in T}
  PROVE  Ruled(S, k)
<1> DEFINE place == [x \in T |-> x.nth]
<1>1. IsFiniteSet(T)
  BY FS_Subset DEF Listing
<1>2. place \in [T -> Nat] /\ \A x, y \in T : place[x] = place[y] => x = y
  BY DEF Listing
<1>3. S = {[rule |-> k, of |-> x.id, severity |-> f[x], nth |-> place[x]] : x \in T}
  OBVIOUS
<1> HIDE DEF place
<1> QED BY <1>1, <1>2, <1>3, RuledByPlace

\* The rules that read the servers and the backups.
LEMMA ServerRules ==
  ASSUME NEW w, PanelWorld(w)
  PROVE  /\ Ruled(ServerUnreachable(w), 1) /\ Ruled(ServerDisk(w), 2)
         /\ Ruled(ServerMetrics(w), 3) /\ Ruled(BackupFailed(w), 7)
<1> USE DEF Severities
<1>0. Listing(w.servers) /\ Listing(w.backups)
  BY DEF PanelWorld
<1>1. Ruled(ServerUnreachable(w), 1)
  <2> DEFINE T == {s \in w.servers : ~s.reachable}
             f == [s \in T |-> "err"]
  <2>1. ServerUnreachable(w)
          = {[rule |-> 1, of |-> s.id, severity |-> f[s], nth |-> s.nth] : s \in T}
    BY DEF ServerUnreachable, Says
  <2>2. T \in SUBSET w.servers /\ f \in [T -> Severities]
    OBVIOUS
  <2> HIDE DEF T, f
  <2> QED BY <1>0, <2>1, <2>2, RuledByNth
<1>2. Ruled(ServerDisk(w), 2)
  <2> DEFINE T == {s \in w.servers : s.diskAlert}
             f == [s \in T |-> IF s.diskPct # None /\ s.diskPct >= 90 THEN "err" ELSE "warn"]
  <2>1. ServerDisk(w) = {[rule |-> 2, of |-> s.id, severity |-> f[s], nth |-> s.nth] : s \in T}
    BY DEF ServerDisk, Says
  <2>2. T \in SUBSET w.servers /\ f \in [T -> Severities]
    OBVIOUS
  <2> HIDE DEF T, f
  <2> QED BY <1>0, <2>1, <2>2, RuledByNth
<1>3. Ruled(ServerMetrics(w), 3)
  <2> DEFINE T == {s \in w.servers : w.metricsExpected /\ s.reachable /\ s.source # "sentinel"}
             f == [s \in T |-> "warn"]
  <2>1. ServerMetrics(w) = {[rule |-> 3, of |-> s.id, severity |-> f[s], nth |-> s.nth] : s \in T}
    BY DEF ServerMetrics, Says
  <2>2. T \in SUBSET w.servers /\ f \in [T -> Severities]
    OBVIOUS
  <2> HIDE DEF T, f
  <2> QED BY <1>0, <2>1, <2>2, RuledByNth
<1>4. Ruled(BackupFailed(w), 7)
  <2> DEFINE f == [b \in w.backups |-> "err"]
  <2>1. BackupFailed(w)
          = {[rule |-> 7, of |-> b.id, severity |-> f[b], nth |-> b.nth] : b \in w.backups}
    BY DEF BackupFailed, Says
  <2>2. f \in [w.backups -> Severities]
    OBVIOUS
  <2> HIDE DEF f
  <2> QED BY <1>0, <2>1, <2>2, RuledByNth
<1> QED BY <1>1, <1>2, <1>3, <1>4

\* The rules that read the applications, as Coolify and as the probes see them.
LEMMA AppRules ==
  ASSUME NEW w, PanelWorld(w)
  PROVE  /\ Ruled(AppStatus(w), 4) /\ Ruled(ProbeDown(w), 5) /\ Ruled(Certificate(w), 6)
         /\ Ruled(LowUptime(w), 10)
<1> USE DEF Severities
<1>0. Listing(w.apps)
  BY DEF PanelWorld
<1>4. Ruled(AppStatus(w), 4)
  <2> DEFINE T == BrokenApps(w)
             f == [a \in T |-> IF a.state = "running" THEN "warn" ELSE "err"]
  <2>1. AppStatus(w) = {[rule |-> 4, of |-> a.id, severity |-> f[a], nth |-> a.nth] : a \in T}
    BY DEF AppStatus, Says
  <2>2. T \in SUBSET w.apps /\ f \in [T -> Severities]
    BY DEF Probed, BrokenApps
  <2> HIDE DEF T, f
  <2> QED BY <1>0, <2>1, <2>2, RuledByNth
<1>5. Ruled(ProbeDown(w), 5)
  <2> DEFINE T == {a \in Probed(w) : IsDown(a)} \ BrokenApps(w)
             f == [a \in T |-> "err"]
  <2>1. ProbeDown(w) = {[rule |-> 5, of |-> a.id, severity |-> f[a], nth |-> a.nth] : a \in T}
    BY DEF ProbeDown, Says
  <2>2. T \in SUBSET w.apps /\ f \in [T -> Severities]
    BY DEF Probed, BrokenApps
  <2> HIDE DEF T, f
  <2> QED BY <1>0, <2>1, <2>2, RuledByNth
<1>6. Ruled(Certificate(w), 6)
  <2> DEFINE T == {a \in Probed(w) : /\ a.tls
                                       /\ IF a.daysLeft = None THEN a.tlsError /\ a.failures = 0
                                          ELSE a.daysLeft <= TlsWarnDays}
             f == [a \in T |-> IF a.daysLeft = None \/ a.daysLeft > 3 THEN "warn" ELSE "err"]
  <2>1. Certificate(w) = {[rule |-> 6, of |-> a.id, severity |-> f[a], nth |-> a.nth] : a \in T}
    BY DEF Certificate, Says
  <2>2. T \in SUBSET w.apps /\ f \in [T -> Severities]
    BY DEF Probed, BrokenApps
  <2> HIDE DEF T, f
  <2> QED BY <1>0, <2>1, <2>2, RuledByNth
<1>10. Ruled(LowUptime(w), 10)
  <2> DEFINE T == {a \in Probed(w) \ BrokenApps(w) : a.uptimeLow /\ ~IsDown(a)}
             f == [a \in T |-> "warn"]
  <2>1. LowUptime(w) = {[rule |-> 10, of |-> a.id, severity |-> f[a], nth |-> a.nth] : a \in T}
    BY DEF LowUptime, Says
  <2>2. T \in SUBSET w.apps /\ f \in [T -> Severities]
    BY DEF Probed, BrokenApps
  <2> HIDE DEF T, f
  <2> QED BY <1>0, <2>1, <2>2, RuledByNth
<1> QED BY <1>4, <1>5, <1>6, <1>10

\* The rules that read how deployments ended.
LEMMA FailureRules ==
  ASSUME NEW w, PanelWorld(w)
  PROVE  Ruled(DeployFailures(w), 8) /\ Ruled(DeployFailure(w), 9)
<1> USE DEF Severities
<1>0. Listing(w.apps)
  BY DEF PanelWorld
<1>8. Ruled(DeployFailures(w), 8)
  <2> DEFINE T == {a \in w.apps : FailedOf(a) >= 2}
             f == [a \in T |-> "err"]
             place == [a \in T |-> a.fresh]
  <2>1. DeployFailures(w) = {[rule |-> 8, of |-> a.id, severity |-> f[a], nth |-> place[a]] : a \in T}
    BY DEF DeployFailures, Failing
  <2>2. IsFiniteSet(T)
    BY <1>0, FS_Subset DEF Listing
  <2>3. f \in [T -> Severities] /\ place \in [T -> Nat]
    BY DEF PanelWorld
  <2>4. \A x, y \in T : place[x] = place[y] => x = y
    BY DEF PanelWorld
  <2> HIDE DEF T, f, place
  <2> QED BY <2>1, <2>2, <2>3, <2>4, RuledByPlace
<1>9. Ruled(DeployFailure(w), 9)
  <2> DEFINE T == {a \in w.apps : FailedOf(a) = 1}
             f == [a \in T |-> "warn"]
             place == [a \in T |-> a.fresh]
  <2>1. DeployFailure(w) = {[rule |-> 9, of |-> a.id, severity |-> f[a], nth |-> place[a]] : a \in T}
    BY DEF DeployFailure, Failing
  <2>2. IsFiniteSet(T)
    BY <1>0, FS_Subset DEF Listing
  <2>3. f \in [T -> Severities] /\ place \in [T -> Nat]
    BY DEF PanelWorld
  <2>4. \A x, y \in T : place[x] = place[y] => x = y
    BY DEF PanelWorld
  <2> HIDE DEF T, f, place
  <2> QED BY <2>1, <2>2, <2>3, <2>4, RuledByPlace
<1> QED BY <1>8, <1>9

\* What several rules say: no two rows are of one rule and one place.
Rows(S) ==
    /\ IsFiniteSet(S)
    /\ \A p \in S : p.rule \in 1 .. 10 /\ p.severity \in Severities /\ p.nth \in Nat
    /\ \A p, q \in S : p.rule = q.rule /\ p.nth = q.nth => p = q

\* The rows of one more rule.
LEMMA OneMoreRule ==
  ASSUME NEW S, Rows(S), NEW k \in 1 .. 10, \A p \in S : p.rule # k, NEW R, Ruled(R, k)
  PROVE  Rows(S \cup R)
<1>1. IsFiniteSet(S \cup R)
  BY FS_Union DEF Rows, Ruled
<1> QED BY <1>1 DEF Rows, Ruled

\* The problems of a world: finitely many rows, ordered by rule and place.
LEMMA ProblemRows == ASSUME NEW w, PanelWorld(w) PROVE Rows(Problems(w))
<1> DEFINE S1 == ServerUnreachable(w)
           S2 == S1 \cup ServerDisk(w)
           S3 == S2 \cup ServerMetrics(w)
           S4 == S3 \cup AppStatus(w)
           S5 == S4 \cup ProbeDown(w)
           S6 == S5 \cup Certificate(w)
           S7 == S6 \cup BackupFailed(w)
           S8 == S7 \cup DeployFailures(w)
           S9 == S8 \cup DeployFailure(w)
           Upto(S, k) == Rows(S) /\ \A p \in S : p.rule \in 1 .. k
<1>0. Problems(w) = S9 \cup LowUptime(w)
  BY DEF Problems
<1>1. Upto(S1, 1)
  BY ServerRules DEF Ruled, Rows
<1>2. ASSUME NEW S, NEW R, NEW k \in 1 .. 9, Upto(S, k), Ruled(R, k + 1) PROVE Upto(S \cup R, k + 1)
  <2>1. \A p \in S : p.rule # k + 1
    BY <1>2
  <2>2. Rows(S \cup R)
    BY <1>2, <2>1, OneMoreRule
  <2> QED BY <1>2, <2>2 DEF Ruled
<1> HIDE DEF Upto
<1>3. Upto(S2, 2)
  BY <1>1, <1>2, ServerRules
<1> HIDE DEF S1, S2
<1>4. Upto(S3, 3)
  BY <1>3, <1>2, ServerRules
<1> HIDE DEF S3
<1>5. Upto(S4, 4)
  BY <1>4, <1>2, AppRules
<1> HIDE DEF S4
<1>6. Upto(S5, 5)
  BY <1>5, <1>2, AppRules
<1> HIDE DEF S5
<1>7. Upto(S6, 6)
  BY <1>6, <1>2, AppRules
<1> HIDE DEF S6
<1>8. Upto(S7, 7)
  BY <1>7, <1>2, ServerRules
<1> HIDE DEF S7
<1>9. Upto(S8, 8)
  BY <1>8, <1>2, FailureRules
<1> HIDE DEF S8
<1>10. Upto(S9, 9)
  BY <1>9, <1>2, FailureRules
<1> HIDE DEF S9
<1>11. Upto(S9 \cup LowUptime(w), 10)
  BY <1>10, <1>2, AppRules
<1> QED BY <1>0, <1>11 DEF Upto

\* Only an error is as serious as an error.
LEMMA RankOf ==
  ASSUME NEW x \in Severities
  PROVE  Rank[x] \in 0 .. 1 /\ (Rank[x] = 0 <=> x = "err") /\ (Rank[x] = 1 <=> x = "warn")
BY DEF Severities, Rank

\* The order of the panel orders the problems.
LEMMA MoreSeriousOrders == ASSUME NEW S, Rows(S) PROVE Ordering(S, MoreSerious(S))
<1> DEFINE ahead == MoreSerious(S)
           Before(p, q) == \/ Rank[p.severity] < Rank[q.severity]
                           \/ /\ Rank[p.severity] = Rank[q.severity]
                              /\ p.rule < q.rule \/ (p.rule = q.rule /\ p.nth < q.nth)
<1>1. \A p \in S : /\ Rank[p.severity] \in Nat /\ p.rule \in Nat /\ p.nth \in Nat
  BY RankOf DEF Rows
<1>2. \A p, q \in S : p # q => p.rule # q.rule \/ p.nth # q.nth
  BY DEF Rows
<1>3. ahead \in [S -> SUBSET S] /\ \A p, q \in S : p \in ahead[q] <=> Before(p, q)
  BY DEF MoreSerious
<1>4. \A p \in S : ~Before(p, p)
  BY <1>1
<1>5. \A p, q \in S : p # q => Before(p, q) \/ Before(q, p)
  BY <1>1, <1>2
<1>6. \A o, p, q \in S : Before(o, p) /\ Before(p, q) => Before(o, q)
  BY <1>1
<1> HIDE DEF ahead, Before
<1>7. \A p, q \in S : p \in ahead[q] => ahead[p] \subseteq ahead[q]
  BY <1>3, <1>6
<1> QED BY <1>3, <1>4, <1>5, <1>7 DEF Ordering, ahead

\* What WorstFirst says of a panel and the problems it is of.
WorstFirstIn(list, problems) ==
    LET rows == {list[i] : i \in DOMAIN list}
        visible == rows \cap problems
        hidden == problems \ rows
    IN /\ Len(list) <= MaxInsights
       /\ \A i, j \in DOMAIN list : i < j => Rank[list[i].severity] <= Rank[list[j].severity]
       /\ \A p \in visible, q \in hidden : Rank[p.severity] <= Rank[q.severity]
       /\ rows \ visible =
            IF problems = {} THEN {Row(AllClear, "ok", 0)}
            ELSE IF hidden = {} THEN {}
            ELSE {Row(More,
                      IF \E p \in hidden : p.severity = "err" THEN "err" ELSE "warn",
                      Cardinality(hidden))}

\* A function over 1 .. n is a sequence of length n.
LEMMA FunctionSeq ==
  ASSUME NEW n \in Nat, NEW S, NEW f \in [1 .. n -> S]
  PROVE  f \in Seq(S) /\ Len(f) = n /\ DOMAIN f = 1 .. n
OBVIOUS

\* The problems of a world in their order.
LEMMA ProblemsInOrder ==
  ASSUME NEW w, PanelWorld(w)
  PROVE  LET S == Problems(w)
             n == Cardinality(S)
             all == InOrder(S, MoreSerious(S))
         IN /\ n \in Nat /\ all \in [1 .. n -> S] /\ (n = 0 <=> S = {})
            /\ \A p \in S : p.rule \in 1 .. 10 /\ p.severity \in Severities
            /\ \A i, j \in 1 .. n : i < j =>
                 all[i] # all[j] /\ Rank[all[i].severity] <= Rank[all[j].severity]
            /\ \A p \in S : \E i \in 1 .. n : all[i] = p
<1> DEFINE S == Problems(w)
           n == Cardinality(S)
           all == InOrder(S, MoreSerious(S))
<1>1. Rows(S)
  BY ProblemRows
<1>2. IsFiniteSet(S) /\ \A p \in S : p.rule \in 1 .. 10 /\ p.severity \in Severities
  BY <1>1 DEF Rows
<1>3. Ordering(S, MoreSerious(S))
  BY <1>1, MoreSeriousOrders
<1>4. n = 0 <=> S = {}
  BY <1>2, FS_EmptySet
<1> HIDE DEF S
<1>5. /\ n \in Nat /\ all \in [1 .. n -> S]
      /\ \A i, j \in 1 .. n : i < j => all[i] \in MoreSerious(S)[all[j]] /\ all[i] # all[j]
      /\ \A p \in S : \E i \in 1 .. n : all[i] = p
  BY <1>2, <1>3, InOrderSorts
<1>6. \A p, q \in S : p \in MoreSerious(S)[q] => Rank[p.severity] <= Rank[q.severity]
  <2> SUFFICES ASSUME NEW p \in S, NEW q \in S, p \in MoreSerious(S)[q]
               PROVE  Rank[p.severity] <= Rank[q.severity]
    OBVIOUS
  <2>1. Rank[p.severity] \in Nat /\ Rank[q.severity] \in Nat
    BY <1>2, RankOf
  <2> QED BY <2>1 DEF MoreSerious
<1> HIDE DEF all, n
<1>7. \A i, j \in 1 .. n : i < j => Rank[all[i].severity] <= Rank[all[j].severity]
  BY <1>5, <1>6
<1> QED BY <1>2, <1>4, <1>5, <1>7 DEF S, all, n

\* A panel with room for every problem shows them all.
LEMMA RoomForAll ==
  ASSUME NEW w, PanelWorld(w), Cardinality(Problems(w)) <= MaxInsights
  PROVE  WorstFirstIn(Insights(w), Problems(w))
<1> DEFINE S == Problems(w)
           n == Cardinality(S)
           all == InOrder(S, MoreSerious(S))
           list == Insights(w)
           rows == {list[i] : i \in DOMAIN list}
<1>1. /\ n \in Nat /\ all \in [1 .. n -> S] /\ (n = 0 <=> S = {})
      /\ \A i, j \in 1 .. n : i < j => Rank[all[i].severity] <= Rank[all[j].severity]
      /\ \A p \in S : \E i \in 1 .. n : all[i] = p
  BY ProblemsInOrder
<1>2. list = IF n = 0 THEN <<Row(AllClear, "ok", 0)>> ELSE all
  BY DEF Insights
<1> HIDE DEF S, n, all, list
<1>3. CASE n = 0
  <2>1. list = <<Row(AllClear, "ok", 0)>> /\ S = {}
    BY <1>1, <1>2, <1>3
  <2>2. rows = {Row(AllClear, "ok", 0)} /\ Len(list) = 1 /\ DOMAIN list = {1}
    BY <2>1
  <2>3. 1 <= MaxInsights
    BY MapperConstants
  <2> QED BY <2>1, <2>2, <2>3 DEF WorstFirstIn, S, list
<1>4. CASE n # 0
  <2>1. list = all /\ S # {}
    BY <1>1, <1>2, <1>4
  <2>2. Len(list) = n /\ DOMAIN list = 1 .. n
    BY <1>1, <2>1, FunctionSeq
  <2>3. rows = S
    BY <1>1, <2>1, <2>2
  <2>4. n <= MaxInsights
    BY DEF n, S
  <2> QED BY <1>1, <2>1, <2>2, <2>3, <2>4 DEF WorstFirstIn, S, list
<1> QED BY <1>3, <1>4

\* A panel with less room shows the first ones, and says how many it hides.
LEMMA NoRoomForAll ==
  ASSUME NEW w, PanelWorld(w), Cardinality(Problems(w)) > MaxInsights
  PROVE  WorstFirstIn(Insights(w), Problems(w))
<1> DEFINE S == Problems(w)
           n == Cardinality(S)
           all == InOrder(S, MoreSerious(S))
           list == Insights(w)
           rows == {list[i] : i \in DOMAIN list}
           first == {all[i] : i \in 1 .. MaxInsights - 1}
           more == Row(More, all[MaxInsights].severity, n - (MaxInsights - 1))
<1>0. MaxInsights \in Nat \ {0}
  BY MapperConstants
<1>1. /\ n \in Nat /\ all \in [1 .. n -> S]
      /\ \A p \in S : p.rule \in 1 .. 10 /\ p.severity \in Severities
      /\ \A i, j \in 1 .. n : i < j =>
           all[i] # all[j] /\ Rank[all[i].severity] <= Rank[all[j].severity]
      /\ \A p \in S : \E i \in 1 .. n : all[i] = p
  BY ProblemsInOrder
<1>2. IsFiniteSet(S)
  BY ProblemRows DEF Rows
<1>n. n > MaxInsights /\ n # 0 /\ ~(n <= MaxInsights)
  BY <1>0, <1>1
<1>3. list = [i \in 1 .. MaxInsights |-> IF i < MaxInsights THEN all[i] ELSE more]
  <2>1. list = [i \in 1 .. MaxInsights |->
                  IF i < MaxInsights THEN all[i] ELSE Row(More, all[i].severity, n - (MaxInsights - 1))]
    BY <1>n DEF Insights
  <2>2. \A i \in 1 .. MaxInsights : ~(i < MaxInsights) => i = MaxInsights
    BY <1>0
  <2> HIDE DEF n, all, S
  <2> QED BY <2>1, <2>2
<1> HIDE DEF S, all, list
<1>4. DOMAIN list = 1 .. MaxInsights /\ Len(list) = MaxInsights
  BY <1>0, <1>3
<1>5. more.rule = 11 /\ more.severity = all[MaxInsights].severity /\ more \notin S
  BY <1>1 DEF Row, More
<1>6. first \subseteq S /\ Cardinality(first) = MaxInsights - 1 /\ IsFiniteSet(first)
  <2> HIDE DEF n
  <2>1. first \subseteq S
    BY <1>0, <1>1, <1>n
  <2>2. PICK a, b : a = 1 /\ b = MaxInsights - 1
    OBVIOUS
  <2>3. a \in 1 .. n + 1 /\ b \in a - 1 .. n
    BY <1>0, <1>1, <1>n, <2>2
  <2>4. Distinct(all, n)
    BY <1>1 DEF Distinct
  <2>5. Stretch(first, all, a, b)
    BY <2>2 DEF Stretch
  <2> HIDE DEF first
  <2>6. IsFiniteSet(first) /\ Cardinality(first) = b - a + 1
    BY <1>1, <2>3, <2>4, <2>5, StretchCount
  <2> QED BY <1>0, <2>1, <2>2, <2>6
<1>7. rows = first \cup {more}
  BY <1>0, <1>3
<1>8. rows \cap S = first /\ rows \ first = {more} /\ S \ rows = S \ first
  BY <1>5, <1>6, <1>7
<1>9. Cardinality(S \ first) = n - (MaxInsights - 1)
  <2>1. S \cap first = first
    BY <1>6
  <2>2. Cardinality(S \ first) = Cardinality(S) - Cardinality(S \cap first)
    BY <1>2, FS_Difference
  <2> QED BY <2>1, <2>2, <1>6
<1> HIDE DEF n, more
<1>10. all[MaxInsights] \in S \ first
  BY <1>0, <1>1, <1>n
<1>11. \A p \in S \ first : \E i \in MaxInsights .. n : all[i] = p
  BY <1>0, <1>1
<1>12. \A i \in MaxInsights .. n : Rank[all[MaxInsights].severity] <= Rank[all[i].severity]
  <2> SUFFICES ASSUME NEW i \in MaxInsights .. n
               PROVE  Rank[all[MaxInsights].severity] <= Rank[all[i].severity]
    OBVIOUS
  <2>1. CASE i = MaxInsights
    BY <1>10, <1>1, <2>1, RankOf
  <2>2. CASE i > MaxInsights
    BY <1>0, <1>1, <1>n, <2>2
  <2> QED BY <1>0, <1>1, <2>1, <2>2
<1>13. all[MaxInsights].severity = IF \E p \in S \ first : p.severity = "err" THEN "err" ELSE "warn"
  <2>1. CASE \E p \in S \ first : p.severity = "err"
    <3>1. PICK i \in MaxInsights .. n : all[i].severity = "err"
      BY <1>11, <2>1
    <3>2. Rank[all[MaxInsights].severity] <= 0
      BY <1>12, <3>1, RankOf DEF Severities
    <3>3. all[MaxInsights].severity = "err"
      BY <1>1, <1>10, <3>2, RankOf
    <3> QED BY <2>1, <3>3
  <2>2. CASE ~\E p \in S \ first : p.severity = "err"
    BY <1>1, <1>10, <2>2 DEF Severities
  <2> QED BY <2>1, <2>2
<1>14. \A p \in first, q \in S \ first : Rank[p.severity] <= Rank[q.severity]
  <2> SUFFICES ASSUME NEW p \in first, NEW q \in S \ first PROVE Rank[p.severity] <= Rank[q.severity]
    OBVIOUS
  <2>1. PICK i \in 1 .. MaxInsights - 1 : all[i] = p
    OBVIOUS
  <2>2. PICK j \in MaxInsights .. n : all[j] = q
    BY <1>11
  <2> QED BY <1>0, <1>1, <1>n, <2>1, <2>2
<1>15. \A i, j \in DOMAIN list : i < j => Rank[list[i].severity] <= Rank[list[j].severity]
  <2> SUFFICES ASSUME NEW i \in 1 .. MaxInsights, NEW j \in 1 .. MaxInsights, i < j
               PROVE  Rank[list[i].severity] <= Rank[list[j].severity]
    BY <1>4
  <2>1. list[i].severity = all[i].severity /\ list[j].severity = all[j].severity
    BY <1>0, <1>3, <1>5
  <2> QED BY <1>0, <1>1, <1>n, <2>1
<1>16. S # {} /\ S \ rows # {}
  BY <1>8, <1>10
<1>17. rows \ first = {Row(More, IF \E p \in S \ rows : p.severity = "err" THEN "err" ELSE "warn",
                         Cardinality(S \ rows))}
  BY <1>8, <1>9, <1>13 DEF more
<1> HIDE DEF first, rows
<1>18. rows \ (rows \cap S) = rows \ first
  BY <1>8
<1> DEFINE visible == rows \cap S
           hidden == S \ rows
<1>19. \A p \in visible, q \in hidden : Rank[p.severity] <= Rank[q.severity]
  BY <1>8, <1>14
<1>20. rows \ visible = IF S = {} THEN {Row(AllClear, "ok", 0)}
                        ELSE IF hidden = {} THEN {}
                        ELSE {Row(More, IF \E p \in hidden : p.severity = "err" THEN "err" ELSE "warn",
                                  Cardinality(hidden))}
  BY <1>16, <1>17, <1>18
<1> HIDE DEF visible, hidden
<1>21. Len(list) <= MaxInsights
  BY <1>0, <1>4
<1> QED BY <1>15, <1>19, <1>20, <1>21 DEF WorstFirstIn, S, list, rows, visible, hidden

\* Two rows of one application that are of one of these rules are the same row.
LEMMA ProblemOnce ==
  ASSUME NEW w, PanelWorld(w), NEW p \in Problems(w), NEW q \in Problems(w), p # q, p.of = q.of
  PROVE  /\ ~({p.rule, q.rule} \subseteq {4, 5, 10})
         /\ ~({p.rule, q.rule} \subseteq {8, 9})
         /\ {p.rule, q.rule} # {1, 3}
<1>0. /\ \A a, b \in w.apps : a.id = b.id => a = b
      /\ \A s, t \in w.servers : s.id = t.id => s = t
  BY DEF PanelWorld, Listing
<1>1. /\ \A r \in Problems(w) : r.rule = 1 => r \in ServerUnreachable(w)
      /\ \A r \in Problems(w) : r.rule = 3 => r \in ServerMetrics(w)
      /\ \A r \in Problems(w) : r.rule = 4 => r \in AppStatus(w)
      /\ \A r \in Problems(w) : r.rule = 5 => r \in ProbeDown(w)
      /\ \A r \in Problems(w) : r.rule = 8 => r \in DeployFailures(w)
      /\ \A r \in Problems(w) : r.rule = 9 => r \in DeployFailure(w)
      /\ \A r \in Problems(w) : r.rule = 10 => r \in LowUptime(w)
  BY ServerRules, AppRules, FailureRules DEF Problems, Ruled
<1>2. ~({p.rule, q.rule} \subseteq {4, 5, 10})
  <2> DEFINE Of(r) == \E a \in w.apps :
                /\ r.of = a.id
                /\ r.rule = 4 => /\ a \in BrokenApps(w)
                                 /\ r = [rule |-> 4, of |-> a.id, nth |-> a.nth,
                                         severity |-> IF a.state = "running" THEN "warn" ELSE "err"]
                /\ r.rule = 5 => /\ a \notin BrokenApps(w) /\ IsDown(a)
                                 /\ r = [rule |-> 5, of |-> a.id, nth |-> a.nth, severity |-> "err"]
                /\ r.rule = 10 => /\ a \notin BrokenApps(w) /\ ~IsDown(a)
                                  /\ r = [rule |-> 10, of |-> a.id, nth |-> a.nth, severity |-> "warn"]
  <2>1. \A r \in AppStatus(w) : Of(r)
    BY DEF AppStatus, Says, BrokenApps
  <2>2. \A r \in ProbeDown(w) : Of(r)
    BY DEF ProbeDown, Says, Probed
  <2>3. \A r \in LowUptime(w) : Of(r)
    BY DEF LowUptime, Says, Probed
  <2> SUFFICES ASSUME p.rule \in {4, 5, 10}, q.rule \in {4, 5, 10} PROVE FALSE
    OBVIOUS
  <2>4. Of(p) /\ Of(q)
    BY <1>1, <2>1, <2>2, <2>3
  <2>5. PICK a \in w.apps :
          /\ p.of = a.id
          /\ p.rule = 4 => a \in BrokenApps(w) /\ p = [rule |-> 4, of |-> a.id, nth |-> a.nth, severity |-> IF a.state = "running" THEN "warn" ELSE "err"]
          /\ p.rule = 5 => a \notin BrokenApps(w) /\ IsDown(a) /\ p = [rule |-> 5, of |-> a.id, nth |-> a.nth, severity |-> "err"]
          /\ p.rule = 10 => a \notin BrokenApps(w) /\ ~IsDown(a) /\ p = [rule |-> 10, of |-> a.id, nth |-> a.nth, severity |-> "warn"]
    BY <2>4
  <2>6. PICK b \in w.apps :
          /\ q.of = b.id
          /\ q.rule = 4 => b \in BrokenApps(w) /\ q = [rule |-> 4, of |-> b.id, nth |-> b.nth, severity |-> IF b.state = "running" THEN "warn" ELSE "err"]
          /\ q.rule = 5 => b \notin BrokenApps(w) /\ IsDown(b) /\ q = [rule |-> 5, of |-> b.id, nth |-> b.nth, severity |-> "err"]
          /\ q.rule = 10 => b \notin BrokenApps(w) /\ ~IsDown(b) /\ q = [rule |-> 10, of |-> b.id, nth |-> b.nth, severity |-> "warn"]
    BY <2>4
  <2>7. a = b
    BY <1>0, <2>5, <2>6
  <2>8. p.rule = q.rule
    BY <2>5, <2>6, <2>7
  <2> QED BY <2>5, <2>6, <2>7, <2>8
<1>3. ~({p.rule, q.rule} \subseteq {8, 9})
  <2> SUFFICES ASSUME p.rule \in {8, 9}, q.rule \in {8, 9} PROVE FALSE
    OBVIOUS
  <2>1. \A r \in Problems(w) : r.rule \in {8, 9} => \E a \in w.apps :
          /\ r.of = a.id
          /\ r = [rule |-> r.rule, of |-> a.id, nth |-> a.fresh,
                  severity |-> IF r.rule = 8 THEN "err" ELSE "warn"]
          /\ IF r.rule = 8 THEN FailedOf(a) >= 2 ELSE FailedOf(a) = 1
    <3>1. \A r \in DeployFailures(w) : \E a \in w.apps :
            FailedOf(a) >= 2 /\ r = [rule |-> 8, of |-> a.id, nth |-> a.fresh, severity |-> "err"]
      BY DEF DeployFailures, Failing
    <3>2. \A r \in DeployFailure(w) : \E a \in w.apps :
            FailedOf(a) = 1 /\ r = [rule |-> 9, of |-> a.id, nth |-> a.fresh, severity |-> "warn"]
      BY DEF DeployFailure, Failing
    <3> QED BY <1>1, <3>1, <3>2
  <2>2. PICK a \in w.apps :
          /\ p.of = a.id
          /\ p = [rule |-> p.rule, of |-> a.id, nth |-> a.fresh, severity |-> IF p.rule = 8 THEN "err" ELSE "warn"]
          /\ IF p.rule = 8 THEN FailedOf(a) >= 2 ELSE FailedOf(a) = 1
    BY <2>1
  <2>3. PICK b \in w.apps :
          /\ q.of = b.id
          /\ q = [rule |-> q.rule, of |-> b.id, nth |-> b.fresh, severity |-> IF q.rule = 8 THEN "err" ELSE "warn"]
          /\ IF q.rule = 8 THEN FailedOf(b) >= 2 ELSE FailedOf(b) = 1
    BY <2>1
  <2>4. a = b
    BY <1>0, <2>2, <2>3
  <2>5. p.rule = q.rule
    BY <2>2, <2>3, <2>4
  <2> QED BY <2>2, <2>3, <2>4, <2>5
<1>4. {p.rule, q.rule} # {1, 3}
  <2>1. \A r \in ServerUnreachable(w) : \E s \in w.servers : r.of = s.id /\ ~s.reachable
    BY DEF ServerUnreachable, Says
  <2>2. \A r \in ServerMetrics(w) : \E s \in w.servers : r.of = s.id /\ s.reachable
    BY DEF ServerMetrics, Says
  <2>3. \A r, t \in Problems(w) : r.of = t.of => ~(r.rule = 1 /\ t.rule = 3)
    BY <1>0, <1>1, <2>1, <2>2
  <2> QED BY <2>3
<1> QED BY <1>2, <1>3, <1>4

\* An error among the problems makes the first row one.
LEMMA ErrorComesFirst ==
  ASSUME NEW w, PanelWorld(w), NEW p \in Problems(w), p.severity = "err"
  PROVE  Insights(w)[1].severity = "err"
<1> DEFINE S == Problems(w)
           n == Cardinality(S)
           all == InOrder(S, MoreSerious(S))
<1>0. MaxInsights \in Nat \ {0}
  BY MapperConstants
<1>1. /\ n \in Nat /\ all \in [1 .. n -> S] /\ (n = 0 <=> S = {})
      /\ \A r \in S : r.severity \in Severities
      /\ \A i, j \in 1 .. n : i < j => Rank[all[i].severity] <= Rank[all[j].severity]
      /\ \A r \in S : \E i \in 1 .. n : all[i] = r
  BY ProblemsInOrder
<1>2. n # 0
  BY <1>1
<1>3. Insights(w)[1].severity = all[1].severity
  <2>1. CASE n <= MaxInsights
    BY <1>2, <2>1 DEF Insights
  <2>2. CASE ~(n <= MaxInsights)
    <3>1. Insights(w) = [i \in 1 .. MaxInsights |->
                           IF i < MaxInsights THEN all[i]
                           ELSE Row(More, all[i].severity, n - (MaxInsights - 1))]
      BY <1>2, <2>2 DEF Insights
    <3> HIDE DEF n, all, S
    <3> QED BY <1>0, <3>1 DEF Row
  <2> QED BY <2>1, <2>2
<1> HIDE DEF n, all
<1>4. PICK i \in 1 .. n : all[i] = p
  BY <1>1
<1>5. 1 \in 1 .. n /\ all[1] \in S
  BY <1>1, <1>2
<1>6. Rank[all[1].severity] <= Rank[p.severity]
  <2>1. CASE i = 1
    BY <1>1, <1>4, <2>1, RankOf
  <2>2. CASE i > 1
    BY <1>1, <1>4, <1>5, <2>2
  <2> QED BY <1>4, <2>1, <2>2
<1>7. all[1].severity = "err"
  BY <1>1, <1>5, <1>6, RankOf DEF Severities
<1> QED BY <1>3, <1>7

\* An application has a number of failures.
LEMMA FailuresCounted ==
  ASSUME NEW w, PanelWorld(w), NEW a \in w.apps
  PROVE  FailedOf(a) \in Nat
<1>1. a.ended \in Seq(STRING)
  BY DEF PanelWorld
<1>2. IsFiniteSet(DOMAIN a.ended)
  <2>1. DOMAIN a.ended = 1 .. Len(a.ended) /\ Len(a.ended) \in Nat
    BY <1>1
  <2> QED BY <2>1, FS_Interval
<1> DEFINE failed == {i \in DOMAIN a.ended : a.ended[i] = "failed"}
<1>3. failed \in SUBSET DOMAIN a.ended
  OBVIOUS
<1> HIDE DEF failed
<1>4. IsFiniteSet(failed)
  BY <1>2, <1>3, FS_Subset
<1>5. Cardinality(failed) \in Nat
  BY <1>4, FS_CardinalityType
<1> QED BY <1>5 DEF FailedOf, failed

\* The pill complains of what the panel has a row of.
LEMMA PillHasItsRow ==
  ASSUME NEW w, PanelWorld(w)
  PROVE  LET Said(rules) == \E p \in Problems(w) : p.rule \in rules IN
         CASE SystemStatus(w) = "servers" -> Said({1}) /\ Insights(w)[1].severity = "err"
           [] SystemStatus(w) = "applications" -> Said({4, 5})
           [] SystemStatus(w) = "deployments" -> Said({8, 9})
           [] OTHER -> ~Said({1, 5})
<1> DEFINE Said(rules) == \E p \in Problems(w) : p.rule \in rules
<1>1. CASE \E s \in w.servers : ~s.reachable
  <2>1. PICK s \in w.servers : ~s.reachable
    BY <1>1
  <2> DEFINE row == [rule |-> 1, of |-> s.id, severity |-> "err", nth |-> s.nth]
  <2>2. row \in Problems(w)
    BY <2>1 DEF Problems, ServerUnreachable, Says
  <2>3. Insights(w)[1].severity = "err"
    BY <2>2, ErrorComesFirst
  <2>4. SystemStatus(w) = "servers" /\ row.rule \in {1}
    BY <1>1 DEF SystemStatus
  <2> HIDE DEF row
  <2> QED BY <2>2, <2>3, <2>4
<1>2. CASE /\ ~\E s \in w.servers : ~s.reachable
           /\ \E a \in Probed(w) : IsDown(a)
  <2>1. SystemStatus(w) = "applications"
    BY <1>2 DEF SystemStatus
  <2>2. PICK a \in Probed(w) : IsDown(a)
    BY <1>2
  <2>3. CASE a \in BrokenApps(w)
    <3> DEFINE row == [rule |-> 4, of |-> a.id, nth |-> a.nth,
                       severity |-> IF a.state = "running" THEN "warn" ELSE "err"]
    <3>1. row \in Problems(w) /\ row.rule \in {4, 5}
      BY <2>3 DEF Problems, AppStatus, Says
    <3> HIDE DEF row
    <3> QED BY <2>1, <3>1
  <2>4. CASE a \notin BrokenApps(w)
    <3> DEFINE row == [rule |-> 5, of |-> a.id, severity |-> "err", nth |-> a.nth]
    <3>1. row \in Problems(w) /\ row.rule \in {4, 5}
      BY <2>2, <2>4 DEF Problems, ProbeDown, Says
    <3> HIDE DEF row
    <3> QED BY <2>1, <3>1
  <2> QED BY <2>3, <2>4
<1>3. CASE /\ ~\E s \in w.servers : ~s.reachable
           /\ ~\E a \in Probed(w) : IsDown(a)
  <2>1. CASE \E a \in w.apps : a.lastHour /\ FailedOf(a) > 0
    <3>1. SystemStatus(w) = "deployments"
      BY <1>3, <2>1 DEF SystemStatus
    <3>2. PICK a \in w.apps : FailedOf(a) > 0
      BY <2>1
    <3>3. FailedOf(a) = 1 \/ FailedOf(a) >= 2
      BY <3>2, FailuresCounted
    <3>4. \/ [rule |-> 8, of |-> a.id, severity |-> "err", nth |-> a.fresh] \in Problems(w)
          \/ [rule |-> 9, of |-> a.id, severity |-> "warn", nth |-> a.fresh] \in Problems(w)
      BY <3>3 DEF Problems, DeployFailures, DeployFailure, Failing
    <3>5. Said({8, 9})
      BY <3>4
    <3> QED BY <3>1, <3>5
  <2>2. CASE ~\E a \in w.apps : a.lastHour /\ FailedOf(a) > 0
    <3>1. SystemStatus(w) = "ok"
      BY <1>3, <2>2 DEF SystemStatus
    <3>2. ServerUnreachable(w) = {} /\ ProbeDown(w) = {}
      BY <1>3 DEF ServerUnreachable, ProbeDown, Says
    <3>3. ~Said({1, 5})
      BY <3>2, ServerRules, AppRules, FailureRules DEF Problems, Ruled
    <3> QED BY <3>1, <3>3
  <2> QED BY <2>1, <2>2
<1> QED BY <1>1, <1>2, <1>3

-----------------------------------------------------------------------------
(* The invariant of the mappers: what is shown is computed from the world. *)

MapperInv ==
    /\ world \in InsightWorlds \cup JobWorlds \cup KpiWorlds
    /\ shown.kind = "panel" =>
         /\ world.kind = "panel"
         /\ shown.insights = Insights(world) /\ shown.pill = SystemStatus(world)
    /\ shown.kind = "timeline" =>
         /\ world.kind = "timeline"
         /\ shown.jobs = Strip(world) /\ shown.ticks = Ticks(world.now)
    /\ shown.kind = "kpis" =>
         /\ world.kind = "kpis"
         /\ shown.summary = Summary(world)
         /\ shown.success = SuccessTrend(shown.summary.successPct)
         /\ shown.spark = Spark(world.series)

\* A world of a kind is one of the worlds of that kind.
LEMMA WorldOfKind ==
  ASSUME MapperInv
  PROVE  /\ world.kind = "panel" => PanelWorld(world)
         /\ world.kind = "timeline" => JobWorld(world)
         /\ world.kind = "kpis" => KpiWorld(world)
BY MapperWorlds DEF MapperInv, PanelWorld, JobWorld, KpiWorld

\* What is shown is computed from the world that was chosen, whichever step shows it.
LEMMA MapperInvHolds == MapperSpec => []MapperInv
<1>1. MapperInit => MapperInv
  BY DEF MapperInit, MapperInv
<1>2. MapperInv /\ [MapperNext]_mapperVars => MapperInv'
  <2> SUFFICES ASSUME MapperInv, [MapperNext]_mapperVars PROVE MapperInv'
    OBVIOUS
  <2>1. CASE ShowPanel
    BY <2>1 DEF MapperInv, ShowPanel
  <2>2. CASE ShowTimeline
    BY <2>2 DEF MapperInv, ShowTimeline
  <2>3. CASE ShowKpis
    BY <2>3 DEF MapperInv, ShowKpis
  <2>4. CASE UNCHANGED mapperVars
    BY <2>4 DEF MapperInv, mapperVars
  <2> QED BY <2>1, <2>2, <2>3, <2>4 DEF MapperNext
<1> QED BY <1>1, <1>2, PTL DEF MapperSpec

\* The panel shows the most serious problems first and says how many it hides, and says
\* a problem once (buildInsights), for every world and every limit of the panel.
THEOREM PanelIsSound == MapperSpec => []InsightsSound
<1>1. MapperInv => InsightsSound
  <2> SUFFICES ASSUME MapperInv PROVE InsightsSound
    OBVIOUS
  <2>1. WorstFirst
    <3> SUFFICES ASSUME shown.kind = "panel" PROVE WorstFirst
      BY DEF WorstFirst
    <3>1. PanelWorld(world) /\ shown.insights = Insights(world)
      BY WorldOfKind DEF MapperInv
    <3>2. Cardinality(Problems(world)) \in Nat /\ MaxInsights \in Nat
      BY <3>1, ProblemRows, FS_CardinalityType, MapperConstants DEF Rows
    <3>3. WorstFirstIn(shown.insights, Problems(world))
      BY <3>1, <3>2, RoomForAll, NoRoomForAll
    <3> QED BY <3>3 DEF WorstFirst, WorstFirstIn
  <2>2. OneProblemOneInsight
    BY WorldOfKind, ProblemOnce DEF OneProblemOneInsight
  <2> QED BY <2>1, <2>2 DEF InsightsSound
<1> QED BY <1>1, MapperInvHolds, PTL

\* The pill (deriveSystemStatus) and the panel (buildInsights) tell one story.
THEOREM OneStory == MapperSpec => []PillAgreesWithPanel
<1>1. MapperInv => PillAgreesWithPanel
  <2> SUFFICES ASSUME MapperInv, shown.kind = "panel" PROVE PillAgreesWithPanel
    BY DEF PillAgreesWithPanel
  <2>1. PanelWorld(world) /\ shown.insights = Insights(world) /\ shown.pill = SystemStatus(world)
    BY WorldOfKind DEF MapperInv
  <2> QED BY <2>1, PillHasItsRow DEF PillAgreesWithPanel
<1> QED BY <1>1, MapperInvHolds, PTL

-----------------------------------------------------------------------------
(* The answers of the BFF. *)

\* What was executed in the last day is finite, and has its times.
LEMMA ExecutedTyped ==
  ASSUME NEW w, ScheduleWorld(w)
  PROVE  /\ IsFiniteSet(Executed(w))
         /\ \A x \in Executed(w) : x.at \in Nat /\ x = [of |-> x.of, run |-> x.run, at |-> x.at, failed |-> x.failed]
         /\ (\A b \in w.databases : b.configs = {}) => Executed(w) = {}
<1> DEFINE Entry(b, x) == [of |-> b.id, run |-> x.id, at |-> x.at, failed |-> x.failed]
           OfConfig(b, c) == {Entry(b, x) : x \in LastDay(w, c.executions)}
           OfBase(b) == UNION {OfConfig(b, c) : c \in b.configs}
<1>0. Executed(w) = UNION {OfBase(b) : b \in w.databases}
  BY DEF Executed
<1>1. ASSUME NEW b \in w.databases, NEW c \in b.configs
      PROVE  /\ IsFiniteSet(OfConfig(b, c))
             /\ \A x \in OfConfig(b, c) :
                  x.at \in Nat /\ x = [of |-> x.of, run |-> x.run, at |-> x.at, failed |-> x.failed]
  <2>1. IsFiniteSet(c.executions) /\ \A x \in c.executions : x.at \in Nat \cup {None}
    BY DEF ScheduleWorld, Date
  <2>2. /\ LastDay(w, c.executions) \in SUBSET c.executions
        /\ \A x \in LastDay(w, c.executions) : x.at \in Nat
    BY <2>1 DEF LastDay
  <2>3. IsFiniteSet(LastDay(w, c.executions))
    BY <2>1, <2>2, FS_Subset
  <2> DEFINE f == [x \in LastDay(w, c.executions) |-> Entry(b, x)]
  <2>4. DOMAIN f = LastDay(w, c.executions) /\ OfConfig(b, c) = {f[x] : x \in LastDay(w, c.executions)}
    OBVIOUS
  <2>5. IsFiniteSet(OfConfig(b, c))
    <3> HIDE DEF f, OfConfig
    <3> QED BY <2>3, <2>4, ImageFinite
  <2> QED BY <2>2, <2>5
<1> HIDE DEF OfConfig
<1>2. ASSUME NEW b \in w.databases
      PROVE  /\ IsFiniteSet(OfBase(b))
             /\ \A x \in OfBase(b) :
                  x.at \in Nat /\ x = [of |-> x.of, run |-> x.run, at |-> x.at, failed |-> x.failed]
  <2> DEFINE f == [c \in b.configs |-> OfConfig(b, c)]
             T == {f[c] : c \in b.configs}
  <2>1. IsFiniteSet(b.configs)
    BY DEF ScheduleWorld
  <2>2. DOMAIN f = b.configs /\ OfBase(b) = UNION T /\ \A S \in T : IsFiniteSet(S)
    BY <1>1
  <2>3. IsFiniteSet(T)
    <3> HIDE DEF f
    <3> QED BY <2>1, <2>2, ImageFinite
  <2>4. IsFiniteSet(OfBase(b))
    <3> HIDE DEF f, T, OfBase
    <3> QED BY <2>2, <2>3, FS_UNION
  <2> QED BY <1>1, <2>4
<1>3. (\A b \in w.databases : b.configs = {}) => Executed(w) = {}
  BY <1>0
<1> HIDE DEF OfBase
<1> DEFINE g == [b \in w.databases |-> OfBase(b)]
           U == {g[b] : b \in w.databases}
<1>4. DOMAIN g = w.databases /\ Executed(w) = UNION U /\ \A S \in U : IsFiniteSet(S)
  BY <1>0, <1>2
<1>5. IsFiniteSet(w.databases)
  BY DEF ScheduleWorld
<1>6. IsFiniteSet(U)
  <2> HIDE DEF g
  <2> QED BY <1>4, <1>5, ImageFinite
<1>7. IsFiniteSet(Executed(w))
  <2> HIDE DEF g, U
  <2> QED BY <1>4, <1>6, FS_UNION
<1> QED BY <1>0, <1>2, <1>3, <1>7

\* The card of the backups, their insights and their executions agree.
LEMMA BackupsFit ==
  ASSUME NEW w, ScheduleWorld(w)
  PROVE  /\ BackupTrend(Backups(w)) = "err" <=> BrokenBackups(w) # {}
         /\ \A p, q \in BrokenBackups(w) : p.of = q.of => p = q
         /\ \A p \in BrokenBackups(w) : \A x \in Executed(w) : x.of = p.of /\ x.failed => x.at <= p.at
         /\ Backups(w).total = None => BrokenBackups(w) = {}
<1> DEFINE E == Executed(w)
           failed == {x \in E : x.failed}
           broken == BrokenBackups(w)
<1>1. /\ IsFiniteSet(E) /\ \A x \in E : x.at \in Nat
      /\ (\A b \in w.databases : b.configs = {}) => E = {}
  BY ExecutedTyped
<1>2. broken = {[of |-> x.of, at |-> x.at] : x \in {y \in failed : \A z \in failed : z.of = y.of => z.at <= y.at}}
  BY DEF BrokenBackups
<1> HIDE DEF E, broken
<1>3. \A p, q \in broken : p.of = q.of => p = q
  BY <1>1, <1>2
<1>4. \A p \in broken : \A x \in E : x.of = p.of /\ x.failed => x.at <= p.at
  BY <1>2
<1>5. IsFiniteSet(failed) /\ failed \subseteq E
  BY <1>1, FS_Subset
<1>6. failed # {} => broken # {}
  <2> SUFFICES ASSUME NEW e \in failed PROVE broken # {}
    OBVIOUS
  <2> DEFINE his == {x \in failed : x.of = e.of}
             at == [x \in his |-> x.at]
             times == {at[x] : x \in his}
  <2>1. IsFiniteSet(his)
    BY <1>5, FS_Subset
  <2>2. IsFiniteSet(times) /\ times \in SUBSET Int /\ times # {}
    <3>1. DOMAIN at = his /\ e \in his /\ \A x \in his : at[x] = x.at /\ x.at \in Nat
      BY <1>1, <1>5
    <3> HIDE DEF his, at
    <3>2. times \in SUBSET Int /\ at[e] \in times
      BY <3>1
    <3> QED BY <2>1, <3>1, <3>2, ImageFinite
  <2> HIDE DEF times
  <2>3. PICK t \in times : \A u \in times : u <= t
    BY <2>2, ExtremesExist
  <2>4. PICK y \in his : y.at = t
    BY DEF times
  <2>5. \A z \in failed : z.of = y.of => z.at <= y.at
    BY <2>3, <2>4 DEF times
  <2>6. [of |-> y.of, at |-> y.at] \in broken
    BY <1>2, <2>4, <2>5
  <2> QED BY <2>6
<1>7. failed = {} => broken = {}
  BY <1>2
<1>8. CASE \A b \in w.databases : b.configs = {}
  <2>1. Backups(w) = [total |-> None, failed |-> 0] /\ broken = {}
    BY <1>1, <1>7, <1>8 DEF Backups
  <2>2. BackupTrend(Backups(w)) = "neutral"
    BY <2>1 DEF BackupTrend
  <2> QED BY <1>3, <1>4, <2>1, <2>2 DEF E, broken
<1>9. CASE ~\A b \in w.databases : b.configs = {}
  <2>1. Backups(w) = [total |-> Cardinality(E), failed |-> Cardinality(failed)]
    BY <1>9 DEF Backups, E
  <2>2. Cardinality(E) \in Nat /\ Cardinality(failed) \in Nat /\ (Cardinality(failed) = 0 <=> failed = {})
    BY <1>1, <1>5, FS_CardinalityType, FS_EmptySet
  <2>3. Backups(w).total # None
    BY <2>1, <2>2 DEF None
  <2>4. BackupTrend(Backups(w)) = "err" <=> failed # {}
    <3> HIDE DEF failed
    <3>1. CASE failed = {}
      BY <2>1, <2>2, <2>3, <3>1 DEF BackupTrend
    <3>2. CASE failed # {}
      BY <2>1, <2>2, <2>3, <3>2 DEF BackupTrend
    <3> QED BY <3>1, <3>2
  <2> QED BY <1>3, <1>4, <1>6, <1>7, <2>3, <2>4 DEF E, broken
<1> QED BY <1>8, <1>9

\* The order of a page orders any rows of a list.
LEMMA NewestFirstOrders ==
  ASSUME NEW S, \A r \in S : r.at \in Nat /\ r.nth \in Nat, \A q, r \in S : q.nth = r.nth => q = r
  PROVE  Ordering(S, NewestFirst(S))
<1> DEFINE ahead == NewestFirst(S)
           Before(q, r) == q.at > r.at \/ (q.at = r.at /\ q.nth < r.nth)
<1>1. ahead \in [S -> SUBSET S] /\ \A q, r \in S : q \in ahead[r] <=> Before(q, r)
  BY DEF NewestFirst
<1>2. \A r \in S : ~Before(r, r)
  OBVIOUS
<1>3. \A q, r \in S : q # r => Before(q, r) \/ Before(r, q)
  OBVIOUS
<1>4. \A p, q, r \in S : Before(p, q) /\ Before(q, r) => Before(p, r)
  OBVIOUS
<1> HIDE DEF ahead, Before
<1>5. \A q, r \in S : q \in ahead[r] => ahead[q] \subseteq ahead[r]
  BY <1>1, <1>4
<1> QED BY <1>1, <1>2, <1>3, <1>5 DEF Ordering, ahead

\* Where a row stands in the order of a page: after the newer ones, before the older.
LEMMA RankOfRow ==
  ASSUME NEW S, IsFiniteSet(S), \A r \in S : r.at \in Nat /\ r.nth \in Nat, NEW r \in S
  PROVE  LET newer == {q \in S : q.at > r.at}
             notOlder == {q \in S : q.at >= r.at}
             ahead == NewestFirst(S)[r]
         IN /\ Cardinality(newer) \in Nat /\ Cardinality(notOlder) \in Nat /\ Cardinality(ahead) \in Nat
            /\ Cardinality(newer) <= Cardinality(ahead)
            /\ Cardinality(ahead) < Cardinality(notOlder)
<1> DEFINE newer == {q \in S : q.at > r.at}
           notOlder == {q \in S : q.at >= r.at}
           ahead == NewestFirst(S)[r]
<1>1. newer \in SUBSET ahead /\ ahead \in SUBSET notOlder /\ notOlder \in SUBSET S
  BY DEF NewestFirst
<1>2. r \in notOlder /\ r \notin ahead
  BY DEF NewestFirst
<1> HIDE DEF newer, notOlder, ahead
<1>3. IsFiniteSet(notOlder)
  BY <1>1, FS_Subset
<1>4. IsFiniteSet(ahead) /\ Cardinality(ahead) < Cardinality(notOlder)
  BY <1>1, <1>2, <1>3, PartIsSmaller
<1>5. IsFiniteSet(newer) /\ Cardinality(newer) <= Cardinality(ahead)
  BY <1>1, <1>4, FS_Subset
<1> QED BY <1>3, <1>4, <1>5, FS_CardinalityType DEF newer, notOlder, ahead

\* What PageByRank says of the rows asked for.
RankedPage(rows, first, size, page) ==
    LET on == {page[i] : i \in DOMAIN page}
        newer(r) == Cardinality({q \in rows : q.at > r.at})
        notOlder(r) == Cardinality({q \in rows : q.at >= r.at})
    IN /\ on \subseteq rows
       /\ \A i, k \in DOMAIN page : i < k => page[i] # page[k] /\ page[i].at >= page[k].at
       /\ Len(page) = Least(size, AtLeast0(Cardinality(rows) - first))
       /\ \A r \in on : newer(r) < first + size /\ notOlder(r) > first
       /\ \A r \in rows : first <= newer(r) /\ notOlder(r) <= first + size => r \in on

\* Rows of a list; and what is cut out of them in their order.
Dated(S) ==
    /\ IsFiniteSet(S) /\ \A r \in S : r.at \in Nat /\ r.nth \in Nat
    /\ \A q, r \in S : q.nth = r.nth => q = r

Cut(S, first, size, page) ==
    page = [i \in 1 .. Least(size, AtLeast0(Cardinality(S) - first))
              |-> InOrder(S, NewestFirst(S))[first + i]]

\* A stretch of the rows in their order is a page, whatever rows are of one date.
LEMMA PageFits ==
  ASSUME NEW S, Dated(S), NEW first \in Nat, NEW size \in Nat, NEW page, Cut(S, first, size, page)
  PROVE  RankedPage(S, first, size, page)
<1> DEFINE n == Cardinality(S)
           ahead == NewestFirst(S)
           s == InOrder(S, ahead)
           m == Least(size, AtLeast0(n - first))
           newer(r) == Cardinality({q \in S : q.at > r.at})
           notOlder(r) == Cardinality({q \in S : q.at >= r.at})
<1>1. Ordering(S, ahead)
  BY NewestFirstOrders DEF Dated
<1>2. \A r \in S : \A q \in ahead[r] : q \in S /\ q.at >= r.at
  BY DEF NewestFirst, Dated
<1>3. \A r \in S : /\ newer(r) \in Nat /\ notOlder(r) \in Nat
                   /\ newer(r) <= Cardinality(ahead[r]) /\ Cardinality(ahead[r]) < notOlder(r)
  BY RankOfRow DEF Dated
<1> HIDE DEF ahead, newer, notOlder
<1>4. /\ n \in Nat /\ s \in [1 .. n -> S]
      /\ \A i \in 1 .. n : Cardinality(ahead[s[i]]) = i - 1
      /\ \A i, j \in 1 .. n : i < j => s[i] \in ahead[s[j]] /\ s[i] # s[j]
      /\ \A x \in S : \E i \in 1 .. n : s[i] = x
  <2>1. IsFiniteSet(S)
    BY DEF Dated
  <2> QED BY <1>1, <2>1, InOrderSorts
<1>5. page = [i \in 1 .. m |-> s[first + i]]
  BY DEF Cut, ahead
<1> HIDE DEF n, s
<1>6. /\ m \in Nat /\ m <= size /\ \A i \in 1 .. m : first + i \in 1 .. n
      /\ \A k \in 1 .. n : first < k /\ k <= first + size => k - first \in 1 .. m
  <2>1. CASE n <= first
    <3>1. m = 0
      BY <1>4, <2>1 DEF Least, AtLeast0
    <3> HIDE DEF m
    <3> QED BY <1>4, <2>1, <3>1
  <2>2. CASE first < n
    <3>1. AtLeast0(n - first) = n - first /\ n - first \in Nat
      BY <1>4, <2>2 DEF AtLeast0
    <3>2. m = (IF size < n - first THEN size ELSE n - first)
      BY <3>1 DEF Least
    <3> HIDE DEF m
    <3> QED BY <1>4, <2>2, <3>1, <3>2
  <2> QED BY <1>4, <2>1, <2>2
<1> HIDE DEF m
<1>7. page \in [1 .. m -> S] /\ DOMAIN page = 1 .. m /\ \A i \in 1 .. m : page[i] = s[first + i]
  <2>1. DOMAIN page = 1 .. m /\ \A i \in 1 .. m : page[i] = s[first + i]
    BY <1>5
  <2>2. \A i \in 1 .. m : s[first + i] \in S
    BY <1>4, <1>6
  <2> QED BY <1>5, <2>1, <2>2
<1>8. Len(page) = m
  BY <1>6, <1>7, FunctionSeq
<1>9. ASSUME NEW i \in 1 .. m, NEW k \in 1 .. m, i < k
      PROVE  page[i] # page[k] /\ page[i].at >= page[k].at
  <2>1. first + i \in 1 .. n /\ first + k \in 1 .. n /\ first + i < first + k
    BY <1>6, <1>9
  <2>2. page[i] = s[first + i] /\ page[k] = s[first + k] /\ page[i] \in S /\ page[k] \in S
    BY <1>7
  <2>3. s[first + i] \in ahead[s[first + k]] /\ s[first + i] # s[first + k]
    BY <1>4, <2>1
  <2> QED BY <1>2, <2>2, <2>3
<1>10. ASSUME NEW i \in 1 .. m
       PROVE  newer(page[i]) < first + size /\ notOlder(page[i]) > first
  <2>1. page[i] \in S /\ page[i] = s[first + i] /\ first + i \in 1 .. n
    BY <1>6, <1>7
  <2>2. Cardinality(ahead[page[i]]) = first + i - 1
    BY <1>4, <2>1
  <2>3. newer(page[i]) <= first + i - 1 /\ first + i - 1 < notOlder(page[i])
    BY <1>3, <2>1, <2>2
  <2>4. newer(page[i]) \in Nat /\ notOlder(page[i]) \in Nat
    BY <1>3, <2>1
  <2> QED BY <1>6, <2>3, <2>4
<1>11. ASSUME NEW r \in S, first <= newer(r), notOlder(r) <= first + size
       PROVE  \E i \in 1 .. m : page[i] = r
  <2>1. PICK k \in 1 .. n : s[k] = r
    BY <1>4
  <2>2. Cardinality(ahead[r]) = k - 1
    BY <1>4, <2>1
  <2>3. first < k /\ k <= first + size
    BY <1>3, <1>4, <1>11, <2>2
  <2>4. k - first \in 1 .. m /\ first + (k - first) = k
    BY <1>6, <2>3
  <2> QED BY <1>7, <2>1, <2>4
<1>12. {page[i] : i \in DOMAIN page} \subseteq S
  BY <1>7
<1>13. Len(page) = Least(size, AtLeast0(Cardinality(S) - first))
  BY <1>8 DEF m, n
<1>14. \A i, k \in DOMAIN page : i < k => page[i] # page[k] /\ page[i].at >= page[k].at
  BY <1>7, <1>9
<1>15. \A r \in {page[i] : i \in DOMAIN page} : newer(r) < first + size /\ notOlder(r) > first
  BY <1>7, <1>10
<1>16. \A r \in S : first <= newer(r) /\ notOlder(r) <= first + size => r \in {page[i] : i \in DOMAIN page}
  BY <1>7, <1>11
<1> QED BY <1>12, <1>13, <1>14, <1>15, <1>16 DEF RankedPage, newer, notOlder

\* PageByRank of a page of the history, whatever was asked for.
LEMMA PageOfHistory ==
  ASSUME NEW w, HistoryWorld(w)
  PROVE  RankedPage(Wanted(w), Skipped(w), Taken(w), Page(w))
<1>1. Wanted(w) \in SUBSET w.rows /\ Listing(w.rows) /\ \A r \in w.rows : r.at \in Nat
  BY DEF Wanted, HistoryWorld
<1>2. Dated(Wanted(w))
  BY <1>1, FS_Subset DEF Listing, Dated
<1>3. Skipped(w) \in Nat /\ Taken(w) \in Nat
  BY ReportConstants DEF HistoryWorld, Skipped, Taken, AtLeast0, Least
<1>4. Cut(Wanted(w), Skipped(w), Taken(w), Page(w))
  BY DEF Page, Cut
<1> QED BY <1>2, <1>3, <1>4, PageFits

\* What is not there says why (the notes of the detail, the logs).
LEMMA SilenceHasItsNote ==
  ASSUME NEW w
  PROVE  /\ "envs withheld" \in DetailNotes(w) => w.envs # {} /\ \A e \in w.envs : ~e.value
         /\ (\A e \in w.envs : ~e.value /\ ~e.once) =>
              w.envs = {} \/ DetailNotes(w) \cap {"envs unread", "envs withheld"} # {}
         /\ w.tags = {} => "nothing to roll back to" \in DetailNotes(w)
         /\ LogAnswer(w.logs).shown \/ LogAnswer(w.logs).note # "none"
<1>1. "envs withheld" \in DetailNotes(w) => Withheld(w.envs)
  BY DEF DetailNotes
<1>2. (\A e \in w.envs : ~e.value /\ ~e.once) /\ w.envs # {} =>
        "envs unread" \in DetailNotes(w) \/ "envs withheld" \in DetailNotes(w)
  BY DEF DetailNotes, Withheld
<1>3. w.tags = {} => "nothing to roll back to" \in DetailNotes(w)
  BY DEF DetailNotes
<1>4. LogAnswer(w.logs).shown \/ LogAnswer(w.logs).note # "none"
  <2>1. CASE Answered200(w.logs)
    BY <2>1 DEF LogAnswer
  <2>2. CASE ~Answered200(w.logs)
    <3>1. LogAnswer(w.logs).note = IF Code(w.logs) \in {"bad_request", "forbidden"} THEN Code(w.logs) ELSE "error"
      BY <2>2 DEF LogAnswer
    <3> QED BY <3>1
  <2> QED BY <2>1, <2>2
<1> QED BY <1>1, <1>2, <1>3, <1>4 DEF Withheld

\* What the setup report claims, it was told (abilityProbe, sensitiveCheck), and past
\* the first wall it claims nothing.
LEMMA ChecksClaimWhatTheyHeard ==
  ASSUME NEW w
  PROVE  LET c == Checks(w) IN
         /\ (\A k \in DOMAIN c : c[k] # "fail") => w.configured /\ Answered200(w.version)
         /\ \A ability \in DOMAIN c \cap {"deploy", "write"} :
              /\ c[ability] = "ok" => w[ability].status = 405 \/ Answered200(w[ability])
              /\ c[ability] = "warn" => w[ability].status = 403
         /\ "sensitive" \in DOMAIN c =>
              /\ c.sensitive = "ok" => w.server = "token"
              /\ c.sensitive = "warn" => w.server = "withheld"
         /\ c.config = "fail" \/ c.reachable = "fail" => DOMAIN c \subseteq {"config", "reachable"}
<1> DEFINE c == Checks(w)
<1>1. CASE ~w.configured
  <2>1. c = [config |-> "fail"]
    BY <1>1 DEF Checks
  <2> HIDE DEF c
  <2>2. DOMAIN c = {"config"} /\ c["config"] = "fail"
    BY <2>1
  <2> QED BY <2>2 DEF c
<1>2. CASE w.configured /\ (~Answered200(w.version) \/ w.version.text # "version")
  <2>1. c = [config |-> "ok", reachable |-> "fail"]
    BY <1>2 DEF Checks
  <2> HIDE DEF c
  <2>2. DOMAIN c = {"config", "reachable"} /\ c["reachable"] = "fail"
    BY <2>1
  <2> QED BY <2>2 DEF c
<1>3. CASE w.configured /\ Answered200(w.version) /\ w.version.text = "version"
  <2>1. /\ c.config = "ok" /\ c.reachable = "ok" /\ c.sensitive = Sensitive(w)
        /\ c.deploy = AbilityCheck(w.deploy) /\ c.write = AbilityCheck(w.write)
    BY <1>3 DEF Checks
  <2> HIDE DEF c
  <2>2. \A a : /\ AbilityCheck(a) = "ok" => a.status = 405 \/ Answered200(a)
               /\ AbilityCheck(a) = "warn" => a.status = 403
    <3> SUFFICES ASSUME NEW a
                 PROVE  /\ AbilityCheck(a) = "ok" => a.status = 405 \/ Answered200(a)
                        /\ AbilityCheck(a) = "warn" => a.status = 403
      OBVIOUS
    <3>1. CASE Answered200(a) \/ a.status = 405
      BY <3>1 DEF AbilityCheck, Ability
    <3>2. CASE ~(Answered200(a) \/ a.status = 405) /\ a.status = 403
      BY <3>2 DEF AbilityCheck, Ability
    <3>3. CASE ~(Answered200(a) \/ a.status = 405) /\ a.status # 403
      BY <3>3 DEF AbilityCheck, Ability
    <3> QED BY <3>1, <3>2, <3>3
  <2>3. /\ c.sensitive = "ok" => w.server = "token"
        /\ c.sensitive = "warn" => w.server = "withheld"
    BY <2>1 DEF Sensitive
  <2>4. \A ability \in DOMAIN c \cap {"deploy", "write"} :
          /\ c[ability] = "ok" => w[ability].status = 405 \/ Answered200(w[ability])
          /\ c[ability] = "warn" => w[ability].status = 403
    BY <2>1, <2>2
  <2>5. c.config # "fail" /\ c.reachable # "fail"
    BY <2>1
  <2> QED BY <1>3, <2>3, <2>4, <2>5 DEF c
<1> QED BY <1>1, <1>2, <1>3

\* The refusals of the BFF and the setup report say one thing of an answer, whatever
\* the client made of it (toErrorResponse, explainUpstream).
LEMMA RefusalsFit ==
  ASSUME NEW a
  PROVE  /\ Refused(a).status >= 400 /\ Refused(a).status # 401
         /\ Refused(a).status = 429 <=> Code(a) \in {"queue_full", "rate_limited"}
         /\ Refused(a).remedy \in {"none", Explained(a)} \/ Explained(a) = "documentation"
<1> DEFINE c == Code(a)
<1>1. CASE c \in {"unauthorized", "forbidden"}
  BY <1>1 DEF Refused, Explained
<1>2. CASE c \in {"api_disabled", "ip_blocked"}
  BY <1>2 DEF Refused, Explained
<1>3. CASE c \in {"queue_full", "rate_limited"}
  BY <1>3 DEF Refused, Explained
<1>4. CASE c \in {"not_found", "bad_request", "unreachable"}
  BY <1>4 DEF Refused, Explained
<1>5. CASE c \notin {"unauthorized", "forbidden", "api_disabled", "ip_blocked", "queue_full",
                     "rate_limited", "not_found", "bad_request", "unreachable"}
  BY <1>5 DEF Refused, Explained
<1> QED BY <1>1, <1>2, <1>3, <1>4, <1>5

\* The notes of the dashboard and the counts of the health, of one world.
LEMMA NotesFit ==
  ASSUME NEW w, HealthWorld(w)
  PROVE  /\ w.metrics /\ w.servers > 0 =>
              (MetricsNote(w) = "none" <=> w.readings # {} /\ Reporting(w) = Cardinality(w.readings))
         /\ UptimeNote(w) \in {"measuring", "none"} /\ w.count > 0 => w.entries # {}
         /\ Health(w).status = 503 <=> "live" \in LiveNotes(w)
         /\ ~w.session => ~Health(w).names /\ Health(w).status # 502
<1> DEFINE silent == {r \in w.readings : r.source # "sentinel"}
           heard == {r \in w.readings : r.source = "sentinel"}
<1>1. IsFiniteSet(w.readings) /\ heard \in SUBSET w.readings /\ (silent = {} <=> heard = w.readings)
  BY DEF HealthWorld
<1>2. silent = {} <=> Reporting(w) = Cardinality(w.readings)
  <2> HIDE DEF silent
  <2>1. Reporting(w) = Cardinality(heard)
    BY DEF Reporting
  <2> HIDE DEF heard
  <2>2. Cardinality(w.readings) = Cardinality(heard) => heard = w.readings
    BY <1>1, FS_Subset
  <2> QED BY <1>1, <2>1, <2>2
<1>3. w.metrics /\ w.servers > 0 => (MetricsNote(w) = "none" <=> w.readings # {} /\ silent = {})
  <2> SUFFICES ASSUME w.metrics, w.servers > 0
               PROVE  MetricsNote(w) = "none" <=> w.readings # {} /\ silent = {}
    OBVIOUS
  <2>1. w.servers # 0
    OBVIOUS
  <2>2. MetricsNote(w) = IF w.readings = {} THEN "first cycle"
                         ELSE IF silent = {} THEN "none"
                         ELSE IF Cardinality(silent) = 1 THEN "its own" ELSE "several"
    BY <2>1 DEF MetricsNote
  <2> HIDE DEF silent
  <2> QED BY <2>2
<1>4. UptimeNote(w) \in {"measuring", "none"} /\ w.count > 0 => w.entries # {}
  BY DEF UptimeNote
<1>5. Health(w).status = 503 <=> "live" \in LiveNotes(w)
  BY DEF Health, LiveNotes
<1>6. ~w.session => ~Health(w).names /\ Health(w).status # 502
  BY DEF Health
<1> QED BY <1>2, <1>3, <1>4, <1>5, <1>6

\* What is told is computed from the world that was asked about.
ReportInv ==
    /\ inquiry \in ScheduleWorlds \cup HistoryWorlds \cup DetailWorlds \cup SetupWorlds
                     \cup RefusalWorlds \cup HealthWorlds
    /\ told.kind = "schedule" =>
         /\ inquiry.kind = "schedule"
         /\ told.backups = Backups(inquiry) /\ told.broken = BrokenBackups(inquiry)
         /\ told.trend = BackupTrend(Backups(inquiry))
    /\ told.kind = "history" =>
         /\ inquiry.kind = "history"
         /\ told.page = Page(inquiry) /\ told.total = Cardinality(Wanted(inquiry))
    /\ told.kind = "detail" =>
         told.notes = DetailNotes(inquiry) /\ told.logs = LogAnswer(inquiry.logs)
    /\ told.kind = "setup" =>
         /\ told.checks = Checks(inquiry)
         /\ told.fine <=> \A c \in DOMAIN told.checks : told.checks[c] # "fail"
    /\ told.kind = "refusal" =>
         /\ told.status = Refused(inquiry.answer).status
         /\ told.remedy = Refused(inquiry.answer).remedy
         /\ told.explained = Explained(inquiry.answer)
    /\ told.kind = "health" =>
         /\ inquiry.kind = "health"
         /\ told.status = Health(inquiry).status /\ told.names = Health(inquiry).names
         /\ told.metrics = MetricsNote(inquiry) /\ told.reporting = Reporting(inquiry)
         /\ told.uptime = UptimeNote(inquiry) /\ told.live = LiveNotes(inquiry)

\* Whatever is told: no step tells twice, and each tells of its own kind of world.
LEMMA ReportInvHolds == ReportSpec => []ReportInv
<1>1. ReportInit => ReportInv
  BY DEF ReportInit, ReportInv
<1>2. ReportInv /\ [ReportNext]_reportVars => ReportInv'
  <2> SUFFICES ASSUME ReportInv, [ReportNext]_reportVars PROVE ReportInv'
    OBVIOUS
  <2>1. CASE TellSchedule
    BY <2>1 DEF ReportInv, TellSchedule, Tell
  <2>2. CASE TellHistory
    BY <2>2 DEF ReportInv, TellHistory, Tell
  <2>3. CASE TellDetail
    BY <2>3 DEF ReportInv, TellDetail, Tell
  <2>4. CASE TellSetup
    BY <2>4 DEF ReportInv, TellSetup, Tell
  <2>5. CASE TellRefusal
    BY <2>5 DEF ReportInv, TellRefusal, Tell
  <2>6. CASE TellHealth
    BY <2>6 DEF ReportInv, TellHealth, Tell
  <2>7. CASE UNCHANGED reportVars
    BY <2>7 DEF ReportInv, reportVars
  <2> QED BY <2>1, <2>2, <2>3, <2>4, <2>5, <2>6, <2>7 DEF ReportNext
<1> QED BY <1>1, <1>2, PTL DEF ReportSpec

\* No answer of the BFF claims more than the round of reads it was computed from
\* (server/overview.ts, server/setup.ts, server/index.ts), for every such round.
THEOREM AnswersAreSound == ReportSpec => []ClaimsNothingElse
<1>1. ReportInv => ClaimsNothingElse
  <2> SUFFICES ASSUME ReportInv PROVE ClaimsNothingElse
    OBVIOUS
  <2>1. /\ inquiry.kind = "schedule" => ScheduleWorld(inquiry)
        /\ inquiry.kind = "history" => HistoryWorld(inquiry)
        /\ inquiry.kind = "health" => HealthWorld(inquiry)
    BY ReportWorlds DEF ReportInv, ScheduleWorld, HistoryWorld, HealthWorld
  <2>2. BackupsAgree
    <3> SUFFICES ASSUME told.kind = "schedule" PROVE BackupsAgree
      BY DEF BackupsAgree
    <3>1. /\ ScheduleWorld(inquiry) /\ told.backups = Backups(inquiry)
          /\ told.broken = BrokenBackups(inquiry) /\ told.trend = BackupTrend(Backups(inquiry))
      BY <2>1 DEF ReportInv
    <3> QED BY <3>1, BackupsFit DEF BackupsAgree
  <2>3. PageByRank
    <3> SUFFICES ASSUME told.kind = "history" PROVE PageByRank
      BY DEF PageByRank
    <3>1. HistoryWorld(inquiry) /\ told.page = Page(inquiry) /\ told.total = Cardinality(Wanted(inquiry))
      BY <2>1 DEF ReportInv
    <3>2. RankedPage(Wanted(inquiry), Skipped(inquiry), Taken(inquiry), told.page)
      BY <3>1, PageOfHistory
    <3> QED BY <3>1, <3>2 DEF PageByRank, RankedPage
  <2>4. SilenceIsExplained
    <3> SUFFICES ASSUME told.kind = "detail" PROVE SilenceIsExplained
      BY DEF SilenceIsExplained
    <3>1. told.notes = DetailNotes(inquiry) /\ told.logs = LogAnswer(inquiry.logs)
      BY DEF ReportInv
    <3> QED BY <3>1, SilenceHasItsNote DEF SilenceIsExplained
  <2>5. SetupHonest
    <3> SUFFICES ASSUME told.kind = "setup" PROVE SetupHonest
      BY DEF SetupHonest
    <3>1. told.checks = Checks(inquiry) /\ (told.fine <=> \A c \in DOMAIN told.checks : told.checks[c] # "fail")
      BY DEF ReportInv
    <3> QED BY <3>1, ChecksClaimWhatTheyHeard DEF SetupHonest
  <2>6. RefusalsAgree
    <3> SUFFICES ASSUME told.kind = "refusal" PROVE RefusalsAgree
      BY DEF RefusalsAgree
    <3>1. /\ told.status = Refused(inquiry.answer).status
          /\ told.remedy = Refused(inquiry.answer).remedy
          /\ told.explained = Explained(inquiry.answer)
      BY DEF ReportInv
    <3> QED BY <3>1, RefusalsFit DEF RefusalsAgree
  <2>7. NotesAgreeWithHealth
    <3> SUFFICES ASSUME told.kind = "health" PROVE NotesAgreeWithHealth
      BY DEF NotesAgreeWithHealth
    <3>1. /\ HealthWorld(inquiry)
          /\ told.status = Health(inquiry).status /\ told.names = Health(inquiry).names
          /\ told.metrics = MetricsNote(inquiry) /\ told.reporting = Reporting(inquiry)
          /\ told.uptime = UptimeNote(inquiry) /\ told.live = LiveNotes(inquiry)
      BY <2>1 DEF ReportInv
    <3> QED BY <3>1, NotesFit DEF NotesAgreeWithHealth
  <2> QED BY <2>2, <2>3, <2>4, <2>5, <2>6, <2>7 DEF ClaimsNothingElse
<1> QED BY <1>1, ReportInvHolds, PTL

-----------------------------------------------------------------------------
(* The strip of the timeline. *)

\* What \div returns.
LEMMA DivFacts ==
  ASSUME NEW a \in Int, NEW b \in Nat \ {0}
  PROVE  a \div b \in Int /\ b * (a \div b) <= a /\ a < b * (a \div b) + b
OBVIOUS

\* A common factor says which is the greater.
LEMMA Cancel ==
  ASSUME NEW b \in Nat \ {0}, NEW p \in Int, NEW q \in Int, b * p < b * q + b
  PROVE  p <= q
<1>1. SUFFICES ASSUME p >= q + 1 PROVE FALSE
  OBVIOUS
<1>2. PICK k \in Nat : p = q + 1 + k
  <2>1. p - q - 1 \in Nat /\ p = q + 1 + (p - q - 1)
    BY <1>1
  <2> QED BY <2>1
<1>3. b * p = b * q + b + b * k /\ b * k \in Nat /\ b * q \in Int
  BY <1>2
<1> QED BY <1>3

\* The quotient is the one number that fits.
LEMMA DivUnique ==
  ASSUME NEW a \in Int, NEW b \in Nat \ {0}, NEW q \in Int, b * q <= a, a < b * q + b
  PROVE  a \div b = q
<1>1. a \div b \in Int /\ b * (a \div b) <= a /\ a < b * (a \div b) + b
  BY DivFacts
<1>2. b * (a \div b) \in Int /\ b * q \in Int
  BY <1>1
<1>3. a \div b <= q
  BY <1>1, <1>2, Cancel
<1>4. q <= a \div b
  BY <1>1, <1>2, Cancel
<1> QED BY <1>1, <1>3, <1>4

\* Math.round does not change the order of what it rounds.
LEMMA RoundFacts ==
  ASSUME NEW n \in Int, NEW d \in Nat \ {0}
  PROVE  /\ Round(n, d) \in Int
         /\ 2 * d * Round(n, d) <= 2 * n + d
         /\ \A m \in Int : n <= m => Round(n, d) <= Round(m, d)
<1> DEFINE b == 2 * d
           R(k) == (2 * k + d) \div b
<1>1. b \in Nat \ {0} /\ \A k \in Int : 2 * k + d \in Int /\ Round(k, d) = R(k)
  BY DEF Round
<1>2. \A k \in Int : R(k) \in Int /\ b * R(k) <= 2 * k + d /\ 2 * k + d < b * R(k) + b
  <2> HIDE DEF b
  <2> QED BY <1>1, DivFacts
<1>3. ASSUME NEW m \in Int, n <= m PROVE R(n) <= R(m)
  <2>1. R(n) \in Int /\ R(m) \in Int /\ b * R(n) <= 2 * n + d /\ 2 * m + d < b * R(m) + b
    BY <1>2
  <2> HIDE DEF R
  <2>2. b * R(n) \in Int /\ b * R(m) \in Int /\ 2 * n + d <= 2 * m + d
    BY <1>1, <1>3, <2>1
  <2> HIDE DEF b
  <2>3. b * R(n) < b * R(m) + b
    BY <1>1, <2>1, <2>2
  <2> QED BY <1>1, <2>1, <2>3, Cancel
<1>4. b * R(n) = 2 * d * R(n)
  BY <1>2
<1> QED BY <1>1, <1>2, <1>3, <1>4

\* What is rounded exactly.
LEMMA RoundExact ==
  ASSUME NEW k \in Int, NEW d \in Nat \ {0}
  PROVE  Round(k * d, d) = k
<1> DEFINE b == 2 * d
           a == 2 * (k * d) + d
<1>1. b \in Nat \ {0} /\ a \in Int
  OBVIOUS
<1>2. b * k = 2 * (k * d) /\ k * d \in Int
  OBVIOUS
<1>3. b * k <= a /\ a < b * k + b
  BY <1>2
<1> HIDE DEF a, b
<1>4. a \div b = k
  BY <1>1, <1>3, DivUnique
<1> QED BY <1>4 DEF Round, a, b

\* The margins keep the order, and everything between them.
LEMMA ClampedFacts ==
  ASSUME NEW x \in Int
  PROVE  /\ Clamped(x) \in Int /\ 20 <= Clamped(x) /\ Clamped(x) <= 990
         /\ \A y \in Int : x <= y => Clamped(x) <= Clamped(y)
BY DEF Clamped

\* Four marks on the strip, a quarter apart.
Quartered(ticks) ==
    /\ \A i \in 1 .. 4 : ticks[i] \in 0 .. 1000
    /\ \A i \in 1 .. 3 : ticks[i + 1] - ticks[i] = 250

\* The first mark is at the next multiple of six hours, the others six hours apart.
LEMMA TicksFit ==
  ASSUME NEW now \in Nat
  PROVE  Quartered(Ticks(now))
<1> DEFINE h == HourLong
           six == 6 * h
           q == now \div six
           first == (q + 1) * 6 * h
           delta == first - now
           b == 2 * DayLong
           a == 2 * (delta * 1000) + DayLong
           r == a \div b
<1>1. h \in Nat \ {0} /\ DayLong = 24 * h
  BY MapperConstants
<1> HIDE DEF h
<1>2. six \in Nat \ {0}
  BY <1>1
<1>3. q \in Int /\ six * q <= now /\ now < six * q + six
  <2> HIDE DEF six
  <2> QED BY <1>2, DivFacts
<1> HIDE DEF q
<1>4. first = six * q + six
  BY <1>1, <1>3
<1> HIDE DEF first
<1>5. delta \in Int /\ 0 < delta /\ delta <= 6 * h
  <2>1. six * q \in Int
    BY <1>1, <1>3
  <2>2. delta \in Int /\ 0 < delta /\ delta <= six
    <3> HIDE DEF six
    <3> QED BY <1>2, <1>3, <1>4, <2>1
  <2> QED BY <2>2
<1>6. first \in Int
  BY <1>1, <1>3, <1>4
<1>7. Ticks(now) = [i \in 1 .. 4 |-> PositionOf(first + (i - 1) * 6 * h, now)]
  BY DEF Ticks, first, q, h
<1>8. b = 48 * h /\ b \in Nat \ {0} /\ a = 2000 * delta + 24 * h /\ a \in Int
  <2> HIDE DEF delta
  <2> QED BY <1>1, <1>5
<1>9. r \in Int /\ b * r <= a /\ a < b * r + b
  <2> HIDE DEF a, b
  <2>1. a \in Int /\ b \in Nat \ {0}
    BY <1>8
  <2> QED BY <2>1, DivFacts
<1> HIDE DEF a, b, r
<1>10. r \in 0 .. 250
  <2> HIDE DEF delta
  <2>1. b * 0 < b * r + b
    BY <1>1, <1>5, <1>8, <1>9
  <2>2. b * r < b * 250 + b
    BY <1>1, <1>5, <1>8, <1>9
  <2>3. 0 <= r
    BY <1>8, <1>9, <2>1, Cancel
  <2>4. r <= 250
    BY <1>8, <1>9, <2>2, Cancel
  <2> QED BY <1>9, <2>3, <2>4
<1>11. ASSUME NEW i \in 1 .. 4
       PROVE  PositionOf(first + (i - 1) * 6 * h, now) = r + 250 * (i - 1)
  <2> DEFINE k == i - 1
             at == first + k * 6 * h
             x == 2 * ((at - now) * 1000) + DayLong
  <2>1. k \in 0 .. 3
    OBVIOUS
  <2> HIDE DEF k
  <2>2. k * 6 * h \in Int /\ k * 6 * h = 6 * (k * h) /\ k * h \in Int
    BY <1>1, <2>1
  <2>3. at - now = delta + 6 * (k * h)
    BY <1>6, <2>2
  <2>4. x = a + 12000 * (k * h) /\ x \in Int
    <3> HIDE DEF at, delta
    <3> QED BY <1>1, <1>5, <1>8, <2>2, <2>3
  <2>5. b * (r + 250 * k) = b * r + 12000 * (k * h) /\ b * r \in Int
    <3>1. b * (r + 250 * k) = b * r + 250 * (b * k)
      BY <1>8, <1>9, <2>1
    <3>2. b * k = 48 * (k * h)
      BY <1>1, <1>8, <2>1
    <3> QED BY <1>8, <1>9, <2>2, <3>1, <3>2
  <2>6. b * (r + 250 * k) <= x /\ x < b * (r + 250 * k) + b
    <3> HIDE DEF x
    <3> QED BY <1>8, <1>9, <2>2, <2>4, <2>5
  <2>7. x \div b = r + 250 * k
    <3> HIDE DEF x
    <3>1. r + 250 * k \in Int
      BY <1>9, <2>1
    <3> QED BY <1>8, <2>4, <2>6, <3>1, DivUnique
  <2>8. PositionOf(at, now) = x \div b
    BY DEF PositionOf, Round, b
  <2> QED BY <2>7, <2>8 DEF k
<1> DEFINE t == Ticks(now)
<1>12. \A i \in 1 .. 4 : t[i] = r + 250 * (i - 1)
  BY <1>7, <1>11
<1> HIDE DEF t
<1>13. \A i \in 1 .. 4 : t[i] \in 0 .. 1000
  BY <1>10, <1>12
<1>14. \A i \in 1 .. 3 : t[i + 1] - t[i] = 250
  BY <1>9, <1>12
<1> QED BY <1>13, <1>14 DEF Quartered, t

\* The order of the strip orders any jobs of a list.
LEMMA SoonerOrders ==
  ASSUME NEW S, \A j \in S : j.at \in Nat /\ j.nth \in Nat, \A i, j \in S : i.nth = j.nth => i = j
  PROVE  Ordering(S, Sooner(S))
<1> DEFINE ahead == Sooner(S)
           Before(i, j) == i.at < j.at \/ (i.at = j.at /\ i.nth < j.nth)
<1>1. ahead \in [S -> SUBSET S] /\ \A i, j \in S : i \in ahead[j] <=> Before(i, j)
  BY DEF Sooner
<1>2. \A j \in S : ~Before(j, j)
  OBVIOUS
<1>3. \A i, j \in S : i # j => Before(i, j) \/ Before(j, i)
  OBVIOUS
<1>4. \A i, j, k \in S : Before(i, j) /\ Before(j, k) => Before(i, k)
  OBVIOUS
<1> HIDE DEF ahead, Before
<1>5. \A i, j \in S : i \in ahead[j] => ahead[i] \subseteq ahead[j]
  BY <1>1, <1>4
<1> QED BY <1>1, <1>2, <1>3, <1>5 DEF Ordering, ahead

\* What StripInOrder says of the jobs of a strip.
StripOf(w, jobs) ==
    LET At(i) == (CHOOSE j \in w.jobs : j.id = jobs[i].id).at
        ids == {jobs[i].id : i \in DOMAIN jobs}
    IN /\ \A i \in DOMAIN jobs : jobs[i].left \in 20 .. 990
       /\ \A i, k \in DOMAIN jobs : i < k => jobs[i].left <= jobs[k].left
       /\ \A j \in Due24(w) : j.id \notin ids =>
            Len(jobs) = MaxJobs /\ \A i \in DOMAIN jobs : At(i) <= j.at

\* The strip holds the soonest jobs, whatever jobs are of one time.
LEMMA StripFits ==
  ASSUME NEW w, JobWorld(w)
  PROVE  StripOf(w, Strip(w))
<1> DEFINE D == Due24(w)
           ahead == Sooner(D)
           n == Cardinality(D)
           s == InOrder(D, ahead)
           m == Least(n, MaxJobs)
           jobs == Strip(w)
           Left(j) == Clamped(PositionOf(j.at, w.now))
           At(i) == (CHOOSE j \in w.jobs : j.id = jobs[i].id).at
           ids == {jobs[i].id : i \in DOMAIN jobs}
<1>1. /\ w.now \in Nat /\ IsFiniteSet(w.jobs) /\ D \in SUBSET w.jobs
      /\ \A j \in w.jobs : j.at \in Nat /\ j.nth \in Nat
      /\ \A i, j \in w.jobs : i.id = j.id \/ i.nth = j.nth => i = j
  BY DEF JobWorld, Listing, Due24
<1>2. jobs = [i \in 1 .. m |-> [id |-> s[i].id, left |-> Left(s[i])]]
  BY DEF Strip
<1> HIDE DEF D, jobs
<1>3. /\ IsFiniteSet(D) /\ \A j \in D : j.at \in Nat /\ j.nth \in Nat
      /\ \A i, j \in D : i.nth = j.nth => i = j
  BY <1>1, FS_Subset
<1>4. Ordering(D, ahead)
  BY <1>3, SoonerOrders
<1>5. \A j \in D : \A i \in ahead[j] : i \in D /\ i.at <= j.at
  BY <1>3 DEF Sooner
<1> HIDE DEF ahead
<1>6. /\ n \in Nat /\ s \in [1 .. n -> D]
      /\ \A i, j \in 1 .. n : i < j => s[i] \in ahead[s[j]] /\ s[i] # s[j]
      /\ \A x \in D : \E i \in 1 .. n : s[i] = x
  BY <1>3, <1>4, InOrderSorts
<1> HIDE DEF n, s
<1>7. m \in Nat /\ m <= n /\ (m < n => m = MaxJobs)
  BY <1>6, MapperConstants DEF Least
<1> HIDE DEF m
<1>8. \A i \in 1 .. n : s[i] \in D /\ s[i] \in w.jobs /\ s[i].at \in Nat
  BY <1>1, <1>6
<1>9. \A i, k \in 1 .. n : i < k => s[i].at <= s[k].at
  <2> SUFFICES ASSUME NEW i \in 1 .. n, NEW k \in 1 .. n, i < k PROVE s[i].at <= s[k].at
    OBVIOUS
  <2>1. s[i] \in ahead[s[k]] /\ s[k] \in D
    BY <1>6, <1>8
  <2> QED BY <1>5, <2>1
<1> DEFINE lane == 20 .. 990
<1>10. ASSUME NEW x \in Nat, NEW y \in Nat, x <= y
       PROVE  /\ Clamped(PositionOf(x, w.now)) \in lane
              /\ Clamped(PositionOf(x, w.now)) <= Clamped(PositionOf(y, w.now))
  <2> DEFINE p == (x - w.now) * 1000
             q == (y - w.now) * 1000
  <2>1. p \in Int /\ q \in Int /\ p <= q
    BY <1>1, <1>10
  <2>2. DayLong \in Nat \ {0}
    BY MapperConstants
  <2>3. PositionOf(x, w.now) = Round(p, DayLong) /\ PositionOf(y, w.now) = Round(q, DayLong)
    BY DEF PositionOf
  <2> HIDE DEF p, q
  <2>4. Round(p, DayLong) \in Int /\ Round(q, DayLong) \in Int /\ Round(p, DayLong) <= Round(q, DayLong)
    BY <1>10, <2>1, <2>2, RoundFacts
  <2> DEFINE a == Round(p, DayLong)
             b == Round(q, DayLong)
  <2> HIDE DEF a, b
  <2>5. a \in Int /\ b \in Int /\ a <= b
    BY <2>4 DEF a, b
  <2>6. Clamped(a) \in lane /\ Clamped(a) <= Clamped(b)
    <3> HIDE DEF lane
    <3>1. Clamped(a) \in Int /\ 20 <= Clamped(a) /\ Clamped(a) <= 990
      BY <2>5, ClampedFacts
    <3>2. Clamped(a) <= Clamped(b)
      BY <2>5, ClampedFacts
    <3>3. Clamped(a) \in lane
      BY <3>1 DEF lane
    <3> QED BY <3>2, <3>3
  <2> HIDE DEF lane
  <2> QED BY <2>3, <2>6 DEF a, b
<1> HIDE DEF lane
<1> DEFINE job == [i \in 1 .. m |-> [id |-> s[i].id, left |-> Left(s[i])]]
<1>11. DOMAIN jobs = 1 .. m /\ \A i \in 1 .. m : jobs[i].id = s[i].id /\ jobs[i].left = Left(s[i])
  BY <1>2
<1>12. Len(jobs) = m
  <2> DEFINE T == {job[i] : i \in 1 .. m}
  <2>1. job \in [1 .. m -> T]
    OBVIOUS
  <2> HIDE DEF T
  <2> QED BY <1>2, <1>7, <2>1, FunctionSeq
<1>13. \A i \in 1 .. m : At(i) = s[i].at
  <2> SUFFICES ASSUME NEW i \in 1 .. m PROVE At(i) = s[i].at
    OBVIOUS
  <2>1. i \in 1 .. n
    BY <1>6, <1>7
  <2>2. s[i] \in w.jobs /\ s[i].id = jobs[i].id
    BY <1>8, <1>11, <2>1
  <2>3. \A j \in w.jobs : j.id = jobs[i].id => j = s[i]
    BY <1>1, <2>2
  <2>4. (CHOOSE j \in w.jobs : j.id = jobs[i].id) = s[i]
    BY <2>2, <2>3
  <2> QED BY <2>4
<1>14. ASSUME NEW i \in DOMAIN jobs PROVE jobs[i].left \in lane
  <2>0. i \in 1 .. m
    BY <1>11
  <2>1. i \in 1 .. n
    BY <1>6, <1>7, <2>0
  <2>2. s[i].at \in Nat /\ s[i].at <= s[i].at
    BY <1>8, <2>1
  <2>3. Clamped(PositionOf(s[i].at, w.now)) \in lane
    BY <1>10, <2>2
  <2>4. jobs[i].left = Clamped(PositionOf(s[i].at, w.now))
    BY <1>11, <2>0
  <2> QED BY <2>3, <2>4
<1>15. \A i, k \in DOMAIN jobs : i < k => jobs[i].left <= jobs[k].left
  <2> SUFFICES ASSUME NEW i \in 1 .. m, NEW k \in 1 .. m, i < k PROVE jobs[i].left <= jobs[k].left
    BY <1>11
  <2>1. i \in 1 .. n /\ k \in 1 .. n
    BY <1>6, <1>7
  <2>2. s[i].at \in Nat /\ s[k].at \in Nat /\ s[i].at <= s[k].at
    BY <1>8, <1>9, <2>1
  <2> QED BY <1>10, <1>11, <2>2
<1>16. ASSUME NEW j \in D, j.id \notin ids
       PROVE  Len(jobs) = MaxJobs /\ \A i \in DOMAIN jobs : At(i) <= j.at
  <2>1. PICK k \in 1 .. n : s[k] = j
    BY <1>6
  <2>2. k \notin 1 .. m
    BY <1>11, <1>16, <2>1
  <2>3. m < k
    BY <1>7, <2>2
  <2>4. Len(jobs) = MaxJobs
    BY <1>6, <1>7, <1>12, <2>3
  <2>5. \A i \in 1 .. m : i \in 1 .. n /\ i < k
    BY <1>6, <1>7, <2>3
  <2>6. \A i \in 1 .. m : At(i) <= j.at
    BY <1>9, <1>13, <2>1, <2>5
  <2> QED BY <1>11, <2>4, <2>6
<1>17. \A i \in DOMAIN jobs : jobs[i].left \in 20 .. 990
  BY <1>14 DEF lane
<1> QED BY <1>15, <1>16, <1>17 DEF StripOf, D, jobs

-----------------------------------------------------------------------------
(* The cards. *)

\* The order of the durations orders them.
LEMMA ShorterOrders ==
  ASSUME NEW T \in SUBSET Nat, NEW times \in [T -> Nat]
  PROVE  Ordering(T, Shorter(times))
<1> DEFINE ahead == Shorter(times)
           Before(i, k) == times[i] < times[k] \/ (times[i] = times[k] /\ i < k)
<1>1. ahead \in [T -> SUBSET T] /\ \A i, k \in T : i \in ahead[k] <=> Before(i, k)
  BY DEF Shorter
<1>2. \A k \in T : ~Before(k, k)
  OBVIOUS
<1>3. \A i, k \in T : i # k => Before(i, k) \/ Before(k, i)
  OBVIOUS
<1>4. \A i, j, k \in T : Before(i, j) /\ Before(j, k) => Before(i, k)
  OBVIOUS
<1> HIDE DEF ahead, Before
<1>5. \A i, j \in T : i \in ahead[j] => ahead[i] \subseteq ahead[j]
  BY <1>1, <1>4
<1> QED BY <1>1, <1>2, <1>3, <1>5 DEF Ordering, ahead

\* T holds what s has in the places a .. b.
Held(s, a, b, T) == \A i \in a .. b : s[i] \in T

\* A set that holds a stretch of a sequence without repetition has as many elements.
LEMMA StretchFits ==
  ASSUME NEW n \in Nat, NEW s, Distinct(s, n),
         NEW a \in 1 .. n, NEW b \in a .. n,
         NEW T, IsFiniteSet(T), Held(s, a, b, T)
  PROVE  Cardinality(T) \in Nat /\ Cardinality(T) + a > b
<1> DEFINE part == {s[i] : i \in a .. b}
<1>1. Stretch(part, s, a, b)
  BY DEF Stretch
<1>2. part \in SUBSET T
  BY DEF Held
<1> HIDE DEF part
<1>3. IsFiniteSet(part) /\ Cardinality(part) = b - a + 1
  <2>1. a \in 1 .. n + 1 /\ b \in a - 1 .. n
    OBVIOUS
  <2> QED BY <1>1, <2>1, StretchCount
<1>4. Cardinality(part) <= Cardinality(T) /\ Cardinality(T) \in Nat
  BY <1>2, FS_Subset, FS_CardinalityType
<1> QED BY <1>3, <1>4

\* Half of the times are no longer than the median, and half no shorter.
LEMMA MedianIsMiddle ==
  ASSUME NEW T \in SUBSET Nat, IsFiniteSet(T), NEW times \in [T -> Nat]
  PROVE  LET n == Cardinality(T)
             median == Median(times)
         IN /\ median = None <=> n = 0
            /\ n > 0 => /\ median \in Nat
                        /\ 2 * Cardinality({i \in T : 2 * times[i] <= median}) >= n
                        /\ 2 * Cardinality({i \in T : 2 * times[i] >= median}) >= n
<1> DEFINE n == Cardinality(T)
           ahead == Shorter(times)
           s == InOrder(T, ahead)
           median == Median(times)
           h == n \div 2
           low == {i \in T : 2 * times[i] <= median}
           high == {i \in T : 2 * times[i] >= median}
<1>0. DOMAIN times = T
  OBVIOUS
<1>1. median = IF n = 0 THEN None
               ELSE IF n % 2 = 1 THEN 2 * times[s[h + 1]] ELSE times[s[h]] + times[s[h + 1]]
  BY <1>0 DEF Median
<1>2. Ordering(T, ahead)
  BY ShorterOrders
<1>3. \A k \in T : \A i \in ahead[k] : times[i] <= times[k]
  BY <1>0 DEF Shorter
<1> HIDE DEF ahead, median
<1>4. /\ n \in Nat /\ s \in [1 .. n -> T]
      /\ \A i, j \in 1 .. n : i < j => s[i] \in ahead[s[j]] /\ s[i] # s[j]
  BY <1>2, InOrderSorts
<1> HIDE DEF n, s
<1>5. n \in Nat /\ s \in [1 .. n -> T] /\ Distinct(s, n)
  BY <1>4 DEF Distinct
<1>6. \A i, j \in 1 .. n : /\ s[i] \in T /\ times[s[i]] \in Nat
                           /\ i <= j => times[s[i]] <= times[s[j]]
  <2> SUFFICES ASSUME NEW i \in 1 .. n, NEW j \in 1 .. n
               PROVE  /\ s[i] \in T /\ times[s[i]] \in Nat
                      /\ i <= j => times[s[i]] <= times[s[j]]
    OBVIOUS
  <2>1. s[i] \in T /\ s[j] \in T /\ times[s[i]] \in Nat /\ times[s[j]] \in Nat
    BY <1>4
  <2>2. CASE i < j
    BY <1>3, <1>4, <2>1, <2>2
  <2>3. CASE i = j
    BY <2>1, <2>3
  <2>4. CASE j < i
    BY <2>1, <2>4
  <2> QED BY <2>2, <2>3, <2>4
<1>7. IsFiniteSet(low) /\ IsFiniteSet(high)
  BY FS_Subset
<1>8. CASE n = 0
  BY <1>1, <1>8 DEF n, median
<1>9. CASE n > 0 /\ n % 2 = 1
  <2>1. h \in Nat /\ n = 2 * h + 1
    BY <1>4, <1>9
  <2> HIDE DEF h
  <2> DEFINE t == times[s[h + 1]]
  <2>2. h + 1 \in 1 .. n /\ t \in Nat /\ median = 2 * t
    BY <1>1, <1>6, <1>9, <2>1
  <2>3. Held(s, 1, h + 1, low)
    BY <1>6, <2>1, <2>2 DEF Held
  <2>4. Held(s, h + 1, n, high)
    BY <1>6, <2>1, <2>2 DEF Held
  <2> HIDE DEF low, high, t
  <2>k. PICK k \in Nat : k = h + 1
    BY <2>1
  <2>5. 1 \in 1 .. n /\ k \in 1 .. n /\ n \in k .. n /\ Held(s, 1, k, low) /\ Held(s, k, n, high)
    BY <1>4, <2>k, <2>1, <2>3, <2>4
  <2>6. Cardinality(low) \in Nat /\ Cardinality(low) + 1 > k
    BY <1>5, <1>7, <2>1, <2>5, StretchFits
  <2>7. Cardinality(high) \in Nat /\ Cardinality(high) + k > n
    BY <1>5, <1>7, <2>1, <2>5, StretchFits
  <2>8. median \in Nat /\ 2 * Cardinality(low) >= n /\ 2 * Cardinality(high) >= n
    BY <2>k, <2>1, <2>2, <2>6, <2>7
  <2> QED BY <1>9, <2>8 DEF None, n, median, low, high
<1>10. CASE n > 0 /\ n % 2 # 1
  <2>1. h \in Nat /\ n = 2 * h /\ h >= 1
    BY <1>4, <1>10
  <2> HIDE DEF h
  <2> DEFINE t == times[s[h]]
             u == times[s[h + 1]]
  <2>2. h \in 1 .. n /\ h + 1 \in 1 .. n /\ t \in Nat /\ u \in Nat /\ t <= u /\ median = t + u
    BY <1>1, <1>6, <1>10, <2>1
  <2>3. Held(s, 1, h, low)
    <3> SUFFICES ASSUME NEW i \in 1 .. h PROVE s[i] \in low
      BY DEF Held
    <3>1. i \in 1 .. n /\ i <= h
      BY <2>1
    <3>2. s[i] \in T /\ times[s[i]] \in Nat /\ times[s[i]] <= t
      BY <1>6, <2>2, <3>1
    <3> HIDE DEF t, u
    <3> QED BY <2>2, <3>2
  <2>4. Held(s, h + 1, n, high)
    <3> SUFFICES ASSUME NEW i \in h + 1 .. n PROVE s[i] \in high
      BY DEF Held
    <3>1. i \in 1 .. n /\ h + 1 <= i
      BY <1>4, <2>1
    <3>2. s[i] \in T /\ times[s[i]] \in Nat /\ u <= times[s[i]]
      BY <1>6, <2>2, <3>1
    <3> HIDE DEF t, u
    <3> QED BY <2>2, <3>2
  <2> HIDE DEF low, high, t, u
  <2>k. PICK k \in Nat : k = h + 1
    BY <2>1
  <2>5. 1 \in 1 .. n /\ h \in 1 .. n /\ k \in 1 .. n /\ n \in k .. n /\ Held(s, 1, h, low) /\ Held(s, k, n, high)
    BY <1>4, <2>k, <2>1, <2>3, <2>4
  <2>6. Cardinality(low) \in Nat /\ Cardinality(low) + 1 > h
    BY <1>5, <1>7, <2>1, <2>5, StretchFits
  <2>7. Cardinality(high) \in Nat /\ Cardinality(high) + k > n
    BY <1>5, <1>7, <2>1, <2>5, StretchFits
  <2>8. median \in Nat /\ 2 * Cardinality(low) >= n /\ 2 * Cardinality(high) >= n
    BY <2>k, <2>1, <2>2, <2>6, <2>7
  <2> QED BY <1>10, <2>8 DEF None, n, median, low, high
<1> QED BY <1>4, <1>8, <1>9, <1>10

\* The deployments a summary counts, and the durations it takes the median of.
LEMMA RecentTyped ==
  ASSUME NEW w, KpiWorld(w)
  PROVE  /\ IsFiniteSet(Recent(w)) /\ Recent(w) \in SUBSET Nat
         /\ LET took == Durations(w, Successes(w))
            IN /\ DOMAIN took \in SUBSET Nat /\ IsFiniteSet(DOMAIN took)
               /\ took \in [DOMAIN took -> Nat]
<1> DEFINE D == w.deployments
           T == {k \in Successes(w) :
                   D[k].created # None /\ D[k].finished # None /\ D[k].finished >= D[k].created}
           took == Durations(w, Successes(w))
<1>1. /\ Len(D) \in Nat /\ DOMAIN D = 1 .. Len(D)
      /\ \A i \in DOMAIN D : D[i].created \in Nat \cup {None} /\ D[i].finished \in Nat \cup {None}
  <2> DEFINE Rec == [status : STRING, created : Nat \cup {None}, finished : Nat \cup {None}]
  <2>1. D \in Seq(Rec)
    BY DEF KpiWorld, Date
  <2> HIDE DEF D, Rec
  <2>2. Len(D) \in Nat /\ DOMAIN D = 1 .. Len(D) /\ D \in [1 .. Len(D) -> Rec]
    BY <2>1
  <2>3. \A i \in DOMAIN D : D[i] \in Rec
    BY <2>2
  <2> QED BY <2>2, <2>3 DEF Rec
<1>2. Recent(w) \in SUBSET DOMAIN D
  BY DEF Recent
<1>3. IsFiniteSet(1 .. Len(D))
  BY <1>1, FS_Interval
<1>4. IsFiniteSet(Recent(w)) /\ Recent(w) \in SUBSET Nat
  BY <1>1, <1>2, <1>3, FS_Subset
<1>5. T \in SUBSET Recent(w)
  BY DEF Successes
<1>6. took = [i \in T |-> D[i].finished - D[i].created]
  BY DEF Durations
<1>7. \A i \in T : D[i].finished - D[i].created \in Nat
  <2> SUFFICES ASSUME NEW i \in T PROVE D[i].finished - D[i].created \in Nat
    OBVIOUS
  <2>1. i \in DOMAIN D
    BY <1>2, <1>5
  <2>2. D[i].finished \in Nat /\ D[i].created \in Nat /\ D[i].finished >= D[i].created
    BY <1>1, <2>1
  <2> QED BY <2>2
<1> HIDE DEF T, took, D
<1>8. DOMAIN took = T /\ took \in [T -> Nat]
  BY <1>6, <1>7
<1>9. IsFiniteSet(T) /\ T \in SUBSET Nat
  BY <1>4, <1>5, FS_Subset
<1> QED BY <1>4, <1>8, <1>9 DEF took

\* A green rate: nineteen of twenty, to a half of a percent.
LEMMA GreenRate ==
  ASSUME NEW good \in Nat, NEW bad \in Nat, NEW done \in Nat, NEW total \in Nat,
         good + bad <= done, done <= total, done # 0, Round(100 * good, done) >= 95
  PROVE  18 * bad <= total
<1> DEFINE r == Round(100 * good, done)
<1>1. r \in Int /\ 2 * done * r <= 2 * (100 * good) + done
  BY RoundFacts
<1> HIDE DEF r
<1>2. PICK k \in Nat : r = 95 + k
  <2>1. r - 95 \in Nat /\ r = 95 + (r - 95)
    BY <1>1 DEF r
  <2> QED BY <2>1
<1>3. 2 * done * r = 190 * done + 2 * (done * k) /\ done * k \in Nat
  BY <1>2
<1>4. 189 * done <= 200 * good
  BY <1>1, <1>3
<1> QED BY <1>4

\* What KpisFitTogether says of a summary and its badge.
SummaryOf(w, s, badge) ==
    LET took == Durations(w, Successes(w))
        n == Cardinality(DOMAIN took)
    IN /\ s.success + s.failed <= s.total
       /\ s.median = None <=> n = 0
       /\ n > 0 => /\ 2 * Cardinality({i \in DOMAIN took : 2 * took[i] <= s.median}) >= n
                   /\ 2 * Cardinality({i \in DOMAIN took : 2 * took[i] >= s.median}) >= n
       /\ badge = "ok" => 18 * s.failed <= s.total

\* The numbers of the cards fit together, whatever was deployed.
LEMMA SummaryFits ==
  ASSUME NEW w, KpiWorld(w)
  PROVE  SummaryOf(w, Summary(w), SuccessTrend(Summary(w).successPct))
<1> DEFINE R == Recent(w)
           State(i) == DeploymentState(w.deployments[i].status)
           good == {i \in R : State(i) \in {"success"}}
           bad == {i \in R : State(i) \in {"failed"}}
           done == {i \in R : State(i) \in {"success", "failed", "cancelled"}}
           took == Durations(w, Successes(w))
           s == Summary(w)
<1>1. /\ s.total = Cardinality(R) /\ s.success = Cardinality(good) /\ s.failed = Cardinality(bad)
      /\ s.successPct = IF done = {} THEN None ELSE Round(100 * Cardinality(good), Cardinality(done))
      /\ s.median = Median(took)
  BY DEF Summary
<1>2. IsFiniteSet(R)
  BY RecentTyped
<1>3. DOMAIN took \in SUBSET Nat /\ IsFiniteSet(DOMAIN took) /\ took \in [DOMAIN took -> Nat]
  BY RecentTyped
<1>4. /\ good \in SUBSET done /\ bad \in SUBSET done /\ done \in SUBSET R
      /\ good \cap bad = {} /\ good \cup bad \in SUBSET done
  OBVIOUS
<1> HIDE DEF R, good, bad, done, took, s
<1>5. /\ IsFiniteSet(done) /\ IsFiniteSet(good) /\ IsFiniteSet(bad)
      /\ Cardinality(done) <= Cardinality(R)
  BY <1>2, <1>4, FS_Subset
<1>6. /\ Cardinality(R) \in Nat /\ Cardinality(done) \in Nat
      /\ Cardinality(good) \in Nat /\ Cardinality(bad) \in Nat
      /\ (Cardinality(done) = 0 <=> done = {})
  BY <1>2, <1>5, FS_CardinalityType, FS_EmptySet
<1>7. Cardinality(good) + Cardinality(bad) <= Cardinality(done)
  <2>1. Cardinality(good \cup bad) = Cardinality(good) + Cardinality(bad) - Cardinality(good \cap bad)
    BY <1>5, FS_Union
  <2>2. Cardinality(good \cap bad) = 0
    BY <1>4, FS_EmptySet
  <2>3. Cardinality(good \cup bad) <= Cardinality(done)
    BY <1>4, <1>5, FS_Subset
  <2> QED BY <1>6, <2>1, <2>2, <2>3
<1>8. s.success + s.failed <= s.total
  BY <1>1, <1>5, <1>6, <1>7
<1>9. /\ s.median = None <=> Cardinality(DOMAIN took) = 0
      /\ Cardinality(DOMAIN took) > 0 =>
           /\ 2 * Cardinality({i \in DOMAIN took : 2 * took[i] <= s.median}) >= Cardinality(DOMAIN took)
           /\ 2 * Cardinality({i \in DOMAIN took : 2 * took[i] >= s.median}) >= Cardinality(DOMAIN took)
  <2> DEFINE T == DOMAIN took
             t == Median(took)
  <2>1. T \in SUBSET Nat /\ IsFiniteSet(T) /\ took \in [T -> Nat]
    BY <1>3
  <2>2. s.median = t
    BY <1>1
  <2> HIDE DEF T
  <2>3. /\ t = None <=> Cardinality(T) = 0
        /\ Cardinality(T) > 0 =>
             /\ 2 * Cardinality({i \in T : 2 * took[i] <= t}) >= Cardinality(T)
             /\ 2 * Cardinality({i \in T : 2 * took[i] >= t}) >= Cardinality(T)
    BY <2>1, MedianIsMiddle
  <2> HIDE DEF t
  <2> QED BY <2>2, <2>3 DEF T
<1>10. ASSUME SuccessTrend(s.successPct) = "ok" PROVE 18 * s.failed <= s.total
  <2>1. s.successPct # None /\ s.successPct >= 95
    BY <1>10 DEF SuccessTrend
  <2>2. done # {} /\ Round(100 * Cardinality(good), Cardinality(done)) >= 95
    BY <1>1, <2>1
  <2>3. Cardinality(done) # 0
    BY <1>6, <2>2
  <2> DEFINE g == Cardinality(good)
             b == Cardinality(bad)
             d == Cardinality(done)
             t == Cardinality(R)
  <2>4. /\ g \in Nat /\ b \in Nat /\ d \in Nat /\ t \in Nat
        /\ g + b <= d /\ d <= t /\ d # 0 /\ Round(100 * g, d) >= 95
    BY <1>5, <1>6, <1>7, <2>2, <2>3
  <2> HIDE DEF g, b, d, t
  <2>5. 18 * b <= t
    BY <2>4, GreenRate
  <2> QED BY <1>1, <2>5 DEF b, t
<1> QED BY <1>8, <1>9, <1>10 DEF SummaryOf, took, s

\* What SparkIsTrue says of the points of a series.
SparkOf(values, spark) ==
    LET points == DOMAIN spark
        Value(i) == values[Len(values) - Len(spark) + i]
        Above(i, j) == Value(i) > Value(j)
    IN /\ Len(spark) = Least(Len(values), MaxPoints)
       /\ \A i \in points : spark[i] \in 40 .. 260
       /\ \A i, j \in points : Above(i, j) =>
            /\ spark[i] <= spark[j]
            /\ ~(\E k \in points : Above(k, i)) => spark[i] = 40
            /\ ~(\E k \in points : Above(j, k)) => spark[j] = 260

\* The least and the greatest of finitely many numbers.
LEMMA ExtremesAre ==
  ASSUME NEW S \in SUBSET Int, IsFiniteSet(S), S # {}
  PROVE  /\ Sets!Min(S) \in S /\ \A y \in S : Sets!Min(S) <= y
         /\ Sets!Max(S) \in S /\ \A y \in S : y <= Sets!Max(S)
<1>1. Sets!Min(S) \in S /\ \A y \in S : Sets!Min(S) <= y
  BY ExtremesExist DEF Sets!Min
<1>2. Sets!Max(S) \in S /\ \A y \in S : y <= Sets!Max(S)
  <2>1. Sets!Max(S) = CHOOSE x \in S : \A y \in S : x >= y
    BY DEF Sets!Max
  <2>2. \E x \in S : \A y \in S : x >= y
    BY ExtremesExist
  <2> QED BY <2>1, <2>2
<1> QED BY <1>1, <1>2

\* The height of a value above the lowest.
Drawn(x, lo, span) == Round(260 * span - (x - lo) * 220, span)

\* Where a value stands: between the edges, lower when it is higher, on an edge when
\* it is an extreme.
LEMMA Height ==
  ASSUME NEW lo \in Int, NEW span \in Nat \ {0}, NEW v \in Int, lo <= v, v <= lo + span
  PROVE  /\ Drawn(v, lo, span) \in Int /\ 40 <= Drawn(v, lo, span) /\ Drawn(v, lo, span) <= 260
         /\ \A u \in Int : u <= v => Drawn(v, lo, span) <= Drawn(u, lo, span)
         /\ v = lo + span => Drawn(v, lo, span) = 40
         /\ v = lo => Drawn(v, lo, span) = 260
<1> DEFINE H(x) == 260 * span - (x - lo) * 220
<1>1. Round(40 * span, span) = 40 /\ Round(260 * span, span) = 260
  BY RoundExact
<1>2. /\ H(v) \in Int /\ 40 * span \in Int /\ 260 * span \in Int
      /\ 40 * span <= H(v) /\ H(v) <= 260 * span
      /\ (v = lo + span => H(v) = 40 * span)
      /\ (v = lo => H(v) = 260 * span)
  OBVIOUS
<1>3. \A u \in Int : u <= v => H(u) \in Int /\ H(v) <= H(u)
  OBVIOUS
<1> HIDE DEF H
<1>4. /\ Round(H(v), span) \in Int
      /\ Round(40 * span, span) <= Round(H(v), span)
      /\ Round(H(v), span) <= Round(260 * span, span)
      /\ \A u \in Int : u <= v => Round(H(v), span) <= Round(H(u), span)
  <2>1. span \in Nat \ {0}
    OBVIOUS
  <2> DEFINE height == H(v)
             bottom == 260 * span
             top == 40 * span
  <2>a. height \in Int /\ bottom \in Int /\ top \in Int /\ top <= height /\ height <= bottom
    BY <1>2
  <2> HIDE DEF height, bottom, top
  <2>2. Round(height, span) \in Int /\ Round(height, span) <= Round(bottom, span)
    BY <2>1, <2>a, RoundFacts
  <2>3. Round(top, span) <= Round(height, span)
    BY <2>1, <2>a, RoundFacts
  <2>4. ASSUME NEW u \in Int, u <= v PROVE Round(H(v), span) <= Round(H(u), span)
    <3>1. H(v) \in Int /\ H(u) \in Int /\ H(v) <= H(u)
      BY <1>2, <1>3, <2>4
    <3> QED BY <2>1, <3>1, RoundFacts
  <2> QED BY <2>2, <2>3, <2>4 DEF height, bottom, top
<1>5. Round(H(v), span) \in Int /\ 40 <= Round(H(v), span) /\ Round(H(v), span) <= 260
  BY <1>1, <1>4
<1>6. \A x : Drawn(x, lo, span) = Round(H(x), span)
  BY DEF Drawn, H
<1> QED BY <1>1, <1>2, <1>4, <1>5, <1>6

\* A series with a slope to draw.
Drawable(values) == values \in Seq(Int) /\ Len(values) >= 2

\* A sparkline is of the newest values, whatever the series.
LEMMA SparkFits ==
  ASSUME NEW values, Drawable(values)
  PROVE  SparkOf(values, Spark(values))
<1> DEFINE n == Len(values)
           m == Least(n, MaxPoints)
           older == n - m
           series == [i \in 1 .. m |-> values[older + i]]
           seen == {series[i] : i \in DOMAIN series}
           lo == Sets!Min(seen)
           span == Sets!Max(seen) - lo
           spark == Spark(values)
<1>1. n \in Nat /\ n >= 2 /\ values \in [1 .. n -> Int]
  BY DEF Drawable
<1>2. spark = [i \in DOMAIN series |-> IF span = 0 THEN 150 ELSE Drawn(series[i], lo, span)]
  BY DEF Drawable, Spark, Drawn
<1> HIDE DEF spark, n
<1>3. m \in Nat /\ m >= 2 /\ m <= n /\ older \in Nat /\ n = older + m
  BY <1>1 DEF Least, MaxPoints
<1> HIDE DEF m, older
<1>4. DOMAIN series = 1 .. m /\ \A i \in 1 .. m : series[i] = values[older + i] /\ series[i] \in Int
  <2>1. \A i \in 1 .. m : older + i \in 1 .. n
    BY <1>1, <1>3
  <2> QED BY <1>1, <2>1
<1> HIDE DEF series
<1>5. seen \in SUBSET Int /\ IsFiniteSet(seen) /\ seen # {}
  <2>1. IsFiniteSet(1 .. m)
    BY <1>3, FS_Interval
  <2>0. 1 \in 1 .. m
    BY <1>3
  <2>2. seen \in SUBSET Int /\ series[1] \in seen
    BY <1>4, <2>0
  <2>3. seen = {series[i] : i \in 1 .. m} /\ DOMAIN series = 1 .. m
    BY <1>4
  <2> HIDE DEF seen
  <2>4. IsFiniteSet(seen)
    BY <2>1, <2>3, ImageFinite
  <2> QED BY <2>2, <2>4
<1>6. \A i \in 1 .. m : series[i] \in seen
  BY <1>4
<1>7. \A x \in seen : \E i \in 1 .. m : series[i] = x
  BY <1>4
<1> DEFINE hi == Sets!Max(seen)
<1> HIDE DEF seen
<1>8. /\ lo \in seen /\ hi \in seen /\ lo \in Int /\ hi \in Int
      /\ \A x \in seen : x \in Int /\ lo <= x /\ x <= hi
  BY <1>5, ExtremesAre
<1>9. span = hi - lo /\ span \in Nat
  BY <1>8
<1> HIDE DEF lo, hi, span
<1>10. \A i \in 1 .. m : series[i] \in Int /\ lo <= series[i] /\ series[i] <= lo + span
  <2> SUFFICES ASSUME NEW i \in 1 .. m
               PROVE  series[i] \in Int /\ lo <= series[i] /\ series[i] <= lo + span
    OBVIOUS
  <2>1. series[i] \in Int /\ lo <= series[i] /\ series[i] <= hi
    BY <1>6, <1>8
  <2> QED BY <1>8, <1>9, <2>1
<1>11. DOMAIN spark = 1 .. m /\ \A i \in 1 .. m : spark[i] = IF span = 0 THEN 150 ELSE Drawn(series[i], lo, span)
  BY <1>2, <1>4
<1>12. ASSUME span # 0
       PROVE  \A i \in 1 .. m :
                /\ Drawn(series[i], lo, span) \in 40 .. 260
                /\ \A u \in Int : u <= series[i] => Drawn(series[i], lo, span) <= Drawn(u, lo, span)
                /\ series[i] = lo + span => Drawn(series[i], lo, span) = 40
                /\ series[i] = lo => Drawn(series[i], lo, span) = 260
  <2> SUFFICES ASSUME NEW i \in 1 .. m
               PROVE  /\ Drawn(series[i], lo, span) \in 40 .. 260
                      /\ \A u \in Int : u <= series[i] => Drawn(series[i], lo, span) <= Drawn(u, lo, span)
                      /\ series[i] = lo + span => Drawn(series[i], lo, span) = 40
                      /\ series[i] = lo => Drawn(series[i], lo, span) = 260
    OBVIOUS
  <2> DEFINE v == series[i]
  <2>1. v \in Int /\ lo <= v /\ v <= lo + span /\ lo \in Int /\ span \in Nat \ {0}
    BY <1>8, <1>9, <1>10, <1>12
  <2> HIDE DEF v
  <2>2. \A u \in Int : u <= v => Drawn(v, lo, span) <= Drawn(u, lo, span)
    BY <2>1, Height
  <2>5. Drawn(v, lo, span) \in 40 .. 260
    <3>1. Drawn(v, lo, span) \in Int /\ 40 <= Drawn(v, lo, span) /\ Drawn(v, lo, span) <= 260
      BY <2>1, Height
    <3> QED BY <3>1
  <2>3. v = lo + span => Drawn(v, lo, span) = 40
    BY <2>1, Height
  <2>4. v = lo => Drawn(v, lo, span) = 260
    BY <2>1, Height
  <2> QED BY <2>2, <2>3, <2>4, <2>5 DEF v
<1>13. ASSUME NEW i \in 1 .. m PROVE spark[i] \in 40 .. 260
  <2>1. CASE span = 0
    BY <1>11, <2>1
  <2>2. CASE span # 0
    <3>1. spark[i] = Drawn(series[i], lo, span)
      BY <1>11, <2>2
    <3> DEFINE d == Drawn(series[i], lo, span)
    <3>2. d \in 40 .. 260
      BY <1>12, <2>2
    <3> HIDE DEF d
    <3>3. spark[i] = d
      BY <3>1 DEF d
    <3> QED BY <3>2, <3>3
  <2> QED BY <2>1, <2>2
<1>14. ASSUME NEW i \in 1 .. m, NEW j \in 1 .. m, series[i] > series[j]
       PROVE  /\ spark[i] <= spark[j]
              /\ ~(\E k \in 1 .. m : series[k] > series[i]) => spark[i] = 40
              /\ ~(\E k \in 1 .. m : series[j] > series[k]) => spark[j] = 260
  <2>1. span # 0
    BY <1>8, <1>9, <1>10, <1>14
  <2>2. spark[i] = Drawn(series[i], lo, span) /\ spark[j] = Drawn(series[j], lo, span)
    BY <1>11, <2>1
  <2>3. spark[i] <= spark[j]
    BY <1>10, <1>12, <1>14, <2>1, <2>2
  <2>4. ASSUME ~(\E k \in 1 .. m : series[k] > series[i]) PROVE spark[i] = 40
    <3>1. PICK k \in 1 .. m : series[k] = hi
      BY <1>7, <1>8
    <3>2. series[i] = lo + span
      BY <1>8, <1>9, <1>10, <2>4, <3>1
    <3> QED BY <1>12, <2>1, <2>2, <3>2
  <2>5. ASSUME ~(\E k \in 1 .. m : series[j] > series[k]) PROVE spark[j] = 260
    <3>1. PICK k \in 1 .. m : series[k] = lo
      BY <1>7, <1>8
    <3>2. series[j] = lo
      BY <1>8, <1>9, <1>10, <2>5, <3>1
    <3> QED BY <1>12, <2>1, <2>2, <3>2
  <2> QED BY <2>3, <2>4, <2>5
<1>15. Len(spark) = m
  <2>1. spark \in [1 .. m -> 40 .. 260]
    BY <1>2, <1>4, <1>11, <1>13
  <2> QED BY <1>3, <2>1, FunctionSeq
<1>16. \A i \in 1 .. m : values[Len(values) - Len(spark) + i] = series[i]
  <2>1. Len(values) - Len(spark) = older
    BY <1>3, <1>15 DEF n
  <2> QED BY <1>4, <2>1
<1>17. Len(spark) = Least(Len(values), MaxPoints)
  BY <1>15 DEF m, n
<1>18. DOMAIN spark = 1 .. m
  BY <1>11
<1>19. \A i \in DOMAIN spark : spark[i] \in 40 .. 260
  BY <1>13, <1>18
<1> DEFINE Value(i) == values[Len(values) - Len(spark) + i]
<1>20. \A i \in 1 .. m : Value(i) = series[i]
  BY <1>16
<1> HIDE DEF Value
<1> DEFINE points == DOMAIN spark
<1>21. ASSUME NEW i \in points, NEW j \in points, Value(i) > Value(j)
       PROVE  /\ spark[i] <= spark[j]
              /\ ~(\E k \in points : Value(k) > Value(i)) => spark[i] = 40
              /\ ~(\E k \in points : Value(j) > Value(k)) => spark[j] = 260
  <2>0. points = 1 .. m
    BY <1>18
  <2> HIDE DEF points
  <2>1. series[i] > series[j] /\ Value(i) = series[i] /\ Value(j) = series[j]
    BY <1>20, <1>21, <2>0
  <2>2. /\ (\E k \in points : Value(k) > Value(i)) <=> (\E k \in 1 .. m : series[k] > series[i])
        /\ (\E k \in points : Value(j) > Value(k)) <=> (\E k \in 1 .. m : series[j] > series[k])
    BY <1>20, <2>0, <2>1
  <2> QED BY <1>14, <2>0, <2>1, <2>2
<1> QED BY <1>17, <1>19, <1>21 DEF SparkOf, Value, spark

\* The strip (buildTimelineJobs, buildTimelineTicks), the KPIs of the deployments and
\* their medians (summarizeDeployments) and the sparklines (sparkFrom) draw what there
\* is, for every list and every length of the clock's hour.
THEOREM DrawingIsTrue == MapperSpec => []DrawnAsItIs
<1>1. MapperInv => DrawnAsItIs
  <2> SUFFICES ASSUME MapperInv PROVE DrawnAsItIs
    OBVIOUS
  <2>1. StripInOrder
    <3> SUFFICES ASSUME shown.kind = "timeline" PROVE StripInOrder
      BY DEF StripInOrder
    <3>1. JobWorld(world) /\ shown.jobs = Strip(world) /\ shown.ticks = Ticks(world.now)
      BY WorldOfKind DEF MapperInv
    <3>2. StripOf(world, shown.jobs)
      BY <3>1, StripFits
    <3>3. Quartered(shown.ticks)
      BY <3>1, TicksFit DEF JobWorld
    <3> QED BY <3>2, <3>3 DEF StripInOrder, StripOf, Quartered
  <2>2. KpisFitTogether
    <3> SUFFICES ASSUME shown.kind = "kpis" PROVE KpisFitTogether
      BY DEF KpisFitTogether
    <3>1. /\ KpiWorld(world) /\ shown.summary = Summary(world)
          /\ shown.success = SuccessTrend(shown.summary.successPct)
      BY WorldOfKind DEF MapperInv
    <3>2. SummaryOf(world, shown.summary, shown.success)
      BY <3>1, SummaryFits
    <3> QED BY <3>2 DEF KpisFitTogether, SummaryOf
  <2>3. SparkIsTrue
    <3> SUFFICES ASSUME shown.kind = "kpis", Len(world.series) >= 2 PROVE SparkIsTrue
      BY DEF SparkIsTrue
    <3>1. world.series \in Seq(Int) /\ shown.spark = Spark(world.series)
      BY WorldOfKind DEF MapperInv, KpiWorld
    <3>2. SparkOf(world.series, shown.spark)
      BY <3>1, SparkFits DEF Drawable
    <3> QED BY <3>2 DEF SparkIsTrue, SparkOf
  <2> QED BY <2>1, <2>2, <2>3 DEF DrawnAsItIs
<1> QED BY <1>1, MapperInvHolds, PTL

=============================================================================
