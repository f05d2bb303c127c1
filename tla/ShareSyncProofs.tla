-------------------------- MODULE ShareSyncProofs --------------------------
(***************************************************************************)
(* What scans and applies do to versions and clocks, and that ShareSync is *)
(* type correct, for every number of devices, paths, sessions, edits and   *)
(* faults.  The theorems of VersionProofs and MatchProofs rest on these.   *)
(***************************************************************************)
EXTENDS ShareSync, FiniteSetTheorems, TLAPS

\* Zenon proves a leaf unless the leaf cites SMT.
USE ZenonT(60)

Disk == [Path -> Node \cup {NoNode}]

ClockLeq(b, c) ==
  \/ b.last_wall_ms < c.last_wall_ms
  \/ b.last_wall_ms = c.last_wall_ms /\ b.last_counter <= c.last_counter

-----------------------------------------------------------------------------
(* Ticks                                                                   *)

\* The paths a scan changes are finitely many.
LEMMA ChangedFinite ==
  ASSUME NEW m, NEW dk
  PROVE  /\ Changed(m, dk) \subseteq Path
         /\ IsFiniteSet(Changed(m, dk))
         /\ Cardinality(Changed(m, dk)) \in Nat
<1>1. Changed(m, dk) \subseteq Path
  BY DEF Changed
<1>2. IsFiniteSet(Changed(m, dk))
  BY <1>1, PathAssumption, FS_Subset
<1> QED
  BY <1>1, <1>2, FS_CardinalityType

\* ScanGroup numbers the groups of paths a scan visits one after the other.
LEMMA ScanGroupType ==
  ASSUME NEW m, NEW dk, NEW p
  PROVE  ScanGroup(m, dk, p) \in 1..6
BY SMTT(30) DEF ScanGroup

\* The order in which a scan visits paths is a strict total order.
LEMMA ScanBeforeOrder ==
  ASSUME NEW m, NEW dk, NEW p \in Path, NEW q \in Path, NEW r \in Path
  PROVE  /\ ~(ScanBefore(m, dk, p, q) /\ ScanBefore(m, dk, q, p))
         /\ ~ScanBefore(m, dk, p, p)
         /\ p # q => ScanBefore(m, dk, p, q) \/ ScanBefore(m, dk, q, p)
         /\ ScanBefore(m, dk, p, q) /\ ScanBefore(m, dk, q, r) => ScanBefore(m, dk, p, r)
<1>1. /\ ScanGroup(m, dk, p) \in 1..6
      /\ ScanGroup(m, dk, q) \in 1..6
      /\ ScanGroup(m, dk, r) \in 1..6
  BY ScanGroupType
<1>2. p \in Nat /\ q \in Nat /\ r \in Nat
  BY PathAssumption
<1> QED
  BY <1>1, <1>2, SMTT(30) DEF ScanBefore

\* The ticks of a scan are numbered from 1 to the number of changed paths.
LEMMA TickNumberRange ==
  ASSUME NEW m, NEW dk, NEW p \in Changed(m, dk)
  PROVE  /\ TickNumber(m, dk, p) \in Nat
         /\ 1 <= TickNumber(m, dk, p)
         /\ TickNumber(m, dk, p) <= Cardinality(Changed(m, dk))
<1> DEFINE C == Changed(m, dk)
           U == {q \in C : q = p \/ ScanBefore(m, dk, q, p)}
<1>1. IsFiniteSet(C) /\ U \subseteq C /\ p \in U
  BY ChangedFinite
<1>2. IsFiniteSet(U) /\ Cardinality(U) <= Cardinality(C)
  BY <1>1, FS_Subset
<1>3. Cardinality(U) \in Nat /\ Cardinality(U) # 0
  BY <1>1, <1>2, FS_CardinalityType, FS_EmptySet
<1> QED
  BY <1>2, <1>3, SMTT(30) DEF TickNumber

\* Two changed paths get different ticks.
LEMMA TickNumberInjective ==
  ASSUME NEW m, NEW dk, NEW p \in Changed(m, dk), NEW q \in Changed(m, dk), p # q
  PROVE  TickNumber(m, dk, p) # TickNumber(m, dk, q)
<1> DEFINE C == Changed(m, dk)
           U(x) == {y \in C : y = x \/ ScanBefore(m, dk, y, x)}
<1>0. C \subseteq Path /\ IsFiniteSet(C)
  BY ChangedFinite
<1>1. ASSUME NEW x \in C, NEW y \in C, x # y, ScanBefore(m, dk, x, y)
      PROVE  Cardinality(U(x)) # Cardinality(U(y))
  <2>1. IsFiniteSet(U(y))
    BY <1>0, FS_Subset
  <2>2. U(x) \subseteq U(y)
    BY <1>0, <1>1, ScanBeforeOrder
  <2>3. y \in U(y) /\ y \notin U(x)
    BY <1>0, <1>1, ScanBeforeOrder
  <2> QED
    BY <2>1, <2>2, <2>3, FS_Subset
<1>2. ScanBefore(m, dk, p, q) \/ ScanBefore(m, dk, q, p)
  BY <1>0, ScanBeforeOrder
<1>3. Cardinality(U(p)) # Cardinality(U(q))
  BY <1>1, <1>2
<1> QED
  BY <1>3 DEF TickNumber

\* n ticks with one reading of the wall clock give increasing versions after the
\* clock they start from, up to the clock they end with.
LEMMA TickTimesVersions ==
  ASSUME NEW c \in Clock, NEW now \in Nat, NEW d \in Device, NEW n \in Nat,
         TickTimes(c, now, n).last_counter <= MaxCounter,
         NEW i \in Nat, 1 <= i, i <= n
  PROVE  /\ VersionAt(TickTimes(c, now, i), d) \in Version
         /\ ~NotAfter(VersionAt(TickTimes(c, now, i), d), c)
         /\ NotAfter(VersionAt(TickTimes(c, now, i), d), TickTimes(c, now, n))
         /\ \A j \in Nat : 1 <= j /\ j # i =>
              VersionAt(TickTimes(c, now, i), d) # VersionAt(TickTimes(c, now, j), d)
<1>1. c.last_wall_ms \in Nat /\ c.last_counter \in Nat
  BY MaxCounterAssumption, SMTT(30) DEF Clock
<1>2. CASE now > c.last_wall_ms
  <2>1. /\ TickTimes(c, now, n) = [last_wall_ms |-> now, last_counter |-> n - 1]
        /\ \A j \in Nat : 1 <= j =>
             TickTimes(c, now, j) = [last_wall_ms |-> now, last_counter |-> j - 1]
    BY <1>2, SMTT(30) DEF TickTimes
  <2> QED
    BY <1>1, <1>2, <2>1, MaxCounterAssumption, SMTT(30) DEF VersionAt, Version, NotAfter
<1>3. CASE ~(now > c.last_wall_ms)
  <2>1. \A j \in Nat : 1 <= j =>
          /\ TickTimes(c, now, j).last_wall_ms = c.last_wall_ms
          /\ TickTimes(c, now, j).last_counter = c.last_counter + j
    BY <1>3, SMTT(30) DEF TickTimes, Clock
  <2> QED
    BY <1>1, <1>3, <2>1, MaxCounterAssumption, SMTT(30) DEF VersionAt, Version, NotAfter
<1> QED
  BY <1>2, <1>3

\* Ticking leaves a clock, and never a smaller one.
LEMMA TickTimesClock ==
  ASSUME NEW c \in Clock, NEW now \in Nat, NEW n \in Nat,
         TickTimes(c, now, n).last_counter <= MaxCounter
  PROVE  TickTimes(c, now, n) \in Clock /\ ClockLeq(c, TickTimes(c, now, n))
<1>1. c.last_wall_ms \in Nat /\ c.last_counter \in Nat
  BY MaxCounterAssumption, SMTT(30) DEF Clock
<1> QED
  BY <1>1, MaxCounterAssumption, SMTT(30) DEF TickTimes, ClockLeq, Clock

\* What a scan does to versions: every record it changes gets a version of its
\* own, later than the clock loaded and not later than the clock saved.
LEMMA ScanVersions ==
  ASSUME NEW m \in Manifests, NEW dk \in Disk, NEW c \in Clock, NEW d \in Device,
         NEW now \in Nat, ScannedClock(m, dk, c, now).last_counter <= MaxCounter
  PROVE  LET N == scan_manifest(m, dk, c, d, now)
             k == ScannedClock(m, dk, c, now)
         IN  /\ N \in Manifests
             /\ k \in Clock /\ ClockLeq(c, k)
             /\ \A p \in Path \ Changed(m, dk) : N[p] = m[p]
             /\ \A p \in Changed(m, dk) :
                  /\ N[p] # NoRecord
                  /\ N[p].version.author = d
                  /\ ~NotAfter(N[p].version, c)
                  /\ NotAfter(N[p].version, k)
             /\ \A p, q \in Changed(m, dk) : N[p].version = N[q].version => p = q
<1> DEFINE N == scan_manifest(m, dk, c, d, now)
           k == ScannedClock(m, dk, c, now)
           n == Cardinality(Changed(m, dk))
           t(p) == TickNumber(m, dk, p)
           v(p) == VersionAt(TickTimes(c, now, t(p)), d)
<1>1. n \in Nat /\ Changed(m, dk) \subseteq Path
  BY ChangedFinite
<1>2. k = TickTimes(c, now, n)
  BY DEF ScannedClock
<1>3. k \in Clock /\ ClockLeq(c, k)
  BY <1>1, <1>2, TickTimesClock
<1>4. \A p \in Changed(m, dk) : t(p) \in Nat /\ 1 <= t(p) /\ t(p) <= n
  BY TickNumberRange
<1>5. \A p \in Changed(m, dk) :
        v(p) \in Version /\ ~NotAfter(v(p), c) /\ NotAfter(v(p), k)
  BY <1>1, <1>2, <1>4, TickTimesVersions, SMTT(30)
<1>6. \A p, q \in Changed(m, dk) : v(p) = v(q) => p = q
  BY <1>1, <1>2, <1>4, TickTimesVersions, TickNumberInjective, SMTT(30)
<1>7. \A p \in Changed(m, dk) : N[p] = [node |-> ScannedNode(dk, p), version |-> v(p)]
  BY <1>1 DEF scan_manifest
<1>8. \A p \in Path \ Changed(m, dk) : N[p] = m[p]
  BY DEF scan_manifest
<1>9. \A p \in Path : ScannedNode(dk, p) \in Node \cup {Deleted}
  BY SMTT(30) DEF ScannedNode, Disk, Live, NoNode
<1>10. \A p \in Changed(m, dk) : N[p] \in Record
  <2> TAKE p \in Changed(m, dk)
  <2>1. /\ N[p] = [node |-> ScannedNode(dk, p), version |-> v(p)]
        /\ ScannedNode(dk, p) \in Node \cup {Deleted}
        /\ v(p) \in Version
    BY <1>1, <1>5, <1>7, <1>9
  <2> HIDE DEF v, N
  <2> QED
    BY <2>1, SMTT(30) DEF Record
<1>11. N \in Manifests
  BY <1>1, <1>8, <1>10 DEF Manifests, scan_manifest
<1>12. \A p \in Changed(m, dk) : N[p].version = v(p) /\ v(p).author = d
  <2> TAKE p \in Changed(m, dk)
  <2>1. N[p] = [node |-> ScannedNode(dk, p), version |-> v(p)]
    BY <1>7
  <2>2. v(p).author = d
    BY DEF VersionAt
  <2> HIDE DEF v, N
  <2> QED
    BY <2>1, <2>2, SMTT(30)
<1>13. \A p \in Changed(m, dk) : N[p] # NoRecord
  BY <1>10, DeviceAssumption, SMTT(30) DEF Record, Version, NoRecord, NoVersion
<1> QED
  BY <1>3, <1>5, <1>6, <1>8, <1>11, <1>12, <1>13, SMTT(30)

-----------------------------------------------------------------------------
(* Observing                                                               *)

\* A clock that has observed some records of a manifest is not behind any of
\* them, nor behind the clock it started from.
LEMMA ObservedClocksBound ==
  ASSUME NEW c \in Clock, NEW m \in Manifests, NEW S \in SUBSET Path, NEW now \in Nat,
         \A p \in S : m[p] # NoRecord,
         NEW k \in ObservedClocks(c, m, S, now)
  PROVE  ClockLeq(c, k) /\ \A p \in S : NotAfter(m[p].version, k)
<1> DEFINE left(p) == Cardinality({q \in S : ~ObservedBefore(m, q, p)})
           pair(p) == <<m[p].version, left(p)>>
           R == {pair(p) : p \in S}
           n == Cardinality(S)
           walls == {c.last_wall_ms, now} \cup {r[1].wall_ms : r \in R}
           counters(w) ==
             {r[1].counter + r[2] : r \in {t \in R : t[1].wall_ms = w}}
               \cup (IF c.last_wall_ms = w THEN {c.last_counter + n}
                     ELSE IF now = w THEN {n - 1} ELSE {})
<1>1. IsFiniteSet(S)
  BY PathAssumption, FS_Subset
<1>2. n \in Nat
  BY <1>1, FS_CardinalityType
<1>3. \A p \in S : left(p) \in Nat
  <2> TAKE p \in S
  <2>1. IsFiniteSet({q \in S : ~ObservedBefore(m, q, p)})
    BY <1>1, FS_Subset
  <2> QED
    BY <2>1, FS_CardinalityType
<1>4. \A p \in S : m[p].version.wall_ms \in Nat /\ m[p].version.counter \in Nat
  BY MaxCounterAssumption, SMTT(30) DEF Manifests, Record, Version
<1>5. c.last_wall_ms \in Nat /\ c.last_counter \in Nat
  BY MaxCounterAssumption, SMTT(30) DEF Clock
<1>6. k \in ObserveAll(c, now, R, n)
  BY DEF ObservedClocks
<1>7. CASE n = 0
  <2>1. S = {}
    BY <1>1, <1>7, FS_EmptySet
  <2>2. k = c
    BY <1>6, <1>7 DEF ObserveAll
  <2> QED
    BY <1>5, <2>1, <2>2, SMTT(30) DEF ClockLeq
<1>8. CASE n # 0
  <2>1. PICK w \in Greatest(walls) : \E x \in Greatest(counters(w)) :
          k = [last_wall_ms |-> w, last_counter |-> x]
    BY <1>6, <1>8 DEF ObserveAll
  <2>2. PICK x \in Greatest(counters(w)) : k = [last_wall_ms |-> w, last_counter |-> x]
    BY <2>1
  <2>3. \A y \in walls : y <= w
    BY DEF Greatest
  <2>4. \A y \in counters(w) : y <= x
    BY DEF Greatest
  <2>5. w \in walls /\ x \in counters(w)
    BY DEF Greatest
  <2>0. \A p \in S : pair(p)[1] = m[p].version /\ pair(p)[2] = left(p)
    OBVIOUS
  <2> HIDE DEF pair
  <2>6. \A p \in S : m[p].version.wall_ms \in walls
    BY <2>0
  <2>7. \A p \in S : m[p].version.wall_ms = w => m[p].version.counter + left(p) \in counters(w)
    <3> SUFFICES ASSUME NEW p \in S, m[p].version.wall_ms = w
                 PROVE  m[p].version.counter + left(p) \in counters(w)
      OBVIOUS
    <3>1. pair(p) \in {t \in R : t[1].wall_ms = w}
      BY <2>0
    <3>2. pair(p)[1].counter + pair(p)[2] = m[p].version.counter + left(p)
      BY <2>0
    <3> HIDE DEF R, left
    <3> QED
      BY <3>1, <3>2
  <2>8. w \in Nat
    <3>1. \A r \in R : r[1].wall_ms \in Nat
      BY <1>4, <2>0
    <3> QED
      BY <2>5, <3>1, <1>5
  <2>9. x \in Int
    <3>1. \A r \in R : r[1].counter \in Nat /\ r[2] \in Nat
      <4> TAKE r \in R
      <4>1. PICK p \in S : r = pair(p)
        OBVIOUS
      <4> QED
        BY <4>1, <1>3, <1>4, <2>0
    <3> HIDE DEF R, n
    <3> QED
      BY <2>5, <3>1, <1>2, <1>5, SMTT(30)
  <2>10. ClockLeq(c, k)
    <3>1. c.last_wall_ms <= w
      BY <2>3
    <3>2. c.last_wall_ms = w => c.last_counter + n <= x
      BY <2>4
    <3> QED
      BY <1>2, <1>5, <2>2, <2>8, <2>9, <3>1, <3>2, SMTT(30) DEF ClockLeq
  <2>11. ASSUME NEW p \in S PROVE NotAfter(m[p].version, k)
    <3>1. m[p].version.wall_ms <= w
      BY <2>3, <2>6
    <3>2. m[p].version.wall_ms = w => m[p].version.counter + left(p) <= x
      BY <2>4, <2>7
    <3>3. left(p) \in Nat
      BY <1>3
    <3> HIDE DEF left
    <3> QED
      BY <1>4, <2>2, <2>8, <2>9, <3>1, <3>2, <3>3, SMTT(30) DEF NotAfter
  <2> QED
    BY <2>10, <2>11
<1> QED
  BY <1>2, <1>7, <1>8

-----------------------------------------------------------------------------
(* The closed forms and the loops they stand for                           *)

\* One more tick of a scan's loop: the closed form takes the step tick takes.
THEOREM TickLoop ==
  ASSUME NEW c \in Clock, NEW now \in Nat, NEW n \in Nat
  PROVE  /\ TickTimes(c, now, 0) = c
         /\ TickTimes(c, now, n + 1) = tick(TickTimes(c, now, n), now)
<1>1. c.last_wall_ms \in Nat /\ c.last_counter \in Nat
  BY MaxCounterAssumption, SMTT(30) DEF Clock
<1> QED
  BY <1>1, SMTT(30) DEF TickTimes, tick, Clock

\* How many observations are left at the turn of p.
TurnsLeft(m, S, p) == Cardinality({q \in S : ~ObservedBefore(m, q, p)})

AnyClock == [last_wall_ms : Nat, last_counter : Int]

\* What ObserveAll computes, said of its result: the latest wall time seen, and
\* the largest of the counters seen at it with the observations since added.
Latest(k, c, m, S, now) ==
  /\ k \in AnyClock
  /\ c.last_wall_ms <= k.last_wall_ms /\ now <= k.last_wall_ms
  /\ \A p \in S : m[p].version.wall_ms <= k.last_wall_ms
  /\ c.last_wall_ms = k.last_wall_ms => c.last_counter + Cardinality(S) <= k.last_counter
  /\ now = k.last_wall_ms /\ c.last_wall_ms # now => Cardinality(S) - 1 <= k.last_counter
  /\ \A p \in S : m[p].version.wall_ms = k.last_wall_ms =>
       m[p].version.counter + TurnsLeft(m, S, p) <= k.last_counter
  /\ \/ c.last_wall_ms = k.last_wall_ms /\ c.last_counter + Cardinality(S) = k.last_counter
     \/ now = k.last_wall_ms /\ c.last_wall_ms # now /\ Cardinality(S) - 1 = k.last_counter
     \/ \E p \in S : /\ m[p].version.wall_ms = k.last_wall_ms
                     /\ m[p].version.counter + TurnsLeft(m, S, p) = k.last_counter

\* The versions and counts Latest compares are numbers.
LEMMA ObservedNumbers ==
  ASSUME NEW c \in Clock, NEW m \in Manifests, NEW S \in SUBSET Observed(m)
  PROVE  /\ c.last_wall_ms \in Nat /\ c.last_counter \in Nat
         /\ IsFiniteSet(S) /\ Cardinality(S) \in Nat /\ (Cardinality(S) = 0 <=> S = {})
         /\ \A p \in S : /\ m[p].version.wall_ms \in Nat /\ m[p].version.counter \in Nat
                         /\ TurnsLeft(m, S, p) \in Nat
<1>1. IsFiniteSet(S)
  BY PathAssumption, FS_Subset DEF Observed
<1>2. \A p \in S : m[p] \in Record
  BY SMTT(30) DEF Observed, Manifests, NoRecord, NoNode
<1>3. \A p \in S : m[p].version.wall_ms \in Nat /\ m[p].version.counter \in Nat
  BY <1>2, MaxCounterAssumption, SMTT(30) DEF Record, Version
<1>4. \A p \in S : TurnsLeft(m, S, p) \in Nat
  <2> TAKE p \in S
  <2>1. IsFiniteSet({q \in S : ~ObservedBefore(m, q, p)})
    BY <1>1, FS_Subset
  <2> QED
    BY <2>1, FS_CardinalityType DEF TurnsLeft
<1>5. c.last_wall_ms \in Nat /\ c.last_counter \in Nat
  BY MaxCounterAssumption, SMTT(30) DEF Clock
<1> QED
  BY <1>1, <1>3, <1>4, <1>5, FS_CardinalityType, FS_EmptySet

\* There is at most one such clock.
LEMMA LatestUnique ==
  ASSUME NEW c \in Clock, NEW m \in Manifests, NEW S \in SUBSET Observed(m), NEW now \in Nat,
         NEW j, NEW k, Latest(j, c, m, S, now), Latest(k, c, m, S, now)
  PROVE  j = k
<1>1. /\ j.last_wall_ms \in Nat /\ j.last_counter \in Int
      /\ k.last_wall_ms \in Nat /\ k.last_counter \in Int
  BY DEF Latest, AnyClock
<1>2. j.last_wall_ms = k.last_wall_ms
  BY <1>1, ObservedNumbers, SMTT(30) DEF Latest
<1>3. j.last_counter = k.last_counter
  BY <1>1, <1>2, ObservedNumbers, SMTT(30) DEF Latest
<1> QED
  BY <1>2, <1>3, SMTT(30) DEF Latest, AnyClock

\* What observe makes of clock k, version v and wall time now.
Advanced(k, v, now, o) ==
  /\ o \in AnyClock
  /\ k.last_wall_ms <= o.last_wall_ms /\ v.wall_ms <= o.last_wall_ms /\ now <= o.last_wall_ms
  /\ k.last_wall_ms = o.last_wall_ms => k.last_counter + 1 <= o.last_counter
  /\ v.wall_ms = o.last_wall_ms => v.counter + 1 <= o.last_counter
  /\ \/ k.last_wall_ms = o.last_wall_ms /\ o.last_counter = k.last_counter + 1
     \/ v.wall_ms = o.last_wall_ms /\ o.last_counter = v.counter + 1
     \/ now = o.last_wall_ms /\ o.last_counter = 0 /\ k.last_wall_ms # now /\ v.wall_ms # now

\* observe advances a clock with any counter.
LEMMA ObserveAdvances ==
  ASSUME NEW k \in AnyClock, NEW v \in Version, NEW now \in Nat
  PROVE  Advanced(k, v, now, observe(k, v, now))
<1>1. v.wall_ms \in Nat /\ v.counter \in Nat
  BY MaxCounterAssumption, SMTT(30) DEF Version
<1> DEFINE L == k.last_wall_ms  C == k.last_counter
           R == v.wall_ms       D == v.counter
           wall == IF L >= R /\ L >= now THEN L ELSE IF R >= now THEN R ELSE now
           base == IF wall = L /\ wall = R THEN IF C >= D THEN C ELSE D
                   ELSE IF wall = L THEN C ELSE D
           n == IF wall = L \/ wall = R THEN base + 1 ELSE 0
           o == [last_wall_ms |-> wall, last_counter |-> n]
<1>2. observe(k, v, now) = o
  BY DEF observe
<1>3. L \in Nat /\ C \in Int /\ R \in Nat /\ D \in Nat
  BY <1>1 DEF AnyClock
<1> HIDE DEF L, C, R, D
<1>4. wall \in Nat /\ L <= wall /\ R <= wall /\ now <= wall /\ wall \in {L, R, now}
  BY <1>3, SMTT(30)
<1> HIDE DEF wall
<1>5. /\ n \in Int
      /\ L = wall => C + 1 <= n
      /\ R = wall => D + 1 <= n
      /\ \/ L = wall /\ n = C + 1
         \/ R = wall /\ n = D + 1
         \/ now = wall /\ n = 0 /\ L # now /\ R # now
  BY <1>3, <1>4, SMTT(30)
<1> HIDE DEF n
<1>6. o.last_wall_ms = wall /\ o.last_counter = n /\ o \in AnyClock
  BY <1>4, <1>5, SMTT(30) DEF AnyClock
<1> HIDE DEF o
<1> QED
  BY <1>2, <1>4, <1>5, <1>6 DEF Advanced, L, C, R, D

\* ObservedClocks has that clock for its only member.
LEMMA ObservedClocksLatest ==
  ASSUME NEW c \in Clock, NEW m \in Manifests, NEW S \in SUBSET Observed(m), NEW now \in Nat,
         S # {}, NEW k
  PROVE  k \in ObservedClocks(c, m, S, now) <=> Latest(k, c, m, S, now)
<1> DEFINE pair(p) == <<m[p].version, TurnsLeft(m, S, p)>>
           R == {pair(p) : p \in S}
           n == Cardinality(S)
           walls == {c.last_wall_ms, now} \cup {r[1].wall_ms : r \in R}
           counters(w) ==
             {r[1].counter + r[2] : r \in {t \in R : t[1].wall_ms = w}}
               \cup (IF c.last_wall_ms = w THEN {c.last_counter + n}
                     ELSE IF now = w THEN {n - 1} ELSE {})
           seen(p) == m[p].version.counter + TurnsLeft(m, S, p)
<1>0. /\ c.last_wall_ms \in Nat /\ c.last_counter \in Nat
      /\ Cardinality(S) \in Nat /\ Cardinality(S) # 0
      /\ \A p \in S : /\ m[p].version.wall_ms \in Nat /\ m[p].version.counter \in Nat
                      /\ TurnsLeft(m, S, p) \in Nat
  BY ObservedNumbers
<1>1. n \in Nat /\ n # 0
  BY <1>0
<1>2. ObservedClocks(c, m, S, now) =
        UNION {{[last_wall_ms |-> w, last_counter |-> x] : x \in Greatest(counters(w))} :
                 w \in Greatest(walls)}
  BY <1>1 DEF ObservedClocks, ObserveAll, TurnsLeft
<1>3. walls = {c.last_wall_ms, now} \cup {m[p].version.wall_ms : p \in S}
  <2>1. {r[1].wall_ms : r \in R} = {m[p].version.wall_ms : p \in S}
    <3>1. \A p \in S : pair(p)[1] = m[p].version
      OBVIOUS
    <3> HIDE DEF pair
    <3> QED
      BY <3>1
  <2> QED
    BY <2>1
<1>4. ASSUME NEW w
      PROVE  counters(w) = {seen(p) : p \in {q \in S : m[q].version.wall_ms = w}}
                             \cup (IF c.last_wall_ms = w THEN {c.last_counter + n}
                                   ELSE IF now = w THEN {n - 1} ELSE {})
  <2>1. \A p \in S : pair(p)[1] = m[p].version /\ pair(p)[2] = TurnsLeft(m, S, p)
    OBVIOUS
  <2>2. {r[1].counter + r[2] : r \in {t \in R : t[1].wall_ms = w}}
          = {seen(p) : p \in {q \in S : m[q].version.wall_ms = w}}
    <3> HIDE DEF pair
    <3> QED
      BY <2>1, SMTT(30)
  <2> QED
    BY <2>2
<1> HIDE DEF R, pair, n, walls, counters
<1>5. k \in ObservedClocks(c, m, S, now) <=>
        \E w \in Greatest(walls) : \E x \in Greatest(counters(w)) :
          k = [last_wall_ms |-> w, last_counter |-> x]
  BY <1>2, SMTT(30)
<1>6. ASSUME NEW w, NEW x
      PROVE  w \in Greatest(walls) /\ x \in Greatest(counters(w))
               <=> Latest([last_wall_ms |-> w, last_counter |-> x], c, m, S, now)
  <2> DEFINE W == walls
             C == counters(w)
             K == [last_wall_ms |-> w, last_counter |-> x]
  <2>1. w \in Greatest(W) <=> w \in W /\ \A y \in W : y <= w
    BY DEF Greatest
  <2>2. x \in Greatest(C) <=> x \in C /\ \A y \in C : y <= x
    BY DEF Greatest
  <2>3. \A y : y \in W <=> \/ y = c.last_wall_ms \/ y = now
                           \/ \E p \in S : y = m[p].version.wall_ms
    BY <1>3
  <2>4. \A y : y \in C <=> \/ c.last_wall_ms = w /\ y = c.last_counter + n
                           \/ c.last_wall_ms # w /\ now = w /\ y = n - 1
                           \/ \E p \in S : m[p].version.wall_ms = w /\ y = seen(p)
    BY <1>4
  <2> HIDE DEF W, C, seen
  <2>5. \A p \in S : seen(p) = m[p].version.counter + TurnsLeft(m, S, p) /\ seen(p) \in Nat
    BY <1>0, SMTT(30) DEF seen
  <2>6. K.last_wall_ms = w /\ K.last_counter = x
    OBVIOUS
  <2>7. ASSUME w \in W, \A y \in W : y <= w, x \in C, \A y \in C : y <= x
        PROVE  Latest(K, c, m, S, now)
    <3>1. w \in Nat
      BY <2>3, <2>7, <1>0, SMTT(30)
    <3>2. x \in Int
      BY <2>4, <2>5, <2>7, <1>0, <1>1, SMTT(30)
    <3>3. c.last_wall_ms <= w /\ now <= w /\ \A p \in S : m[p].version.wall_ms <= w
      BY <2>3, <2>7
    <3>4. /\ c.last_wall_ms = w => c.last_counter + n <= x
          /\ now = w /\ c.last_wall_ms # now => n - 1 <= x
          /\ \A p \in S : m[p].version.wall_ms = w => seen(p) <= x
      BY <2>4, <2>7
    <3>5. \/ c.last_wall_ms = w /\ c.last_counter + n = x
          \/ now = w /\ c.last_wall_ms # now /\ n - 1 = x
          \/ \E p \in S : m[p].version.wall_ms = w /\ seen(p) = x
      BY <2>4, <2>7
    <3>6. K \in AnyClock
      BY <3>1, <3>2 DEF AnyClock
    <3> HIDE DEF K
    <3> QED
      BY <2>5, <2>6, <3>3, <3>4, <3>5, <3>6 DEF Latest, n
  <2>8. ASSUME Latest(K, c, m, S, now)
        PROVE  w \in W /\ (\A y \in W : y <= w) /\ x \in C /\ (\A y \in C : y <= x)
    <3> HIDE DEF K
    <3>1. w \in W /\ \A y \in W : y <= w
      BY <2>3, <2>6, <2>8, SMTT(30) DEF Latest
    <3>2. x \in C /\ \A y \in C : y <= x
      BY <2>4, <2>5, <2>6, <2>8, SMTT(30) DEF Latest, n
    <3> QED
      BY <3>1, <3>2
  <2> HIDE DEF K
  <2> QED
    BY <2>1, <2>2, <2>7, <2>8 DEF W, C, K
<1>7. Latest(k, c, m, S, now) =>
        k = [last_wall_ms |-> k.last_wall_ms, last_counter |-> k.last_counter]
  BY DEF Latest, AnyClock
<1> QED
  BY <1>5, <1>6, <1>7

\* One more observation of observe_manifest_clock's loop: with the records of S
\* observed, and p the next, the closed form takes the step observe takes.
THEOREM ObserveLoop ==
  ASSUME NEW c \in Clock, NEW m \in Manifests, NEW now \in Nat,
         NEW S \in SUBSET Observed(m), NEW p \in Observed(m) \ S,
         \A q \in S : ObservedBefore(m, q, p),
         NEW k \in ObservedClocks(c, m, S, now)
  PROVE  ObservedClocks(c, m, S \cup {p}, now) = {observe(k, m[p].version, now)}
<1> DEFINE T == S \cup {p}
           n == Cardinality(S)
           v == m[p].version
           o == observe(k, v, now)
<1>1. T \in SUBSET Observed(m) /\ T # {}
  OBVIOUS
<1>2. /\ c.last_wall_ms \in Nat /\ c.last_counter \in Nat /\ IsFiniteSet(S)
      /\ n \in Nat /\ (n = 0 <=> S = {})
      /\ \A q \in S : /\ m[q].version.wall_ms \in Nat /\ m[q].version.counter \in Nat
                      /\ TurnsLeft(m, S, q) \in Nat
  BY ObservedNumbers
<1>3. v.wall_ms \in Nat /\ v.counter \in Nat
  BY <1>1, ObservedNumbers
<1>4. Cardinality(T) = n + 1
  BY <1>2, FS_AddElement
<1>5. ~ObservedBefore(m, p, p) /\ \A q \in S : ~ObservedBefore(m, p, q)
  <2>1. \A q \in Path : ObserveGroup(m, q) \in 1..3 /\ q \in Nat
    BY PathAssumption, SMTT(30) DEF ObserveGroup
  <2>2. p \in Path /\ S \subseteq Path
    BY DEF Observed
  <2> QED
    BY <2>1, <2>2, SMTT(30) DEF ObservedBefore
<1>6. TurnsLeft(m, T, p) = 1
  <2>1. {q \in T : ~ObservedBefore(m, q, p)} = {p}
    BY <1>5
  <2> QED
    BY <2>1, FS_Singleton DEF TurnsLeft
<1>7. \A q \in S : TurnsLeft(m, T, q) = TurnsLeft(m, S, q) + 1
  <2> TAKE q \in S
  <2> DEFINE L == {r \in S : ~ObservedBefore(m, r, q)}
  <2>1. {r \in T : ~ObservedBefore(m, r, q)} = L \cup {p}
    BY <1>5
  <2>2. IsFiniteSet(L) /\ p \notin L
    BY <1>2, FS_Subset
  <2>3. Cardinality(L \cup {p}) = Cardinality(L) + 1
    BY <2>2, FS_AddElement
  <2> QED
    BY <2>1, <2>3 DEF TurnsLeft
<1>8. v \in Version
  <2>1. m[p] \in Record
    BY SMTT(30) DEF Observed, Manifests, NoRecord, NoNode
  <2> QED
    BY <2>1 DEF Record
<1>13. o = observe(k, v, now)
  OBVIOUS
<1> HIDE DEF n, v, T, o
<1>9. p \in T /\ m[p].version = v /\ \A q \in T : q \in S \/ q = p
  BY DEF T, v
<1>10. \A q \in S : q \in T
  BY DEF T
<1>11. Latest(o, c, m, T, now)
  <2>1. CASE S = {}
    <3>1. k = c
      BY <2>1, <1>2, FS_EmptySet DEF ObservedClocks, ObserveAll, n
    <3>2. k \in AnyClock
      BY <3>1, <1>2, SMTT(30) DEF Clock, AnyClock
    <3>3. Advanced(c, v, now, o)
      BY <1>8, <1>13, <3>1, <3>2, ObserveAdvances
    <3>4. Cardinality(T) = 1
      BY <1>2, <1>4, <2>1, SMTT(30)
    <3> QED
      BY <1>2, <1>3, <1>6, <1>9, <2>1, <3>3, <3>4, SMTT(30) DEF Latest, Advanced, AnyClock
  <2>2. CASE S # {}
    <3>1. Latest(k, c, m, S, now)
      BY <2>2, ObservedClocksLatest
    <3>2. k \in AnyClock
      BY <3>1 DEF Latest
    <3>3. Advanced(k, v, now, o)
      BY <1>8, <1>13, <3>2, ObserveAdvances
    <3>4. k.last_wall_ms \in Nat /\ k.last_counter \in Int /\ o.last_wall_ms \in Nat /\ o.last_counter \in Int
      BY <3>2, <3>3 DEF Advanced, AnyClock
    <3>5. c.last_wall_ms <= k.last_wall_ms /\ now <= k.last_wall_ms
      BY <3>1 DEF Latest
    <3>6. /\ \A q \in T : m[q].version.wall_ms <= o.last_wall_ms
          /\ \A q \in T : m[q].version.wall_ms = o.last_wall_ms =>
               m[q].version.counter + TurnsLeft(m, T, q) <= o.last_counter
      <4> SUFFICES ASSUME NEW q \in T
                   PROVE  /\ m[q].version.wall_ms <= o.last_wall_ms
                          /\ m[q].version.wall_ms = o.last_wall_ms =>
                               m[q].version.counter + TurnsLeft(m, T, q) <= o.last_counter
        OBVIOUS
      <4>1. CASE q = p
        BY <4>1, <1>3, <1>6, <1>9, <3>3, <3>4 DEF Advanced
      <4>2. CASE q \in S
        <5>1. /\ m[q].version.wall_ms <= k.last_wall_ms
              /\ m[q].version.wall_ms = k.last_wall_ms =>
                   m[q].version.counter + TurnsLeft(m, S, q) <= k.last_counter
          BY <4>2, <3>1 DEF Latest
        <5> QED
          BY <5>1, <4>2, <1>2, <1>7, <3>3, <3>4, SMTT(30) DEF Advanced
      <4> QED
        BY <4>1, <4>2, <1>9
    <3>7. /\ c.last_wall_ms = o.last_wall_ms => c.last_counter + Cardinality(T) <= o.last_counter
          /\ now = o.last_wall_ms /\ c.last_wall_ms # now => Cardinality(T) - 1 <= o.last_counter
      <4>1. /\ c.last_wall_ms = k.last_wall_ms => c.last_counter + n <= k.last_counter
            /\ now = k.last_wall_ms /\ c.last_wall_ms # now => n - 1 <= k.last_counter
        BY <3>1 DEF Latest, n
      <4> QED
        BY <4>1, <1>2, <1>4, <3>3, <3>4, <3>5, SMTT(30) DEF Advanced
    <3>8. \/ c.last_wall_ms = o.last_wall_ms /\ c.last_counter + Cardinality(T) = o.last_counter
          \/ now = o.last_wall_ms /\ c.last_wall_ms # now /\ Cardinality(T) - 1 = o.last_counter
          \/ \E q \in T : /\ m[q].version.wall_ms = o.last_wall_ms
                          /\ m[q].version.counter + TurnsLeft(m, T, q) = o.last_counter
      <4>1. CASE v.wall_ms = o.last_wall_ms /\ o.last_counter = v.counter + 1
        BY <4>1, <1>6, <1>9
      <4>2. CASE k.last_wall_ms = o.last_wall_ms /\ o.last_counter = k.last_counter + 1
        <5>1. \/ c.last_wall_ms = k.last_wall_ms /\ c.last_counter + n = k.last_counter
              \/ now = k.last_wall_ms /\ c.last_wall_ms # now /\ n - 1 = k.last_counter
              \/ \E q \in S : /\ m[q].version.wall_ms = k.last_wall_ms
                              /\ m[q].version.counter + TurnsLeft(m, S, q) = k.last_counter
          BY <3>1 DEF Latest, n
        <5>2. ASSUME NEW q \in S, m[q].version.counter + TurnsLeft(m, S, q) = k.last_counter
              PROVE  m[q].version.counter + TurnsLeft(m, T, q) = o.last_counter
          BY <5>2, <4>2, <1>2, <1>7, SMTT(30)
        <5> QED
          BY <5>1, <5>2, <4>2, <1>2, <1>4, <1>10, SMTT(30)
      <4> QED
        BY <4>1, <4>2, <1>3, <3>3, <3>4, <3>5, SMTT(30) DEF Advanced
    <3>9. k.last_wall_ms <= o.last_wall_ms /\ o \in AnyClock
      BY <3>3 DEF Advanced
    <3>10. c.last_wall_ms <= o.last_wall_ms /\ now <= o.last_wall_ms
      BY <1>2, <3>4, <3>5, <3>9, SMTT(30)
    <3> QED
      BY <3>6, <3>7, <3>8, <3>9, <3>10 DEF Latest
  <2> QED
    BY <2>1, <2>2
<1>12. \A j : j \in ObservedClocks(c, m, T, now) <=> j = o
  <2>1. \A j : j \in ObservedClocks(c, m, T, now) <=> Latest(j, c, m, T, now)
    BY <1>1, ObservedClocksLatest
  <2>2. \A j : Latest(j, c, m, T, now) => j = o
    BY <1>1, <1>11, LatestUnique
  <2> QED
    BY <1>11, <2>1, <2>2
<1> QED
  BY <1>12 DEF T, v, o

-----------------------------------------------------------------------------
(* Applying a remote manifest                                              *)

\* Whatever steps of an apply have run, the disk holds a node or nothing at
\* every path.
LEMMA DiskAfterType ==
  ASSUME NEW dk \in Disk, NEW remote \in Manifests, NEW done, NEW chmods
  PROVE  DiskAfter(dk, remote, done, chmods) \in Disk
<1>1. Dir(DefaultMode) \in Node
  BY DefaultModeAssumption DEF Dir, Node
<1>2. \A p \in Path : NodeOf(remote[p]) \in Node \cup {NoNode}
  BY SMTT(30) DEF Manifests, Record, NodeOf, Live, Deleted, NoRecord, NoNode
<1> QED
  BY <1>1, <1>2 DEF DiskAfter, ensure_local_directory, Disk

LEMMA TornType ==
  ASSUME NEW dk \in Disk, NEW remote \in Manifests, NEW staged, NEW p \in Path,
         NEW n \in TornNodes(dk, remote, staged, p)
  PROVE  Torn(dk, remote, p, n) \in Disk
<1>1. Dir(DefaultMode) \in Node
  BY DefaultModeAssumption DEF Dir, Node
<1>2. remote[p].node.kind = "file" => File(remote[p].node.data, DefaultMode) \in Node
  BY DefaultModeAssumption, SMTT(30) DEF Manifests, Record, NoRecord, NoNode, Node, Deleted, File
<1>3. n \in Node \cup {NoNode}
  BY <1>2 DEF TornNodes, Disk
<1> QED
  BY <1>1, <1>3 DEF Torn, Disk

\* An apply takes a path's record from the remote manifest or leaves the local
\* one, and takes it only when it wins.
LEMMA CandidateMixes ==
  ASSUME NEW dk, NEW local \in Manifests, NEW remote \in Manifests, NEW staged
  PROVE  /\ Candidate(dk, local, remote, staged) \in Manifests
         /\ \A p \in Path :
              \/ Candidate(dk, local, remote, staged)[p] = local[p]
              \/ /\ Candidate(dk, local, remote, staged)[p] = remote[p]
                 /\ remote_record_wins(local[p], remote[p])
BY DEF Candidate, Manifests, Taken, Steps, WinningPaths

\* The clock an apply saves is not behind the clock it loaded, nor behind any
\* file, directory or deletion of the manifest it saves.
LEMMA AppliedClocksBound ==
  ASSUME NEW c \in Clock, NEW local \in Manifests, NEW candidate \in Manifests,
         NEW now \in Nat, NEW k \in AppliedClocks(c, local, candidate, now)
  PROVE  /\ k \in Clock
         /\ ClockLeq(c, k)
         /\ \/ candidate = local
            \/ \A p \in Observed(candidate) : NotAfter(candidate[p].version, k)
<1>1. CASE candidate = local
  <2>1. k = c
    BY <1>1 DEF AppliedClocks
  <2> QED
    BY <1>1, <2>1, MaxCounterAssumption, SMTT(30) DEF ClockLeq, Clock
<1>2. CASE candidate # local
  <2>1. k \in ObservedClocks(c, candidate, Observed(candidate), now) /\ k \in Clock
    BY <1>2 DEF AppliedClocks, observe_manifest_clock
  <2>2. Observed(candidate) \in SUBSET Path /\ \A p \in Observed(candidate) : candidate[p] # NoRecord
    BY SMTT(30) DEF Observed, NoRecord, NoNode
  <2> QED
    BY <2>1, <2>2, ObservedClocksBound
<1> QED
  BY <1>1, <1>2

-----------------------------------------------------------------------------
(* Types                                                                   *)

Slot == ActiveSession \cup {NoSession}

\* A session one of whose halves is running has two devices.
LEMMA RunningSession ==
  ASSUME TypeOK, NEW x \in Session, session[x].cpc # "idle" \/ session[x].spc # "idle"
  PROVE  session[x] \in ActiveSession
BY SMTT(30) DEF TypeOK, NoSession

LEMMA PutType ==
  ASSUME TypeOK, NEW x \in Session, NEW s \in ActiveSession, Put(x, s)
  PROVE  /\ session' \in [Session -> Slot]
         /\ \A y \in Session :
              /\ session'[y].out \in {session[y].out, s.out, Empty}
              /\ session'[y].reply \in {session[y].reply, s.reply, Empty}
BY DEF Put, Kept, TypeOK, NoSession, Slot

LEMMA EndedType ==
  ASSUME TypeOK, NEW x \in Session, session' = [session EXCEPT ![x] = NoSession]
  PROVE  /\ session' \in [Session -> Slot]
         /\ \A y \in Session :
              /\ session'[y].out \in {session[y].out, Empty}
              /\ session'[y].reply \in {session[y].reply, Empty}
BY DEF TypeOK, NoSession, Slot

LEMMA CrashType ==
  ASSUME TypeOK, NEW d \in Device, Crash(d)
  PROVE  /\ session' \in [Session -> Slot]
         /\ \A x \in Session : /\ session'[x].out \in {session[x].out, Empty}
                               /\ session'[x].reply \in {session[x].reply, Empty}
<1> DEFINE t(x) == [session[x] EXCEPT !.cpc = IF session[x].client = d THEN "idle" ELSE @,
                                      !.spc = IF session[x].server = d THEN "idle" ELSE @]
<1>1. session' = [x \in Session |-> Kept(t(x))]
  BY DEF Crash
<1>2. ASSUME NEW x \in Session
      PROVE  /\ Kept(t(x)) \in Slot
             /\ Kept(t(x)).out \in {session[x].out, Empty}
             /\ Kept(t(x)).reply \in {session[x].reply, Empty}
  <2>1. CASE session[x] = NoSession
    <3>1. t(x).cpc = "idle" /\ t(x).spc = "idle"
      BY <2>1, SMTT(30) DEF NoSession
    <3> QED
      BY <2>1, <3>1 DEF Kept, Slot, NoSession
  <2>2. CASE session[x] \in ActiveSession
    <3>1. /\ t(x) \in ActiveSession
          /\ t(x).out = session[x].out /\ t(x).reply = session[x].reply
      BY <2>2 DEF ActiveSession, ClientPc, ServerPc
    <3> HIDE DEF t
    <3> QED
      BY <3>1 DEF Kept, Slot, NoSession
  <2> QED
    BY <2>1, <2>2 DEF TypeOK
<1> HIDE DEF t
<1> QED
  BY <1>1, <1>2

LEMMA MergePeersType ==
  ASSUME TypeOK, NEW d \in Device, NEW peers \in SUBSET Device, MergePeers(d, peers)
  PROVE  known' \in [Device -> SUBSET Device]
BY DEF TypeOK, MergePeers

LEMMA EmptyType == Empty \in Manifests
BY DEF Empty, Manifests

LEMMA TakenType ==
  ASSUME NEW dk, NEW local, NEW remote, NEW staged
  PROVE  Taken(dk, local, remote, staged) \in SUBSET Path
BY DEF Taken, Steps, WinningPaths

LEMMA ApplySavedType ==
  ASSUME TypeOK, NEW d \in Device, NEW remote \in Manifests, NEW staged, NEW now \in Nat,
         ApplySaved(d, remote, staged, now)
  PROVE  /\ disk' \in [Device -> Disk]
         /\ manifest' \in [Device -> Manifests]
         /\ clock' \in [Device -> Clock]
         /\ complete' \in [Device -> BOOLEAN]
         /\ unscanned' \in [Device -> SUBSET Path]
         /\ faults' \in Nat
<1> DEFINE taken == Taken(disk[d], manifest[d], remote, staged)
           N == Candidate(disk[d], manifest[d], remote, staged)
           dk == DiskAfter(disk[d], remote, taken, DirectorySteps(remote, taken))
<1>1. disk[d] \in Disk /\ manifest[d] \in Manifests /\ clock[d] \in Clock
  BY DEF TypeOK, Disk
<1>2. dk \in Disk /\ N \in Manifests
  BY <1>1, DiskAfterType, CandidateMixes
<1>3. PICK k \in AppliedClocks(clock[d], manifest[d], N, now) : clock' = [clock EXCEPT ![d] = k]
  BY DEF ApplySaved
<1>4. k \in Clock
  BY <1>1, <1>2, <1>3, AppliedClocksBound
<1>5. /\ disk' = [disk EXCEPT ![d] = dk]
      /\ manifest' = [manifest EXCEPT ![d] = N]
      /\ unscanned' = [unscanned EXCEPT ![d] = @ \ taken]
      /\ UNCHANGED <<complete, faults>>
  BY DEF ApplySaved
<1> HIDE DEF dk, N, taken
<1> QED
  BY <1>2, <1>3, <1>4, <1>5 DEF TypeOK, Disk

LEMMA LeftAtType ==
  ASSUME TypeOK, NEW d \in Device, NEW dk \in Disk, LeftAt(d, dk)
  PROVE  /\ disk' \in [Device -> Disk]
         /\ manifest' \in [Device -> Manifests]
         /\ complete' \in [Device -> BOOLEAN]
         /\ unscanned' \in [Device -> SUBSET Path]
BY DEF TypeOK, LeftAt, Disk

\* An apply that fails or is cut short leaves the manifest alone, and the clock
\* as it was or advanced.
LEMMA ApplyFailsType ==
  ASSUME TypeOK, NEW d \in Device, NEW remote \in Manifests, NEW staged, NEW now \in Nat,
         ApplyFailed(d, remote, staged, now) \/ ApplyInterrupted(d, remote, staged, now)
  PROVE  /\ disk' \in [Device -> Disk]
         /\ manifest' = manifest
         /\ manifest' \in [Device -> Manifests]
         /\ clock' \in [Device -> Clock]
         /\ \A e \in Device : ClockLeq(clock[e], clock'[e])
         /\ complete' \in [Device -> BOOLEAN]
         /\ unscanned' \in [Device -> SUBSET Path]
         /\ faults' \in Nat
<1> DEFINE N == Candidate(disk[d], manifest[d], remote, staged)
           same == /\ clock' \in [Device -> Clock]
                   /\ \A e \in Device : ClockLeq(clock[e], clock'[e])
<1>1. disk[d] \in Disk /\ manifest[d] \in Manifests /\ clock[d] \in Clock /\ faults \in Nat
  BY DEF TypeOK, Disk
<1>2. N \in Manifests
  BY <1>1, CandidateMixes
<1>3. UNCHANGED clock => same
  BY MaxCounterAssumption, SMTT(30) DEF TypeOK, ClockLeq, Clock
<1>4. (\E k \in AppliedClocks(clock[d], manifest[d], N, now) : clock' = [clock EXCEPT ![d] = k]) => same
  <2> SUFFICES ASSUME NEW k \in AppliedClocks(clock[d], manifest[d], N, now),
                      clock' = [clock EXCEPT ![d] = k]
               PROVE  same
    OBVIOUS
  <2>1. k \in Clock /\ ClockLeq(clock[d], k)
    BY <1>1, <1>2, AppliedClocksBound
  <2> QED
    BY <2>1, MaxCounterAssumption, SMTT(30) DEF TypeOK, ClockLeq, Clock
<1> HIDE DEF same
<1>5. \A done, chmods : DiskAfter(disk[d], remote, done, chmods) \in Disk
  BY <1>1, DiskAfterType
<1>6. CASE ApplyFailed(d, remote, staged, now)
  <2>1. \E dk \in Disk : LeftAt(d, dk)
    BY <1>5, <1>6 DEF ApplyFailed
  <2>2. UNCHANGED <<clock, faults>>
    BY <1>6 DEF ApplyFailed
  <2>3. manifest' = manifest
    BY <2>1 DEF LeftAt
  <2> QED
    BY <1>1, <1>3, <2>1, <2>2, <2>3, LeftAtType DEF same
<1>7. CASE ApplyInterrupted(d, remote, staged, now)
  <2>0. faults' = faults + 1
    BY <1>7 DEF ApplyInterrupted
  <2>1. faults' \in Nat
    BY <1>1, <2>0, SMTT(30)
  <2>2. (\E dk \in Disk : LeftAt(d, dk)) /\ same
    <3>1. PICK done, chmods :
            LET dk == DiskAfter(disk[d], remote, done, chmods)
            IN  \/ LeftAt(d, dk) /\ UNCHANGED clock
                \/ \E p \in Path : \E n \in TornNodes(dk, remote, staged, p) :
                     LeftAt(d, Torn(dk, remote, p, n)) /\ UNCHANGED clock
                \/ /\ LeftAt(d, dk)
                   /\ \E k \in AppliedClocks(clock[d], manifest[d], N, now) :
                        clock' = [clock EXCEPT ![d] = k]
      <4>1. Reached(disk[d], manifest[d], remote, staged) \subseteq Path
        BY DEF Reached, Taken, Steps, WinningPaths
      <4> QED
        BY <1>7, <4>1 DEF ApplyInterrupted
    <3> DEFINE dk == DiskAfter(disk[d], remote, done, chmods)
    <3>2. dk \in Disk
      BY <1>5
    <3> HIDE DEF dk
    <3>3. \A p \in Path : \A n \in TornNodes(dk, remote, staged, p) :
            Torn(dk, remote, p, n) \in Disk
      BY <3>2, TornType
    <3> QED
      BY <1>3, <1>4, <3>1, <3>2, <3>3 DEF dk
  <2>3. manifest' = manifest
    BY <2>2 DEF LeftAt
  <2> QED
    BY <2>1, <2>2, <2>3, LeftAtType DEF same
<1> QED
  BY <1>6, <1>7

LEMMA CompleteAndScanType ==
  ASSUME TypeOK, NEW d \in Device, NEW dk \in Disk, NEW m \in Manifests, NEW c \in Clock,
         NEW u \in SUBSET Path, NEW now \in Nat, NEW cut,
         CompleteAndScan(d, dk, m, c, u, now, cut)
  PROVE  /\ manifest' \in [Device -> Manifests]
         /\ clock' \in [Device -> Clock]
         /\ complete' \in [Device -> BOOLEAN]
         /\ unscanned' \in [Device -> SUBSET Path]
         /\ faults' \in Nat
<1> DEFINE N == scan_manifest(m, dk, c, d, now)
           k == ScannedClock(m, dk, c, now)
           scans == ~cut /\ ScanSucceeds(m, dk, c, d, now)
<1>1. scans => N \in Manifests /\ k \in Clock
  BY ScanVersions DEF ScanSucceeds
<1>2. /\ complete' = [complete EXCEPT ![d] = TRUE]
      /\ clock' = [clock EXCEPT ![d] = IF scans THEN k ELSE c]
      /\ manifest' = [manifest EXCEPT ![d] = IF scans THEN N ELSE m]
      /\ unscanned' = [unscanned EXCEPT ![d] = IF scans THEN {} ELSE u]
      /\ faults' = IF cut THEN faults + 1 ELSE faults
  BY DEF CompleteAndScan
<1> HIDE DEF N, k, scans
<1> QED
  BY <1>1, <1>2, SMTT(30) DEF TypeOK

-----------------------------------------------------------------------------
(* The theorem                                                             *)

LEMMA WallType == Wall \subseteq Nat
BY BoundsAssumption, SMTT(30) DEF Wall

\* init's scan of the owner's directory and the joins give well-typed states.
LEMMA TypeInit == Init => TypeOK
<1> SUFFICES ASSUME Init PROVE TypeOK
  OBVIOUS
<1>1. disk \in [Device -> Disk]
  BY EditsAssumption DEF Init, Disk
<1>2. Empty \in Manifests /\ NewClock \in Clock
  BY EmptyType, MaxCounterAssumption, SMTT(30) DEF NewClock, Clock
<1>3. manifest \in [Device -> Manifests] /\ clock \in [Device -> Clock]
  <2>1. PICK now \in Wall :
          /\ ScanSucceeds(Empty, disk[Owner], NewClock, Owner, now)
          /\ manifest = [d \in Device |->
               IF d = Owner THEN scan_manifest(Empty, disk[d], NewClock, d, now) ELSE Empty]
          /\ clock = [d \in Device |->
               IF d = Owner THEN ScannedClock(Empty, disk[d], NewClock, now) ELSE NewClock]
    BY DEF Init
  <2> DEFINE N == scan_manifest(Empty, disk[Owner], NewClock, Owner, now)
             k == ScannedClock(Empty, disk[Owner], NewClock, now)
  <2>2. N \in Manifests /\ k \in Clock
    BY <1>1, <1>2, <2>1, ScanVersions, WallType, OwnerAssumption DEF ScanSucceeds
  <2>3. /\ manifest = [d \in Device |-> IF d = Owner THEN N ELSE Empty]
        /\ clock = [d \in Device |-> IF d = Owner THEN k ELSE NewClock]
    BY <2>1
  <2> HIDE DEF N, k
  <2> QED
    BY <1>2, <2>2, <2>3
<1>4. complete \in [Device -> BOOLEAN] /\ known \in [Device -> SUBSET Device]
  BY OwnerAssumption DEF Init
<1>5. session \in [Session -> Slot]
  BY DEF Init, Slot
<1>6. unscanned \in [Device -> SUBSET Path] /\ edits \in Nat /\ faults \in Nat
  BY DEF Init
<1> QED
  BY <1>1, <1>3, <1>4, <1>5, <1>6 DEF TypeOK, Disk, Slot

\* A session starts with the client's manifest or an empty one, and no answer.
LEMMA StartedSession ==
  ASSUME TypeOK, NEW x \in Session, NEW c \in Device, NEW s \in Device,
         Dial(x, c, s) \/ Open(x, c, s)
  PROVE  \E t \in ActiveSession : /\ session' = [session EXCEPT ![x] = t]
                                  /\ t.out \in {Empty, manifest[c]} /\ t.reply = Empty
<1>0. manifest[c] \in Manifests /\ known[c] \ {s} \in SUBSET Device /\ Empty \in Manifests
  BY EmptyType DEF TypeOK
<1>1. CASE Dial(x, c, s)
  <2> DEFINE t == [NoSession EXCEPT !.client = c, !.server = s, !.cpc = "dialing"]
  <2>1. t \in ActiveSession /\ t.out = Empty /\ t.reply = Empty
    BY <1>0 DEF NoSession, ActiveSession, ClientPc, ServerPc
  <2>2. session' = [session EXCEPT ![x] = t]
    BY <1>1 DEF Dial
  <2> QED
    BY <2>1, <2>2
<1>2. CASE Open(x, c, s)
  <2> DEFINE dialed == session[x].cpc = "dialing" /\ session[x].client = c /\ session[x].server = s
             out == IF dialed THEN Empty ELSE manifest[c]
             peers == known[c] \ {s}
             t == [NoSession EXCEPT !.client = c, !.server = s, !.cpc = "asked", !.spc = "asked",
                                    !.out = out, !.gossip = peers]
  <2>1. session' = [session EXCEPT ![x] = t]
    BY <1>2 DEF Open
  <2>2. out \in {Empty, manifest[c]} /\ out \in Manifests /\ peers \in SUBSET Device
    BY <1>0
  <2> HIDE DEF out, peers
  <2>3. t \in ActiveSession /\ t.out = out /\ t.reply = Empty
    BY <1>0, <2>2 DEF NoSession, ActiveSession, ClientPc, ServerPc
  <2> HIDE DEF t
  <2> QED
    BY <2>1, <2>2, <2>3
<1> QED
  BY <1>1, <1>2

\* Every action keeps the types.
LEMMA TypeStep == TypeOK /\ [Next]_vars => TypeOK'
<1> SUFFICES ASSUME TypeOK, [Next]_vars PROVE TypeOK'
  OBVIOUS
<1> USE WallType
<1>0. /\ disk \in [Device -> Disk] /\ manifest \in [Device -> Manifests]
      /\ clock \in [Device -> Clock] /\ complete \in [Device -> BOOLEAN]
      /\ known \in [Device -> SUBSET Device] /\ session \in [Session -> Slot]
      /\ unscanned \in [Device -> SUBSET Path] /\ edits \in Nat /\ faults \in Nat
  BY DEF TypeOK, Disk, Slot
<1> DEFINE TypeNext ==
      /\ disk' \in [Device -> Disk] /\ manifest' \in [Device -> Manifests]
      /\ clock' \in [Device -> Clock] /\ complete' \in [Device -> BOOLEAN]
      /\ known' \in [Device -> SUBSET Device] /\ session' \in [Session -> Slot]
      /\ unscanned' \in [Device -> SUBSET Path] /\ edits' \in Nat /\ faults' \in Nat
<1> SUFFICES TypeNext
  BY DEF TypeOK, Disk, Slot
<1>1. ASSUME NEW d \in Editor, NEW p \in Path, NEW n \in Edits, Edit(d, p, n)
      PROVE  TypeNext
  <2>1. d \in Device /\ n \in Node \cup {NoNode} /\ Below(p) \subseteq Path
    BY <1>1, OwnerAssumption, EditsAssumption DEF Below
  <2>2. disk' \in [Device -> Disk]
    BY <1>0, <1>1, <2>1 DEF Edit, Disk
  <2>3. unscanned' \in [Device -> SUBSET Path]
    BY <1>0, <1>1, <2>1 DEF Edit
  <2>4. edits' = edits + 1
    BY <1>1 DEF Edit
  <2>5. edits' \in Nat
    BY <1>0, <2>4, SMTT(30)
  <2>6. UNCHANGED <<manifest, clock, complete, known, session, faults>>
    BY <1>1 DEF Edit
  <2> QED
    BY <1>0, <2>2, <2>3, <2>5, <2>6
<1>2. ASSUME NEW d \in Device, NEW now \in Wall, Scan(d, now) \/ ScanInterrupted(d, now)
      PROVE  TypeNext
  <2> DEFINE N == scan_manifest(manifest[d], disk[d], clock[d], d, now)
             k == ScannedClock(manifest[d], disk[d], clock[d], now)
  <2>1. N \in Manifests /\ k \in Clock
    BY <1>0, <1>2, ScanVersions DEF Scan, ScanInterrupted, ScanSucceeds
  <2>2. clock' = [clock EXCEPT ![d] = k] /\ UNCHANGED <<disk, complete, known, session, edits>>
    BY <1>2 DEF Scan, ScanInterrupted
  <2>3. /\ manifest' = manifest \/ manifest' = [manifest EXCEPT ![d] = N]
        /\ unscanned' = unscanned \/ unscanned' = [unscanned EXCEPT ![d] = {}]
        /\ faults' = faults \/ faults' = faults + 1
    BY <1>2 DEF Scan, ScanInterrupted
  <2> HIDE DEF N, k
  <2> QED
    BY <1>0, <2>1, <2>2, <2>3, SMTT(30)
<1>3. ASSUME NEW x \in Session, NEW c \in Device, NEW s \in Device,
             Dial(x, c, s) \/ Open(x, c, s)
      PROVE  TypeNext
  <2>1. UNCHANGED <<disk, manifest, clock, complete, known, unscanned, edits, faults>>
    BY <1>3 DEF Dial, Open
  <2>2. session' \in [Session -> Slot]
    BY <1>0, <1>3, StartedSession DEF Slot
  <2> QED
    BY <1>0, <2>1, <2>2
<1>4. ASSUME NEW x \in Session, ServerStep(x)
      PROVE  TypeNext
  <2>0. session[x] \in ActiveSession
    BY <1>4, RunningSession DEF ServerStep, Answer, Ready, Receive, ServerApply, ServerApplyFails
  <2> DEFINE s == session[x]
  <2>1. CASE Answer(x)
    <3>1. s.gossip \cup {s.client} \in SUBSET Device
      BY <2>0 DEF ActiveSession
    <3>2. known' \in [Device -> SUBSET Device]
      BY <2>0, <2>1, <3>1, MergePeersType DEF Answer, ActiveSession
    <3>3. \E t \in ActiveSession : Put(x, t)
      BY <1>0, <2>0, <2>1, <3>2 DEF Answer, ActiveSession, ServerPc
    <3>4. UNCHANGED <<disk, manifest, clock, complete, unscanned, edits, faults>>
      BY <2>1 DEF Answer
    <3> QED
      BY <1>0, <3>2, <3>3, <3>4, PutType
  <2>2. CASE Ready(x) \/ Receive(x)
    <3>1. \E t \in ActiveSession : Put(x, t)
      BY <2>0, <2>2 DEF Ready, Receive, ActiveSession, ServerPc
    <3>2. UNCHANGED <<disk, manifest, clock, complete, known, unscanned, edits, faults>>
      BY <2>2 DEF Ready, Receive
    <3> QED
      BY <1>0, <3>1, <3>2, PutType
  <2>3. ASSUME NEW now \in Wall, ServerApply(x, now)
        PROVE  TypeNext
    <3>1. s.server \in Device /\ s.out \in Manifests
      BY <2>0 DEF ActiveSession
    <3>2. ApplySaved(s.server, s.out, s.uploads, now) /\ UNCHANGED <<known, edits>>
      BY <2>3 DEF ServerApply
    <3>3. manifest' \in [Device -> Manifests]
      BY <3>1, <3>2, ApplySavedType
    <3>4. \E t \in ActiveSession : Put(x, t)
      BY <2>0, <2>3, <3>1, <3>3, EmptyType DEF ServerApply, ActiveSession, ServerPc
    <3> QED
      BY <1>0, <3>1, <3>2, <3>4, ApplySavedType, PutType
  <2>4. ASSUME NEW now \in Wall, ServerApplyFails(x, now)
        PROVE  TypeNext
    <3>1. s.server \in Device /\ s.out \in Manifests
      BY <2>0 DEF ActiveSession
    <3>2. /\ ApplyFailed(s.server, s.out, s.uploads, now)
              \/ ApplyInterrupted(s.server, s.out, s.uploads, now)
          /\ UNCHANGED <<known, edits>>
      BY <2>4 DEF ServerApplyFails
    <3>3. \E t \in ActiveSession : Put(x, t)
      BY <2>0, <2>4 DEF ServerApplyFails, ActiveSession, ServerPc
    <3> QED
      BY <1>0, <3>1, <3>2, <3>3, ApplyFailsType, PutType
  <2> QED
    BY <1>4, <2>1, <2>2, <2>3, <2>4 DEF ServerStep
<1>5. ASSUME NEW x \in Session, ClientStep(x)
      PROVE  TypeNext
  <2>0. session[x] \in ActiveSession
    BY <1>5, RunningSession DEF ClientStep, Request, StartDownload, Download, ClientApply,
       ClientApplyFails, Unchanged, ClientJoins
  <2> DEFINE s == session[x]
             d == s.client
  <2>1. /\ d \in Device /\ s.server \in Device /\ s.reply \in Manifests
        /\ s.gossip \cup {s.server} \in SUBSET Device
    BY <2>0 DEF ActiveSession
  <2>2. CASE Request(x)
    <3>1. known' \in [Device -> SUBSET Device]
      BY <2>1, <2>2, MergePeersType DEF Request
    <3>2. Uploads(s.out, s.reply) \subseteq Path /\ Downloads(s.out, s.reply) \subseteq Path
      BY DEF Uploads, Downloads, FirstPaths
    <3>3. \E t \in ActiveSession : Put(x, t)
      <4> DEFINE t == [s EXCEPT !.cpc = "requested", !.spc = "requested", !.reply = Empty, !.gossip = {},
                                !.uploads = Uploads(s.out, s.reply),
                                !.downloads = Downloads(s.out, s.reply)]
      <4>1. Put(x, t)
        BY <2>2 DEF Request
      <4>2. t \in ActiveSession
        BY <2>0, <3>2, EmptyType DEF ActiveSession, ClientPc, ServerPc
      <4> QED
        BY <4>1, <4>2
    <3>4. UNCHANGED <<disk, manifest, clock, complete, unscanned, edits, faults>>
      BY <2>2 DEF Request
    <3> QED
      BY <1>0, <3>1, <3>3, <3>4, PutType
  <2>3. CASE StartDownload(x) \/ Download(x)
    <3>1. \E t \in ActiveSession : Put(x, t)
      BY <2>0, <2>3 DEF StartDownload, Download, ActiveSession, ClientPc, ServerPc
    <3>2. UNCHANGED <<disk, manifest, clock, complete, known, unscanned, edits, faults>>
      BY <2>3 DEF StartDownload, Download
    <3> QED
      BY <1>0, <3>1, <3>2, PutType
  <2>4. ASSUME NEW now \in Wall, ClientApply(x, now)
        PROVE  TypeNext
    <3>1. /\ ApplySaved(d, s.reply, s.downloads, now) /\ UNCHANGED <<known, edits>>
          /\ session' = [session EXCEPT ![x] = NoSession]
      BY <2>4 DEF ClientApply
    <3> QED
      BY <1>0, <2>1, <3>1, ApplySavedType, EndedType
  <2>5. ASSUME NEW now \in Wall, ClientApplyFails(x, now)
        PROVE  TypeNext
    <3>1. /\ ApplyFailed(d, s.reply, s.downloads, now)
              \/ ApplyInterrupted(d, s.reply, s.downloads, now)
          /\ UNCHANGED <<known, edits>>
          /\ session' = [session EXCEPT ![x] = NoSession]
      BY <2>5 DEF ClientApplyFails
    <3> QED
      BY <1>0, <2>1, <3>1, ApplyFailsType, EndedType
  <2>6. ASSUME NEW now \in Wall, NEW cut \in BOOLEAN, Unchanged(x, now, cut)
        PROVE  TypeNext
    <3>1. known' \in [Device -> SUBSET Device]
      BY <2>1, <2>6, MergePeersType DEF Unchanged
    <3>2. session' = [session EXCEPT ![x] = NoSession] /\ UNCHANGED <<disk, edits>>
      BY <2>6 DEF Unchanged
    <3>3. \/ UNCHANGED <<manifest, clock, complete, unscanned, faults>>
          \/ CompleteAndScan(d, disk[d], manifest[d], clock[d], unscanned[d], now, cut)
      BY <2>6 DEF Unchanged
    <3>4. /\ disk[d] \in Disk /\ manifest[d] \in Manifests /\ clock[d] \in Clock
          /\ unscanned[d] \in SUBSET Path
      BY <1>0, <2>1
    <3> QED
      BY <1>0, <2>1, <3>1, <3>2, <3>3, <3>4, CompleteAndScanType, EndedType
  <2>7. ASSUME NEW now \in Wall, NEW later \in Wall, NEW cut \in BOOLEAN,
               ClientJoins(x, now, later, cut)
        PROVE  TypeNext
    <3> DEFINE taken == Taken(disk[d], manifest[d], s.reply, s.downloads)
               N == Candidate(disk[d], manifest[d], s.reply, s.downloads)
               dk == DiskAfter(disk[d], s.reply, taken, DirectorySteps(s.reply, taken))
    <3>1. /\ disk[d] \in Disk /\ manifest[d] \in Manifests /\ clock[d] \in Clock
          /\ unscanned[d] \ taken \in SUBSET Path
      BY <1>0, <2>1
    <3>2. dk \in Disk /\ N \in Manifests
      BY <2>1, <3>1, DiskAfterType, CandidateMixes
    <3>3. PICK k \in AppliedClocks(clock[d], manifest[d], N, now) :
            CompleteAndScan(d, dk, N, k, unscanned[d] \ taken, later, cut)
      BY <2>7 DEF ClientJoins
    <3>4. k \in Clock
      BY <3>1, <3>2, <3>3, AppliedClocksBound
    <3>5. /\ disk' = [disk EXCEPT ![d] = dk]
          /\ session' = [session EXCEPT ![x] = NoSession] /\ UNCHANGED <<known, edits>>
      BY <2>7 DEF ClientJoins
    <3>6. /\ manifest' \in [Device -> Manifests] /\ clock' \in [Device -> Clock]
          /\ complete' \in [Device -> BOOLEAN] /\ unscanned' \in [Device -> SUBSET Path]
          /\ faults' \in Nat
      BY <2>1, <3>1, <3>2, <3>3, <3>4, CompleteAndScanType
    <3> HIDE DEF dk
    <3> QED
      BY <1>0, <3>2, <3>5, <3>6, EndedType
  <2> QED
    BY <1>5, <2>2, <2>3, <2>4, <2>5, <2>6, <2>7 DEF ClientStep
<1>6. ASSUME NEW x \in Session, TransferFails(x) \/ HangUp(x) \/ Drop(x)
      PROVE  TypeNext
  <2>1. CASE TransferFails(x) \/ HangUp(x)
    BY <1>0, <2>1, EndedType DEF TransferFails, HangUp
  <2>2. CASE Drop(x)
    <3>1. session[x] \in ActiveSession
      BY <2>2, RunningSession DEF Drop
    <3>2. \E t \in ActiveSession : Put(x, t)
      BY <2>2, <3>1 DEF Drop, ActiveSession, ClientPc, ServerPc
    <3>3. /\ UNCHANGED <<disk, manifest, clock, complete, known, unscanned, edits>>
          /\ faults' = faults + 1
      BY <2>2 DEF Drop
    <3>4. faults' \in Nat
      BY <1>0, <3>3, SMTT(30)
    <3> QED
      BY <1>0, <3>2, <3>3, <3>4, PutType
  <2> QED
    BY <1>6, <2>1, <2>2
<1>7. ASSUME NEW d \in Device, Crash(d)
      PROVE  TypeNext
  <2>1. /\ UNCHANGED <<disk, manifest, clock, complete, known, unscanned, edits>>
        /\ faults' = faults + 1
    BY <1>7 DEF Crash
  <2>2. session' \in [Session -> Slot]
    BY <1>7, CrashType
  <2> QED
    BY <1>0, <2>1, <2>2, SMTT(30)
<1>8. CASE UNCHANGED vars
  BY <1>0, <1>8 DEF vars
<1> QED
  BY <1>1, <1>2, <1>3, <1>4, <1>5, <1>6, <1>7, <1>8 DEF Next

\* The variables of ShareSync always have their types: in particular no step
\* saves a manifest or a clock with a version outside its range, and a session
\* with a running half always has two devices.
THEOREM TypeCorrect == Spec => []TypeOK
BY TypeInit, TypeStep, PTL DEF Spec
=============================================================================
