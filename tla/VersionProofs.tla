---------------------------- MODULE VersionProofs ----------------------------
(***************************************************************************)
(* The identity of versions and their order in ShareSync, for every number *)
(* of devices, paths, sessions, edits and faults.                          *)
(***************************************************************************)
EXTENDS ShareSyncProofs

\* Zenon proves a leaf unless the leaf cites SMT.
USE ZenonT(60)

-----------------------------------------------------------------------------
(* Sets of manifests                                                       *)

\* Forgetting manifests, adding the empty one and advancing clocks keep versions
\* identified and bounded.
LEMMA FewerCopies ==
  ASSUME NEW S \in SUBSET Manifests, NEW T \in SUBSET (S \cup {Empty}),
         NEW clk \in [Device -> Clock], NEW clk2 \in [Device -> Clock],
         Identified(S), Authored(S, clk),
         \A d \in Device : ClockLeq(clk[d], clk2[d])
  PROVE  Identified(T) /\ Authored(T, clk2)
<1>1. \A p \in Path : Empty[p] = NoRecord
  BY DEF Empty
<1>2. Identified(T)
  BY <1>1, SMTT(30) DEF Identified
<1>3. ASSUME NEW m \in T, NEW p \in Path, m[p] # NoRecord
      PROVE  NotAfter(m[p].version, clk2[m[p].version.author])
  <2>1. m \in S /\ m[p] \in Record
    BY <1>1, <1>3 DEF Manifests
  <2> DEFINE v == m[p].version
  <2>2. v \in Version /\ v.author \in Device
    BY <2>1 DEF Record, Version
  <2>3. NotAfter(v, clk[v.author]) /\ ClockLeq(clk[v.author], clk2[v.author])
    BY <1>3, <2>1, <2>2 DEF Authored
  <2>4. clk[v.author] \in Clock /\ clk2[v.author] \in Clock
    BY <2>2
  <2> HIDE DEF v
  <2>5. NotAfter(v, clk2[v.author])
    BY <2>2, <2>3, <2>4, MaxCounterAssumption, SMTT(30) DEF NotAfter, ClockLeq, Clock, Version
  <2> QED
    BY <2>5 DEF v
<1> QED
  BY <1>2, <1>3 DEF Authored

\* A manifest mixed from two others brings no new version.
LEMMA MixedCopy ==
  ASSUME NEW S \in SUBSET Manifests, NEW clk, Identified(S), Authored(S, clk),
         NEW m \in S, NEW n \in S, NEW k \in Manifests,
         \A p \in Path : k[p] = m[p] \/ k[p] = n[p]
  PROVE  Identified(S \cup {k}) /\ Authored(S \cup {k}, clk)
BY SMTT(30) DEF Identified, Authored

\* A record of device d whose version no manifest of S has.
Fresh(S, d, r) ==
  /\ r \in Record /\ r.version.author = d
  /\ \A n \in S : \A q \in Path : n[q] # NoRecord => n[q].version # r.version

\* A scan brings new versions, none of which any manifest has.
LEMMA ScannedFresh ==
  ASSUME NEW S \in SUBSET Manifests, NEW clk \in [Device -> Clock], Authored(S, clk),
         NEW m \in Manifests, NEW dk \in Disk, NEW d \in Device, NEW now \in Nat,
         NEW c \in Clock, ClockLeq(clk[d], c),
         ScannedClock(m, dk, c, now).last_counter <= MaxCounter,
         NEW p \in Changed(m, dk)
  PROVE  Fresh(S, d, scan_manifest(m, dk, c, d, now)[p])
<1> DEFINE N == scan_manifest(m, dk, c, d, now)
<1>1. /\ N \in Manifests /\ p \in Path
      /\ N[p] # NoRecord /\ N[p].version.author = d
      /\ ~NotAfter(N[p].version, c)
  BY ScanVersions, ChangedFinite, SMTT(30)
<1> HIDE DEF N
<1>2. ASSUME NEW n \in S, NEW q \in Path, n[q] # NoRecord
      PROVE  n[q].version # N[p].version
  <2> SUFFICES ASSUME n[q].version = N[p].version
               PROVE  FALSE
    OBVIOUS
  <2>1. NotAfter(n[q].version, clk[d])
    BY <1>1, <1>2 DEF Authored
  <2>2. n[q].version \in Version /\ clk[d] \in Clock
    BY <1>2 DEF Manifests, Record
  <2>3. NotAfter(n[q].version, c)
    BY <2>1, <2>2, MaxCounterAssumption, SMTT(30) DEF NotAfter, ClockLeq, Clock, Version
  <2> QED
    BY <1>1, <2>3
<1> QED
  BY <1>1, <1>2 DEF N, Fresh, Manifests

LEMMA ScannedCopy ==
  ASSUME NEW S \in SUBSET Manifests, NEW clk \in [Device -> Clock],
         Identified(S), Authored(S, clk),
         NEW m \in S, NEW dk \in Disk, NEW d \in Device, NEW now \in Nat,
         NEW c \in Clock, ClockLeq(clk[d], c),
         ScannedClock(m, dk, c, now).last_counter <= MaxCounter
  PROVE  LET N == scan_manifest(m, dk, c, d, now)
             k == ScannedClock(m, dk, c, now)
         IN  /\ N \in Manifests /\ k \in Clock
             /\ ClockLeq(clk[d], k)
             /\ Identified(S \cup {N})
             /\ Authored(S \cup {N}, [clk EXCEPT ![d] = k])
<1> DEFINE N == scan_manifest(m, dk, c, d, now)
           k == ScannedClock(m, dk, c, now)
           clk2 == [clk EXCEPT ![d] = k]
<1>1. /\ N \in Manifests
      /\ k \in Clock /\ ClockLeq(c, k)
      /\ \A p \in Path \ Changed(m, dk) : N[p] = m[p]
      /\ \A p \in Changed(m, dk) :
           /\ N[p] # NoRecord /\ N[p].version.author = d
           /\ ~NotAfter(N[p].version, c) /\ NotAfter(N[p].version, k)
      /\ \A p, q \in Changed(m, dk) : N[p].version = N[q].version => p = q
  BY ScanVersions, SMTT(30)
<1>2. Changed(m, dk) \subseteq Path
  BY ChangedFinite
<1> HIDE DEF N, k
<1>3. ClockLeq(clk[d], k)
  <2>1. clk[d] \in Clock
    OBVIOUS
  <2> QED
    BY <1>1, <2>1, MaxCounterAssumption, SMTT(30) DEF ClockLeq, Clock
<1>4. ASSUME NEW n \in S, NEW q \in Path, n[q] # NoRecord, NEW p \in Changed(m, dk)
      PROVE  n[q].version # N[p].version
  <2>1. m \in Manifests
    OBVIOUS
  <2>2. Fresh(S, d, N[p])
    BY <2>1, ScannedFresh DEF N
  <2> QED
    BY <1>4, <2>2 DEF Fresh
<1>5. Identified(S \cup {N})
  <2> SUFFICES ASSUME NEW a \in S \cup {N}, NEW b \in S \cup {N}, NEW p \in Path, NEW q \in Path,
                      a[p] # NoRecord, b[q] # NoRecord, a[p].version = b[q].version
               PROVE  p = q /\ a[p] = b[q]
    BY SMTT(30) DEF Identified
  <2> DEFINE old(x, y) == \E n \in S : n[y] = x[y]
  <2>1. a \in S \/ (a = N /\ p \in Changed(m, dk)) \/ a[p] = m[p]
    BY <1>1
  <2>2. b \in S \/ (b = N /\ q \in Changed(m, dk)) \/ b[q] = m[q]
    BY <1>1
  <2>3. CASE (a = N /\ p \in Changed(m, dk)) /\ (b = N /\ q \in Changed(m, dk))
    BY <1>1, <2>3
  <2>4. CASE (a \in S \/ a[p] = m[p]) /\ (b = N /\ q \in Changed(m, dk))
    BY <1>4, <2>4
  <2>5. CASE (a = N /\ p \in Changed(m, dk)) /\ (b \in S \/ b[q] = m[q])
    BY <1>4, <2>5
  <2>6. CASE (a \in S \/ a[p] = m[p]) /\ (b \in S \/ b[q] = m[q])
    BY <2>6, SMTT(30) DEF Identified
  <2> QED
    BY <2>1, <2>2, <2>3, <2>4, <2>5, <2>6
<1>6. Authored(S, clk2)
  <2>1. clk2 \in [Device -> Clock] /\ \A e \in Device : ClockLeq(clk[e], clk2[e])
    BY <1>1, <1>3, MaxCounterAssumption, SMTT(30) DEF ClockLeq, Clock
  <2> QED
    BY <2>1, FewerCopies
<1>7. Authored(S \cup {N}, clk2)
  <2> SUFFICES ASSUME NEW p \in Path, N[p] # NoRecord
               PROVE  NotAfter(N[p].version, clk2[N[p].version.author])
    BY <1>6 DEF Authored
  <2>1. CASE p \in Changed(m, dk)
    BY <1>1, <2>1
  <2>2. CASE p \notin Changed(m, dk)
    BY <1>1, <1>6, <2>2 DEF Authored
  <2> QED
    BY <2>1, <2>2
<1> QED
  BY <1>1, <1>3, <1>5, <1>7 DEF N, k

-----------------------------------------------------------------------------
(* Steps that change one device                                            *)

\* Every record of m that observe_manifest_clock looks at is within clock c.
Bounded(m, c) == \A p \in Observed(m) : NotAfter(m[p].version, c)

\* m is replaced by N as VersionsAdvance demands.
Advances(m, N) ==
  \A p \in Path : \/ m[p].node.kind \in {"none", "link"}
                  \/ N[p] = m[p]
                  \/ VersionLess(m[p].version, N[p].version)

\* N has the records of m, or winning records of manifest remote.
Mixes(m, remote, N) ==
  \A p \in Path : N[p] = m[p] \/ (N[p] = remote[p] /\ remote_record_wins(m[p], remote[p]))

\* The sessions get no manifest but the saved ones.
Sent == Transit' \subseteq Transit \cup {manifest'[e] : e \in Device} \cup {Empty}

\* The inductive invariant: VersionIdentity needs AuthorBound, and
\* VersionsAdvance needs both and ReplicaBound.
VersionInv == TypeOK /\ VersionIdentity /\ AuthorBound /\ ReplicaBound

\* Manifest N of device d has records of its manifest, records of remote that win,
\* and at the paths of own new ones.
Composed(d, N, remote, own) ==
  /\ \A p \in own : Fresh(Copies, d, N[p])
  /\ \A p, q \in own : N[p].version = N[q].version => p = q
  /\ \A p \in Path \ own : \/ N[p] = manifest[d][p]
                           \/ N[p] = remote[p] /\ remote_record_wins(manifest[d][p], remote[p])

\* What a step is to show.
StepGoal ==
  VersionInv' /\ Abstract!Next /\ \A e \in Device : Advances(manifest[e], manifest'[e])

LEMMA ObservedRecord ==
  ASSUME NEW m \in Manifests, NEW p \in Path
  PROVE  /\ p \in Observed(m) => m[p] \in Record /\ m[p] # NoRecord
         /\ m[p].node.kind \notin {"none", "link"} => p \in Observed(m)
BY SMTT(30) DEF Manifests, Record, Node, Deleted, NoRecord, NoNode, Observed

LEMMA BoundedLater ==
  ASSUME NEW m \in Manifests, NEW c \in Clock, NEW k \in Clock, ClockLeq(c, k), Bounded(m, c)
  PROVE  Bounded(m, k)
<1> SUFFICES ASSUME NEW p \in Observed(m) PROVE NotAfter(m[p].version, k)
  BY DEF Bounded
<1>1. p \in Path
  BY DEF Observed
<1>2. m[p].version \in Version /\ NotAfter(m[p].version, c)
  BY <1>1, ObservedRecord DEF Bounded, Record
<1> DEFINE v == m[p].version
<1> HIDE DEF v
<1>3. NotAfter(v, k)
  BY <1>2, MaxCounterAssumption, SMTT(30) DEF v, NotAfter, ClockLeq, Clock, Version
<1> QED
  BY <1>3 DEF v

LEMMA ReplicasBounded ==
  ASSUME VersionInv, NEW d \in Device
  PROVE  Bounded(manifest[d], clock[d])
BY DEF VersionInv, ReplicaBound, Bounded

\* A scan's versions are within the clock it saves and after every version
\* within the clock it loaded.
LEMMA ScanAdvances ==
  ASSUME NEW l \in Manifests, NEW m \in Manifests, NEW dk \in Disk, NEW c \in Clock,
         NEW d \in Device, NEW now \in Nat,
         ScannedClock(m, dk, c, now).last_counter <= MaxCounter,
         Bounded(l, c), Bounded(m, c), Advances(l, m)
  PROVE  LET N == scan_manifest(m, dk, c, d, now)
         IN  Bounded(N, ScannedClock(m, dk, c, now)) /\ Advances(l, N)
<1> DEFINE N == scan_manifest(m, dk, c, d, now)
           k == ScannedClock(m, dk, c, now)
<1>1. /\ N \in Manifests
      /\ k \in Clock /\ ClockLeq(c, k)
      /\ \A p \in Path \ Changed(m, dk) : N[p] = m[p]
      /\ \A p \in Changed(m, dk) :
           /\ N[p] # NoRecord
           /\ ~NotAfter(N[p].version, c) /\ NotAfter(N[p].version, k)
  BY ScanVersions, SMTT(30)
<1> HIDE DEF N, k
<1>2. Bounded(N, k)
  <2> SUFFICES ASSUME NEW p \in Observed(N) PROVE NotAfter(N[p].version, k)
    BY DEF Bounded
  <2>1. p \in Path
    BY DEF Observed
  <2>2. CASE p \in Changed(m, dk)
    BY <1>1, <2>2
  <2>3. CASE p \notin Changed(m, dk)
    <3>1. p \in Observed(m) /\ N[p] = m[p]
      BY <1>1, <2>1, <2>3 DEF Observed
    <3> QED
      BY <1>1, <3>1, BoundedLater DEF Bounded
  <2> QED
    BY <2>2, <2>3
<1>3. Advances(l, N)
  <2> SUFFICES ASSUME NEW p \in Path, l[p].node.kind \notin {"none", "link"}
               PROVE  N[p] = l[p] \/ VersionLess(l[p].version, N[p].version)
    BY DEF Advances
  <2>1. CASE p \notin Changed(m, dk)
    BY <1>1, <2>1 DEF Advances
  <2>2. CASE p \in Changed(m, dk)
    <3>1. p \in Observed(l) /\ l[p].version \in Version
      BY ObservedRecord DEF Record
    <3>2. N[p].version \in Version
      BY <1>1, <2>2 DEF Manifests, Record
    <3>3. NotAfter(l[p].version, c) /\ ~NotAfter(N[p].version, c)
      BY <1>1, <2>2, <3>1 DEF Bounded
    <3> QED
      BY <3>1, <3>2, <3>3, MaxCounterAssumption, SMTT(30) DEF NotAfter, VersionLess, Clock, Version
  <2> QED
    BY <2>1, <2>2
<1> QED
  BY <1>2, <1>3 DEF N, k

LEMMA CopiesType ==
  ASSUME TypeOK
  PROVE  /\ Copies \in SUBSET Manifests
         /\ \A d \in Device : manifest[d] \in Copies
         /\ \A x \in Session : session[x].out \in Transit /\ session[x].reply \in Transit
         /\ Transit \subseteq Copies
BY EmptyType, SMTT(30) DEF TypeOK, Copies, Transit, ActiveSession, NoSession

\* What an apply of a manifest that was sent saves: it brings no new version,
\* and by VersionIdentity never trades a record for a tombstone of its version.
LEMMA ApplyAdvances ==
  ASSUME VersionInv, NEW d \in Device, NEW dk, NEW remote \in Copies, NEW staged,
         NEW now \in Nat,
         NEW k \in AppliedClocks(clock[d], manifest[d],
                                 Candidate(dk, manifest[d], remote, staged), now)
  PROVE  LET N == Candidate(dk, manifest[d], remote, staged)
         IN  /\ N \in Manifests /\ k \in Clock /\ ClockLeq(clock[d], k)
             /\ Identified(Copies \cup {N})
             /\ Authored(Copies \cup {N}, clock)
             /\ Authored(Copies \cup {N}, [clock EXCEPT ![d] = k])
             /\ Bounded(N, k) /\ Advances(manifest[d], N) /\ Mixes(manifest[d], remote, N)
<1> DEFINE m == manifest[d]
           N == Candidate(dk, m, remote, staged)
<1>1. /\ Copies \in SUBSET Manifests /\ m \in Copies /\ m \in Manifests /\ remote \in Manifests
      /\ clock \in [Device -> Clock] /\ clock[d] \in Clock
  BY CopiesType DEF VersionInv, TypeOK
<1>2. /\ N \in Manifests
      /\ \A p \in Path : \/ N[p] = m[p]
                         \/ N[p] = remote[p] /\ remote_record_wins(m[p], remote[p])
  BY <1>1, CandidateMixes, SMTT(30)
<1>3. /\ k \in Clock /\ ClockLeq(clock[d], k)
      /\ N = m \/ Bounded(N, k)
  BY <1>1, <1>2, AppliedClocksBound DEF Bounded
<1> HIDE DEF N
<1>4. Identified(Copies) /\ Authored(Copies, clock)
  BY DEF VersionInv, VersionIdentity, AuthorBound
<1>5. Identified(Copies \cup {N}) /\ Authored(Copies \cup {N}, clock)
  BY <1>1, <1>2, <1>4, MixedCopy
<1>6. Authored(Copies \cup {N}, [clock EXCEPT ![d] = k])
  <2> DEFINE clk2 == [clock EXCEPT ![d] = k]
  <2>1. clk2 \in [Device -> Clock] /\ \A e \in Device : ClockLeq(clock[e], clk2[e])
    BY <1>1, <1>3, MaxCounterAssumption, SMTT(30) DEF ClockLeq, Clock
  <2>2. Copies \cup {N} \in SUBSET Manifests
    BY <1>1, <1>2
  <2> HIDE DEF clk2
  <2>3. Authored(Copies \cup {N}, clk2)
    BY <1>1, <1>5, <2>1, <2>2, FewerCopies
  <2> QED
    BY <2>3 DEF clk2
<1>7. Bounded(m, k)
  BY <1>1, <1>3, BoundedLater, ReplicasBounded
<1>8. Advances(m, N)
  <2> SUFFICES ASSUME NEW p \in Path, m[p].node.kind \notin {"none", "link"},
                      N[p] = remote[p], remote_record_wins(m[p], remote[p]), N[p] # m[p]
               PROVE  VersionLess(m[p].version, N[p].version)
    BY <1>2 DEF Advances
  <2>1. m[p] # NoRecord /\ remote[p] # NoRecord
    BY SMTT(30) DEF remote_record_wins, NoRecord, NoNode
  <2>2. m[p].version # remote[p].version
    BY <1>1, <1>4, <2>1, SMTT(30) DEF Identified
  <2> QED
    BY <2>1, <2>2 DEF remote_record_wins
<1>9. Mixes(m, remote, N)
  BY <1>2 DEF Mixes
<1> QED
  BY <1>2, <1>3, <1>5, <1>6, <1>7, <1>8, <1>9 DEF N

\* A step that saves manifest N and clock k on device d, when N is one of a set S
\* of manifests that holds all copies.
LEMMA OneDeviceStep ==
  ASSUME VersionInv, TypeOK', Sent, NEW d \in Device, NEW N \in Manifests, NEW k \in Clock,
         NEW S \in SUBSET Manifests, Copies \subseteq S, N \in S,
         manifest' = [manifest EXCEPT ![d] = N], clock' = [clock EXCEPT ![d] = k],
         Identified(S), Authored(S, clock'), Bounded(N, k), Advances(manifest[d], N),
         NEW remote \in Transit \cup {Empty}, NEW own \in SUBSET Path, Composed(d, N, remote, own)
  PROVE  StepGoal
<1>1. manifest \in [Device -> Manifests] /\ clock' \in [Device -> Clock]
  BY DEF VersionInv, TypeOK
<1>2. \A e \in Device : manifest'[e] \in S
  BY <1>1, CopiesType DEF VersionInv
<1>3. Copies' \in SUBSET (S \cup {Empty})
  BY <1>2, CopiesType DEF Copies, Sent, VersionInv
<1>4. \A e \in Device : ClockLeq(clock'[e], clock'[e])
  BY <1>1, MaxCounterAssumption, SMTT(30) DEF ClockLeq, Clock
<1>5. Identified(Copies') /\ Authored(Copies', clock')
  <2> DEFINE T == Copies'
             clk == clock'
  <2>1. /\ clk \in [Device -> Clock] /\ T \in SUBSET (S \cup {Empty})
        /\ Authored(S, clk) /\ \A e \in Device : ClockLeq(clk[e], clk[e])
    BY <1>1, <1>3, <1>4
  <2> HIDE DEF T, clk
  <2>2. Identified(T) /\ Authored(T, clk)
    BY <2>1, FewerCopies
  <2> QED
    BY <2>2 DEF T, clk
<1>6. ASSUME NEW e \in Device PROVE Bounded(manifest'[e], clock'[e])
  <2>1. CASE e = d
    BY <1>1, <2>1 DEF VersionInv, TypeOK
  <2>2. CASE e # d
    <3>1. manifest'[e] = manifest[e] /\ clock'[e] = clock[e]
      BY <2>2 DEF VersionInv, TypeOK
    <3> QED
      BY <3>1, ReplicasBounded
  <2> QED
    BY <2>1, <2>2
<1>7. ASSUME NEW e \in Device PROVE Advances(manifest[e], manifest'[e])
  <2>1. manifest'[e] = IF e = d THEN N ELSE manifest[e]
    BY <1>1
  <2> QED
    BY <2>1 DEF Advances
<1>8. VersionIdentity' /\ AuthorBound'
  BY <1>5 DEF VersionIdentity, AuthorBound
<1>9. ReplicaBound'
  BY <1>6 DEF ReplicaBound, Bounded
<1>10. Abstract!Update(d, remote)
  <2> DEFINE m == manifest[d]
             fresh == {p \in Path : Abstract!Own(d, m[p], N[p])}
  <2>1. manifest'[d] = N /\ m \in Copies /\ Copies = Abstract!Everywhere
    BY <1>1, CopiesType DEF VersionInv, Copies, Abstract!Everywhere
  <2>2. \A p \in own : Follows(m[p], N[p])
    BY <2>1, SMTT(30) DEF Advances, Follows, Composed, Fresh, NoRecord, NoNode
  <2>3. own \subseteq fresh
    BY <2>1, <2>2 DEF Composed, Fresh, Abstract!Own, Abstract!Unused
  <2>4. ASSUME NEW p \in fresh PROVE p \in own
    <3>1. N[p] \in Record /\ N[p] # NoRecord
      BY <2>4, SMTT(30) DEF Abstract!Own, Record, Node, Deleted, NoRecord, NoNode
    <3>2. N[p] # m[p]
      BY <2>1, <2>4, <3>1 DEF Abstract!Own, Abstract!Unused
    <3>3. ~(N[p] = remote[p] /\ remote_record_wins(m[p], remote[p]))
      <4>1. remote # Empty => remote \in Copies
        BY CopiesType DEF VersionInv
      <4>2. Empty[p] = NoRecord
        BY DEF Empty
      <4> QED
        BY <2>1, <2>4, <3>1, <4>1, <4>2 DEF Abstract!Own, Abstract!Unused
    <3> QED
      BY <3>2, <3>3 DEF Composed
  <2>5. fresh = own
    BY <2>3, <2>4
  <2>6. fresh = {p \in Path : Abstract!Own(d, manifest[d][p], manifest'[d][p])}
    BY <2>1
  <2>7. own = {p \in Path : Abstract!Own(d, manifest[d][p], manifest'[d][p])}
    BY <2>5, <2>6
  <2> HIDE DEF fresh
  <2>8. /\ \A p \in Path \ own : \/ manifest'[d][p] = manifest[d][p]
                                 \/ /\ manifest'[d][p] = remote[p]
                                    /\ remote_record_wins(manifest[d][p], remote[p])
        /\ \A p, q \in own : manifest'[d][p].version = manifest'[d][q].version => p = q
        /\ manifest' = [manifest EXCEPT ![d] = manifest'[d]]
    BY <2>1 DEF Composed
  <2> QED
    BY <2>7, <2>8 DEF Abstract!Update
<1>11. Abstract!Next
  <2>1. Abstract!Blank = Empty
    BY DEF Abstract!Blank, Empty
  <2> QED
    BY <1>10, <2>1 DEF Abstract!Next, Sent
<1> QED
  BY <1>7, <1>8, <1>9, <1>11 DEF VersionInv, StepGoal

\* A step that saves no manifest.
LEMMA NoManifestStep ==
  ASSUME VersionInv, TypeOK', Sent, manifest' = manifest,
         \A e \in Device : ClockLeq(clock[e], clock'[e])
  PROVE  StepGoal
<1>1. clock \in [Device -> Clock] /\ clock' \in [Device -> Clock] /\ manifest \in [Device -> Manifests]
  BY DEF VersionInv, TypeOK
<1>2. Copies \in SUBSET Manifests /\ \A e \in Device : manifest[e] \in Copies
  BY CopiesType DEF VersionInv
<1>3. Copies' \in SUBSET (Copies \cup {Empty})
  BY <1>2, CopiesType DEF Copies, Sent, VersionInv
<1>4. Identified(Copies) /\ Authored(Copies, clock)
  BY DEF VersionInv, VersionIdentity, AuthorBound
<1>5. Identified(Copies') /\ Authored(Copies', clock')
  BY <1>1, <1>2, <1>3, <1>4, FewerCopies
<1>6. ASSUME NEW e \in Device PROVE Bounded(manifest[e], clock'[e])
  BY <1>1, BoundedLater, ReplicasBounded
<1>7. ASSUME NEW e \in Device PROVE Advances(manifest[e], manifest'[e])
  BY DEF Advances
<1>8. VersionIdentity' /\ AuthorBound'
  BY <1>5 DEF VersionIdentity, AuthorBound
<1>9. ReplicaBound'
  BY <1>6 DEF ReplicaBound, Bounded
<1>10. Abstract!Next
  BY DEF Abstract!Next, Sent, Abstract!Blank, Empty
<1> QED
  BY <1>7, <1>8, <1>9, <1>10 DEF VersionInv, StepGoal

-----------------------------------------------------------------------------
(* The theorems                                                            *)

\* The owner's first scan gives the only versions there are at the start.
LEMMA VersionInit == Init => VersionInv
<1> SUFFICES ASSUME Init PROVE VersionInv
  OBVIOUS
<1>1. TypeOK
  BY TypeInit
<1>2. /\ disk[Owner] \in Disk /\ Owner \in Device
      /\ Empty \in Manifests /\ NewClock \in Clock
  BY <1>1, OwnerAssumption, EmptyType, MaxCounterAssumption, SMTT(30) DEF TypeOK, Disk, NewClock, Clock
<1>3. PICK now \in Wall :
        /\ ScanSucceeds(Empty, disk[Owner], NewClock, Owner, now)
        /\ manifest = [d \in Device |->
             IF d = Owner THEN scan_manifest(Empty, disk[d], NewClock, d, now) ELSE Empty]
        /\ clock = [d \in Device |->
             IF d = Owner THEN ScannedClock(Empty, disk[d], NewClock, now) ELSE NewClock]
  BY DEF Init
<1> DEFINE N == scan_manifest(Empty, disk[Owner], NewClock, Owner, now)
           k == ScannedClock(Empty, disk[Owner], NewClock, now)
           clk == [d \in Device |-> NewClock]
           S == {Empty}
<1>4. \A p \in Path : Empty[p] = NoRecord
  BY DEF Empty
<1>5. Identified(S) /\ Authored(S, clk) /\ Bounded(Empty, NewClock) /\ Advances(Empty, Empty)
  BY <1>4, SMTT(30) DEF Identified, Authored, Bounded, Observed, Advances, NoRecord, NoNode
<1>6. /\ S \in SUBSET Manifests /\ clk \in [Device -> Clock]
      /\ Empty \in S /\ ClockLeq(clk[Owner], NewClock)
      /\ k.last_counter <= MaxCounter /\ now \in Nat
  BY <1>2, <1>3, WallType, SMTT(30) DEF ScanSucceeds, ClockLeq, NewClock
<1> HIDE DEF clk, S
<1>7. /\ Identified(S \cup {N}) /\ Authored(S \cup {N}, [clk EXCEPT ![Owner] = k])
      /\ N \in Manifests /\ k \in Clock
  BY <1>2, <1>5, <1>6, ScannedCopy
<1>8. Bounded(N, k)
  BY <1>2, <1>5, <1>6, ScanAdvances
<1>9. /\ manifest = [d \in Device |-> IF d = Owner THEN N ELSE Empty]
      /\ clock = [clk EXCEPT ![Owner] = k]
      /\ \A d \in Device : clock[d] = IF d = Owner THEN k ELSE NewClock
  BY <1>3 DEF clk
<1> HIDE DEF N, k
<1>10. Copies \in SUBSET ((S \cup {N}) \cup {Empty})
  BY <1>9 DEF Copies, Transit, Init, NoSession
<1>11. S \cup {N} \in SUBSET Manifests /\ clock \in [Device -> Clock]
       /\ Authored(S \cup {N}, clock)
       /\ \A d \in Device : ClockLeq(clock[d], clock[d])
  BY <1>1, <1>6, <1>7, <1>9, MaxCounterAssumption, SMTT(30) DEF TypeOK, ClockLeq, Clock
<1>12. Identified(Copies) /\ Authored(Copies, clock)
  BY <1>7, <1>10, <1>11, FewerCopies
<1>13. ReplicaBound
  BY <1>5, <1>8, <1>9 DEF ReplicaBound, Bounded
<1> QED
  BY <1>1, <1>12, <1>13 DEF VersionInv, VersionIdentity, AuthorBound

LEMMA SameClocks ==
  ASSUME TypeOK, UNCHANGED clock
  PROVE  \A e \in Device : ClockLeq(clock[e], clock'[e])
BY MaxCounterAssumption, SMTT(30) DEF TypeOK, ClockLeq, Clock

\* A scan of device d with manifest m, clock c and directory dk, when m and all
\* copies are in S; m mixes d's manifest with remote, and c is not behind the saved
\* clock.
LEMMA ScanningStep ==
  ASSUME VersionInv, TypeOK', Sent, NEW d \in Device, NEW m \in Manifests, NEW dk \in Disk,
         NEW c \in Clock, NEW now \in Nat, ClockLeq(clock[d], c),
         NEW S \in SUBSET Manifests, Copies \subseteq S, m \in S,
         Identified(S), Authored(S, clock), Bounded(m, c), Advances(manifest[d], m),
         NEW remote \in Transit \cup {Empty}, Mixes(manifest[d], remote, m),
         ScanSucceeds(m, dk, c, d, now),
         manifest' = [manifest EXCEPT ![d] = scan_manifest(m, dk, c, d, now)],
         clock' = [clock EXCEPT ![d] = ScannedClock(m, dk, c, now)]
  PROVE  StepGoal
<1> DEFINE N == scan_manifest(m, dk, c, d, now)
           k == ScannedClock(m, dk, c, now)
           S2 == S \cup {N}
           own == Changed(m, dk)
<1>1. clock \in [Device -> Clock] /\ manifest[d] \in Manifests /\ clock[d] \in Clock
  BY DEF VersionInv, TypeOK
<1>2. k.last_counter <= MaxCounter
  BY DEF ScanSucceeds
<1>3. /\ N \in Manifests /\ k \in Clock
      /\ Identified(S2) /\ Authored(S2, [clock EXCEPT ![d] = k])
      /\ \A p \in Path \ own : N[p] = m[p]
      /\ \A p \in own : Fresh(S, d, N[p])
      /\ \A p, q \in own : N[p].version = N[q].version => p = q
  <2>1. /\ N \in Manifests /\ k \in Clock
        /\ Identified(S2) /\ Authored(S2, [clock EXCEPT ![d] = k])
    BY <1>1, <1>2, ScannedCopy
  <2>2. /\ \A p \in Path \ own : N[p] = m[p]
        /\ \A p, q \in own : N[p].version = N[q].version => p = q
    BY <1>2, ScanVersions, SMTT(30)
  <2>3. \A p \in own : Fresh(S, d, N[p])
    BY <1>1, <1>2, ScannedFresh
  <2> QED
    BY <2>1, <2>2, <2>3
<1>4. Bounded(manifest[d], c)
  BY <1>1, BoundedLater, ReplicasBounded
<1>5. Bounded(N, k) /\ Advances(manifest[d], N)
  BY <1>1, <1>2, <1>4, ScanAdvances
<1>6. manifest' = [manifest EXCEPT ![d] = N] /\ clock' = [clock EXCEPT ![d] = k]
  OBVIOUS
<1>7. own \in SUBSET Path
  BY ChangedFinite
<1> HIDE DEF N, k, own
<1>8. /\ S2 \in SUBSET Manifests /\ Copies \subseteq S2 /\ N \in S2
      /\ Authored(S2, clock')
  BY <1>3, <1>6
<1> HIDE DEF S2
<1>9. Composed(d, N, remote, own)
  BY <1>3 DEF Fresh, Mixes, Composed
<1> QED
  BY <1>3, <1>5, <1>6, <1>7, <1>8, <1>9, OneDeviceStep

\* An apply that is saved.
LEMMA AppliedStep ==
  ASSUME VersionInv, TypeOK', Sent, NEW d \in Device, NEW remote \in Transit, NEW staged,
         NEW now \in Nat, ApplySaved(d, remote, staged, now)
  PROVE  StepGoal
<1> DEFINE N == Candidate(disk[d], manifest[d], remote, staged)
           S == Copies \cup {N}
<1>1. PICK k \in AppliedClocks(clock[d], manifest[d], N, now) : clock' = [clock EXCEPT ![d] = k]
  BY DEF ApplySaved
<1>2. manifest' = [manifest EXCEPT ![d] = N]
  BY DEF ApplySaved
<1>3. /\ N \in Manifests /\ k \in Clock /\ ClockLeq(clock[d], k)
      /\ Identified(S) /\ Authored(S, [clock EXCEPT ![d] = k])
      /\ Bounded(N, k) /\ Advances(manifest[d], N) /\ Mixes(manifest[d], remote, N)
  <2>1. remote \in Copies
    BY CopiesType DEF VersionInv
  <2> QED
    BY <1>1, <2>1, ApplyAdvances
<1> HIDE DEF N
<1>4. /\ S \in SUBSET Manifests /\ Copies \subseteq S /\ N \in S
      /\ Authored(S, clock')
  BY <1>1, <1>3, CopiesType DEF VersionInv
<1> HIDE DEF S
<1> DEFINE own == {}
<1>5. own \in SUBSET Path /\ Composed(d, N, remote, own)
  BY <1>3 DEF Mixes, Composed
<1> HIDE DEF own
<1> QED
  BY <1>1, <1>2, <1>3, <1>4, <1>5, OneDeviceStep

\* The end of an initial sync, whether or not its scan is saved.
LEMMA CompletingStep ==
  ASSUME VersionInv, TypeOK', Sent, NEW d \in Device, NEW m \in Manifests, NEW dk \in Disk,
         NEW c \in Clock, NEW now \in Nat, NEW u, NEW cut, ClockLeq(clock[d], c),
         NEW S \in SUBSET Manifests, Copies \subseteq S, m \in S,
         Identified(S), Authored(S, clock), Bounded(m, c), Advances(manifest[d], m),
         NEW remote \in Transit \cup {Empty}, Mixes(manifest[d], remote, m),
         CompleteAndScan(d, dk, m, c, u, now, cut)
  PROVE  StepGoal
<1> DEFINE scans == ~cut /\ ScanSucceeds(m, dk, c, d, now)
<1>1. /\ clock' = [clock EXCEPT ![d] = IF scans THEN ScannedClock(m, dk, c, now) ELSE c]
      /\ manifest' = [manifest EXCEPT ![d] = IF scans THEN scan_manifest(m, dk, c, d, now) ELSE m]
  BY DEF CompleteAndScan
<1>2. CASE scans
  BY <1>1, <1>2, ScanningStep
<1>3. CASE ~scans
  <2>1. manifest' = [manifest EXCEPT ![d] = m] /\ clock' = [clock EXCEPT ![d] = c]
    BY <1>1, <1>3
  <2> HIDE DEF scans
  <2>2. clock \in [Device -> Clock] /\ clock' \in [Device -> Clock]
    BY DEF VersionInv, TypeOK
  <2>3. \A e \in Device : ClockLeq(clock[e], clock'[e])
    BY <2>1, <2>2, MaxCounterAssumption, SMTT(30) DEF ClockLeq, Clock
  <2>4. Authored(S, clock')
    <3> DEFINE clk == clock'
    <3>1. clk \in [Device -> Clock] /\ \A e \in Device : ClockLeq(clock[e], clk[e])
      BY <2>2, <2>3
    <3> HIDE DEF clk
    <3>2. Authored(S, clk)
      BY <2>2, <3>1, FewerCopies
    <3> QED
      BY <3>2 DEF clk
  <2> DEFINE own == {}
  <2>5. own \in SUBSET Path /\ Composed(d, m, remote, own)
    BY DEF Mixes, Composed
  <2> HIDE DEF own
  <2> QED
    BY <2>1, <2>4, <2>5, OneDeviceStep
<1> QED
  BY <1>2, <1>3

\* Every action keeps the invariant, advances versions and is one of Replicas.
LEMMA VersionStep ==
  ASSUME VersionInv, [Next]_vars
  PROVE  StepGoal
<1> USE WallType
<1>0. TypeOK /\ TypeOK'
  BY TypeStep DEF VersionInv
<1>a. /\ Copies \in SUBSET Manifests
      /\ \A d \in Device : manifest[d] \in Copies
      /\ \A x \in Session : session[x].out \in Transit /\ session[x].reply \in Transit
      /\ Transit \subseteq Copies
  BY <1>0, CopiesType
<1>b. UNCHANGED session => Sent
  BY DEF Sent, Transit
<1>c. ASSUME NEW x \in Session, session' = [session EXCEPT ![x] = NoSession]
      PROVE  Sent
  BY <1>0, <1>a, <1>c, EndedType DEF Sent, Transit
<1>d. ASSUME NEW x \in Session, NEW t \in ActiveSession, Put(x, t),
             t.out \in Transit \cup {manifest'[e] : e \in Device} \cup {Empty},
             t.reply \in Transit \cup {manifest'[e] : e \in Device} \cup {Empty}
      PROVE  Sent
  BY <1>0, <1>a, <1>d, PutType DEF Sent, Transit
<1>e. UNCHANGED <<manifest, clock>> /\ Sent => StepGoal
  BY <1>0, SameClocks, NoManifestStep
<1>f. /\ Identified(Copies) /\ Authored(Copies, clock)
      /\ \A d \in Device : /\ disk[d] \in Disk /\ manifest[d] \in Manifests /\ clock[d] \in Clock
                           /\ ClockLeq(clock[d], clock[d])
                           /\ Bounded(manifest[d], clock[d])
                           /\ Advances(manifest[d], manifest[d])
  <2>1. \A d \in Device : /\ disk[d] \in Disk /\ manifest[d] \in Manifests /\ clock[d] \in Clock
                          /\ ClockLeq(clock[d], clock[d])
    BY <1>0, MaxCounterAssumption, SMTT(30) DEF TypeOK, Disk, ClockLeq, Clock
  <2>2. Identified(Copies) /\ Authored(Copies, clock)
    BY DEF VersionInv, VersionIdentity, AuthorBound
  <2>3. \A d \in Device : Advances(manifest[d], manifest[d])
    BY DEF Advances
  <2> QED
    BY <2>1, <2>2, <2>3, ReplicasBounded
<1>1. ASSUME NEW d \in Editor, NEW p \in Path, NEW n \in Edits, Edit(d, p, n)
      PROVE  StepGoal
  BY <1>1, <1>b, <1>e DEF Edit
<1>2. ASSUME NEW d \in Device, NEW now \in Wall, Scan(d, now)
      PROVE  StepGoal
  <2> DEFINE m == manifest[d]
             c == clock[d]
             S == Copies
  <2>1. /\ ScanSucceeds(m, disk[d], c, d, now)
        /\ manifest' = [manifest EXCEPT ![d] = scan_manifest(m, disk[d], c, d, now)]
        /\ clock' = [clock EXCEPT ![d] = ScannedClock(m, disk[d], c, now)]
        /\ UNCHANGED session
    BY <1>2 DEF Scan
  <2>2. Sent /\ Empty \in Transit \cup {Empty} /\ Mixes(m, Empty, m)
    BY <1>b, <2>1 DEF Mixes
  <2> QED
    BY <1>0, <1>a, <1>f, <2>1, <2>2, ScanningStep
<1>3. ASSUME NEW d \in Device, NEW now \in Wall, ScanInterrupted(d, now)
      PROVE  StepGoal
  <2> DEFINE k == ScannedClock(manifest[d], disk[d], clock[d], now)
  <2>1. /\ ScanSucceeds(manifest[d], disk[d], clock[d], d, now)
        /\ clock' = [clock EXCEPT ![d] = k]
        /\ UNCHANGED <<manifest, session>>
    BY <1>3 DEF ScanInterrupted
  <2>2. k \in Clock /\ ClockLeq(clock[d], k)
    BY <1>f, <2>1, ScanVersions DEF ScanSucceeds
  <2> HIDE DEF k
  <2>3. \A e \in Device : ClockLeq(clock[e], clock'[e])
    BY <1>0, <1>f, <2>1, <2>2 DEF TypeOK
  <2> QED
    BY <1>0, <1>b, <2>1, <2>3, NoManifestStep
<1>4. ASSUME NEW x \in Session, NEW c \in Device, NEW s \in Device,
             Dial(x, c, s) \/ Open(x, c, s)
      PROVE  StepGoal
  <2>1. PICK t \in ActiveSession : /\ session' = [session EXCEPT ![x] = t]
                                   /\ t.out \in {Empty, manifest[c]} /\ t.reply = Empty
    BY <1>0, <1>4, StartedSession
  <2>2. UNCHANGED <<manifest, clock>>
    BY <1>4 DEF Dial, Open
  <2>3. \A y \in Session : /\ session'[y].out \in Transit \cup {manifest'[c], Empty}
                           /\ session'[y].reply \in Transit \cup {Empty}
    BY <1>0, <1>a, <2>1, <2>2 DEF TypeOK
  <2>4. Sent
    BY <2>3 DEF Sent, Transit
  <2> QED
    BY <1>e, <2>2, <2>4
<1>5. ASSUME NEW x \in Session, ServerStep(x)
      PROVE  StepGoal
  <2>0. session[x] \in ActiveSession
    BY <1>0, <1>5, RunningSession
       DEF ServerStep, Answer, Ready, Receive, ServerApply, ServerApplyFails
  <2> DEFINE s == session[x]
             d == s.server
  <2>1. d \in Device /\ s.out \in Transit /\ s.reply \in Transit /\ s.out \in Manifests
    BY <1>a, <2>0 DEF ActiveSession
  <2>2. CASE Answer(x)
    <3>1. known' \in [Device -> SUBSET Device]
      BY <1>0 DEF TypeOK
    <3>2. \E t \in ActiveSession : Put(x, t) /\ t.out \in Transit /\ t.reply = manifest[d]
      <4> DEFINE spc == IF s.cpc = "idle" THEN "idle"
                        ELSE IF sync_digest(s.out) = sync_digest(manifest[s.server])
                        THEN "same" ELSE "answered"
                 peers == known'[s.server] \ {s.client}
                 t == [s EXCEPT !.spc = spc, !.reply = manifest[d], !.gossip = peers]
      <4>1. Put(x, t)
        BY <2>2 DEF Answer
      <4>2. spc \in ServerPc /\ peers \in SUBSET Device
        BY <2>1, <3>1 DEF ServerPc
      <4>3. manifest[d] \in Manifests
        BY <1>a, <1>f, <2>1
      <4> HIDE DEF spc, peers
      <4>4. t \in ActiveSession /\ t.out = s.out /\ t.reply = manifest[d]
        BY <2>0, <4>2, <4>3 DEF ActiveSession
      <4> HIDE DEF t
      <4> QED
        BY <2>1, <4>1, <4>3, <4>4
    <3>3. UNCHANGED <<manifest, clock>>
      BY <2>2 DEF Answer
    <3>4. Sent
      BY <1>d, <2>1, <3>2, <3>3
    <3> QED
      BY <1>e, <3>3, <3>4
  <2>3. CASE Ready(x) \/ Receive(x)
    <3>1. \E t \in ActiveSession : Put(x, t) /\ t.out \in Transit /\ t.reply \in Transit
      BY <2>0, <2>1, <2>3, SMTT(30) DEF Ready, Receive, ActiveSession, ServerPc
    <3> QED
      BY <1>d, <1>e, <2>3, <3>1 DEF Ready, Receive
  <2>4. ASSUME NEW now \in Wall, ServerApply(x, now)
        PROVE  StepGoal
    <3>1. ApplySaved(d, s.out, s.uploads, now)
      BY <2>4 DEF ServerApply
    <3>2. manifest'[d] \in Manifests
      BY <1>0, <2>1 DEF TypeOK
    <3>3. \E t \in ActiveSession : Put(x, t) /\ t.out = Empty /\ t.reply = manifest'[d]
      <4> DEFINE final == manifest'[d]
                 t == [s EXCEPT !.spc = IF s.cpc = "idle" THEN "idle" ELSE "sending",
                                !.out = Empty, !.uploads = {}, !.reply = final,
                                !.downloads = {p \in s.downloads : final[p].node.kind = "file"}]
      <4>1. Put(x, t)
        BY <2>4 DEF ServerApply
      <4>2. final \in Manifests
        BY <3>2
      <4> HIDE DEF final
      <4>3. t \in ActiveSession /\ t.out = Empty /\ t.reply = final
        BY <2>0, <4>2, EmptyType DEF ActiveSession, ServerPc
      <4> QED
        BY <4>1, <4>3 DEF final
    <3>4. Sent
      BY <1>d, <2>1, <3>3
    <3> QED
      BY <1>0, <2>1, <3>1, <3>4, AppliedStep
  <2>5. ASSUME NEW now \in Wall, ServerApplyFails(x, now)
        PROVE  StepGoal
    <3>1. ApplyFailed(d, s.out, s.uploads, now) \/ ApplyInterrupted(d, s.out, s.uploads, now)
      BY <2>5 DEF ServerApplyFails
    <3>2. \E t \in ActiveSession : Put(x, t) /\ t.out \in Transit /\ t.reply \in Transit
      BY <2>0, <2>1, <2>5, SMTT(30) DEF ServerApplyFails, ActiveSession, ServerPc
    <3>3. Sent
      BY <1>d, <3>2
    <3>4. manifest' = manifest /\ \A e \in Device : ClockLeq(clock[e], clock'[e])
      BY <1>0, <2>1, <3>1, ApplyFailsType
    <3> QED
      BY <1>0, <3>3, <3>4, NoManifestStep
  <2> QED
    BY <1>5, <2>2, <2>3, <2>4, <2>5 DEF ServerStep
<1>6. ASSUME NEW x \in Session, ClientStep(x)
      PROVE  StepGoal
  <2>0. session[x] \in ActiveSession
    BY <1>0, <1>6, RunningSession DEF ClientStep, Request, StartDownload, Download, ClientApply,
       ClientApplyFails, Unchanged, ClientJoins
  <2> DEFINE s == session[x]
             d == s.client
  <2>1. d \in Device /\ s.out \in Transit /\ s.reply \in Transit /\ s.reply \in Manifests
    BY <1>a, <2>0 DEF ActiveSession
  <2>2. CASE Request(x)
    <3> DEFINE t == [s EXCEPT !.cpc = "requested", !.spc = "requested", !.reply = Empty, !.gossip = {},
                              !.uploads = Uploads(s.out, s.reply),
                              !.downloads = Downloads(s.out, s.reply)]
    <3>1. Put(x, t) /\ UNCHANGED <<manifest, clock>>
      BY <2>2 DEF Request
    <3>2. Uploads(s.out, s.reply) \subseteq Path /\ Downloads(s.out, s.reply) \subseteq Path
      BY DEF Uploads, Downloads, FirstPaths
    <3>3. t \in ActiveSession /\ t.out = s.out /\ t.reply = Empty
      BY <2>0, <3>2, EmptyType DEF ActiveSession, ClientPc, ServerPc
    <3> HIDE DEF t
    <3>4. t.out \in Transit \cup {Empty} /\ t.reply \in Transit \cup {Empty}
      BY <2>1, <3>3
    <3> QED
      BY <1>d, <1>e, <3>1, <3>3, <3>4
  <2>3. CASE StartDownload(x) \/ Download(x)
    <3>1. \E t \in ActiveSession : Put(x, t) /\ t.out \in Transit /\ t.reply \in Transit
      <4>1. CASE StartDownload(x)
        BY <2>0, <2>1, <4>1, SMTT(30) DEF StartDownload, ActiveSession, ClientPc
      <4>2. CASE Download(x)
        <5> DEFINE t == [s EXCEPT !.cpc = "received", !.spc = "idle"]
        <5>1. Put(x, t)
          BY <4>2 DEF Download
        <5>2. t \in ActiveSession /\ t.out = s.out /\ t.reply = s.reply
          BY <2>0 DEF ActiveSession, ClientPc, ServerPc
        <5> QED
          BY <2>1, <5>1, <5>2
      <4> QED
        BY <2>3, <4>1, <4>2
    <3> QED
      BY <1>d, <1>e, <2>3, <3>1 DEF StartDownload, Download
  <2>4. ASSUME NEW now \in Wall, ClientApply(x, now)
        PROVE  StepGoal
    <3>1. /\ ApplySaved(d, s.reply, s.downloads, now)
          /\ session' = [session EXCEPT ![x] = NoSession]
      BY <2>4 DEF ClientApply
    <3>2. Sent
      BY <1>c, <3>1
    <3> QED
      BY <1>0, <2>1, <3>1, <3>2, AppliedStep
  <2>5. ASSUME NEW now \in Wall, ClientApplyFails(x, now)
        PROVE  StepGoal
    <3>1. /\ ApplyFailed(d, s.reply, s.downloads, now)
              \/ ApplyInterrupted(d, s.reply, s.downloads, now)
          /\ session' = [session EXCEPT ![x] = NoSession]
      BY <2>5 DEF ClientApplyFails
    <3>2. Sent
      BY <1>c, <3>1
    <3>3. manifest' = manifest /\ \A e \in Device : ClockLeq(clock[e], clock'[e])
      BY <1>0, <2>1, <3>1, ApplyFailsType
    <3> QED
      BY <1>0, <3>2, <3>3, NoManifestStep
  <2>6. ASSUME NEW now \in Wall, NEW cut \in BOOLEAN, Unchanged(x, now, cut)
        PROVE  StepGoal
    <3>1. Sent
      BY <1>c, <2>6 DEF Unchanged
    <3>2. \/ UNCHANGED <<manifest, clock>>
          \/ CompleteAndScan(d, disk[d], manifest[d], clock[d], unscanned[d], now, cut)
      BY <2>6 DEF Unchanged
    <3>3. CASE CompleteAndScan(d, disk[d], manifest[d], clock[d], unscanned[d], now, cut)
      <4> DEFINE m == manifest[d]
                 c == clock[d]
                 dk == disk[d]
                 u == unscanned[d]
      <4>1. /\ m \in Manifests /\ c \in Clock /\ dk \in Disk /\ m \in Copies
            /\ ClockLeq(clock[d], c) /\ Bounded(m, c) /\ Advances(manifest[d], m)
        BY <1>a, <1>f, <2>1
      <4>2. CompleteAndScan(d, dk, m, c, u, now, cut)
        BY <3>3
      <4> HIDE DEF m, c, dk, u
      <4>3. Copies \subseteq Copies /\ now \in Nat /\ Empty \in Transit \cup {Empty}
        OBVIOUS
      <4>4. Mixes(manifest[d], Empty, m)
        BY DEF Mixes, m
      <4> QED
        BY <1>0, <1>a, <1>f, <2>1, <3>1, <4>1, <4>2, <4>3, <4>4, CompletingStep
    <3> QED
      BY <1>e, <3>1, <3>2, <3>3
  <2>7. ASSUME NEW now \in Wall, NEW later \in Wall, NEW cut \in BOOLEAN,
               ClientJoins(x, now, later, cut)
        PROVE  StepGoal
    <3> DEFINE taken == Taken(disk[d], manifest[d], s.reply, s.downloads)
               N == Candidate(disk[d], manifest[d], s.reply, s.downloads)
               dk == DiskAfter(disk[d], s.reply, taken, DirectorySteps(s.reply, taken))
               u == unscanned[d] \ taken
               S == Copies \cup {N}
    <3>1. PICK k \in AppliedClocks(clock[d], manifest[d], N, now) :
            CompleteAndScan(d, dk, N, k, u, later, cut)
      BY <2>7 DEF ClientJoins
    <3>2. dk \in Disk
      BY <1>f, <2>1, DiskAfterType
    <3>3. /\ N \in Manifests /\ k \in Clock /\ ClockLeq(clock[d], k)
          /\ Identified(S) /\ Authored(S, clock)
          /\ Bounded(N, k) /\ Advances(manifest[d], N) /\ Mixes(manifest[d], s.reply, N)
      BY <1>a, <2>1, <3>1, ApplyAdvances
    <3>4. Sent
      BY <1>c, <2>7 DEF ClientJoins
    <3> HIDE DEF N, dk, u
    <3>5. /\ S \in SUBSET Manifests /\ Copies \subseteq S /\ N \in S
          /\ s.reply \in Transit \cup {Empty}
      BY <1>a, <2>1, <3>3
    <3> HIDE DEF S
    <3> QED
      BY <1>0, <2>1, <3>1, <3>2, <3>3, <3>4, <3>5, CompletingStep
  <2> QED
    BY <1>6, <2>2, <2>3, <2>4, <2>5, <2>6, <2>7 DEF ClientStep
<1>7. ASSUME NEW x \in Session, TransferFails(x) \/ HangUp(x) \/ Drop(x)
      PROVE  StepGoal
  <2>1. CASE TransferFails(x) \/ HangUp(x)
    BY <1>c, <1>e, <2>1 DEF TransferFails, HangUp
  <2>2. CASE Drop(x)
    <3>1. session[x] \in ActiveSession
      BY <1>0, <2>2, RunningSession DEF Drop
    <3>2. \E t \in ActiveSession : Put(x, t) /\ t.out \in Transit /\ t.reply \in Transit
      BY <1>a, <2>2, <3>1, SMTT(30) DEF Drop, ActiveSession, ClientPc, ServerPc
    <3> QED
      BY <1>d, <1>e, <2>2, <3>2 DEF Drop
  <2> QED
    BY <1>7, <2>1, <2>2
<1>8. ASSUME NEW d \in Device, Crash(d)
      PROVE  StepGoal
  <2>1. Sent
    BY <1>0, <1>8, <1>a, CrashType DEF Sent, Transit
  <2> QED
    BY <1>8, <1>e, <2>1 DEF Crash
<1>9. CASE UNCHANGED vars
  BY <1>9, <1>b, <1>e DEF vars
<1> QED
  BY <1>1, <1>2, <1>3, <1>4, <1>5, <1>6, <1>7, <1>8, <1>9 DEF Next

LEMMA VersionsInvariant == Spec => []VersionInv
<1>1. VersionInv /\ [Next]_vars => VersionInv'
  BY VersionStep DEF StepGoal
<1> QED
  BY <1>1, VersionInit, PTL DEF Spec

\* A version names one record of one path, on every device and in every session:
\* scan_and_save never gives a version out twice, whatever is cut short or
\* restarted and however the wall clock is set.
THEOREM VersionsIdentify == Spec => []VersionIdentity
BY VersionsInvariant, PTL DEF VersionInv

\* No record is later than the saved clock of the device that made it, although
\* the clock is saved before the manifest and either save may be the last.
THEOREM AuthorsBound == Spec => []AuthorBound
BY VersionsInvariant, PTL DEF VersionInv

\* The saved clock of a device is not behind any file, directory or tombstone of
\* its manifest: apply_remote_transfer_impl saves the observed clock first.
THEOREM ReplicasBound == Spec => []ReplicaBound
BY VersionsInvariant, PTL DEF VersionInv

\* The record of a file, a directory or a deletion is only ever replaced by a
\* later one, in every scan, apply and initial sync.
THEOREM VersionsOnlyAdvance == Spec => VersionsAdvance
<1>1. VersionInv /\ [Next]_vars =>
        [\A d \in Device : \A p \in Path :
           \/ manifest[d][p].node.kind \in {"none", "link"}
           \/ manifest'[d][p] = manifest[d][p]
           \/ VersionLess(manifest[d][p].version, manifest'[d][p].version)]_vars
  BY VersionStep DEF StepGoal, Advances
<1> QED
  BY <1>1, VersionsInvariant, PTL DEF Spec, VersionsAdvance

\* The owner's first scan makes records of its own; the other devices have none.
LEMMA ReplicasInit == Init => Abstract!Init
<1> SUFFICES ASSUME Init PROVE Abstract!Init
  OBVIOUS
<1>1. /\ disk[Owner] \in Disk /\ Owner \in Device
      /\ Empty \in Manifests /\ NewClock \in Clock
  BY TypeInit, OwnerAssumption, EmptyType, MaxCounterAssumption, SMTT(30) DEF TypeOK, Disk, NewClock, Clock
<1>2. PICK now \in Wall :
        /\ ScanSucceeds(Empty, disk[Owner], NewClock, Owner, now)
        /\ manifest = [d \in Device |->
             IF d = Owner THEN scan_manifest(Empty, disk[d], NewClock, d, now) ELSE Empty]
  BY DEF Init
<1> DEFINE N == scan_manifest(Empty, disk[Owner], NewClock, Owner, now)
           new == Changed(Empty, disk[Owner])
           S == {}
           clk == [d \in Device |-> NewClock]
<1>3. /\ S \in SUBSET Manifests /\ clk \in [Device -> Clock] /\ Authored(S, clk)
      /\ ClockLeq(clk[Owner], NewClock) /\ now \in Nat
      /\ ScannedClock(Empty, disk[Owner], NewClock, now).last_counter <= MaxCounter
  BY <1>1, <1>2, WallType, SMTT(30) DEF Authored, ScanSucceeds, ClockLeq, NewClock
<1> HIDE DEF S, clk
<1>4. \A p \in new : Fresh(S, Owner, N[p])
  BY <1>1, <1>3, ScannedFresh
<1>5. /\ \A p \in Path \ new : N[p] = NoRecord
      /\ \A p, q \in new : N[p].version = N[q].version => p = q
  BY <1>1, <1>3, ScanVersions, SMTT(30) DEF Empty
<1>6. manifest = [d \in Device |-> IF d = Owner THEN N ELSE Empty]
  BY <1>2
<1> HIDE DEF N, new
<1>7. \A p, q \in Path : N[p] # NoRecord =>
        /\ N[p] \in Record /\ N[p].version.author = Owner
        /\ N[q] # NoRecord /\ N[p].version = N[q].version => p = q
  BY <1>4, <1>5 DEF Fresh
<1>8. \A p \in Path : Empty[p] = NoRecord
  BY DEF Empty
<1>9. Transit \subseteq {Empty} /\ Empty = Abstract!Blank
  BY DEF Transit, Init, NoSession, Empty, Abstract!Blank
<1>10. \A e \in Device \ {Owner} : manifest[e] = Abstract!Blank
  BY <1>6, <1>9
<1>11. \A d \in Device : \A p, q \in Path :
         manifest[d][p] # NoRecord =>
           /\ manifest[d][p] \in Record /\ manifest[d][p].version.author = d
           /\ manifest[d][q] # NoRecord /\ manifest[d][p].version = manifest[d][q].version => p = q
  BY <1>6, <1>7, <1>8
<1> QED
  BY <1>1, <1>9, <1>10, <1>11 DEF Abstract!Init

\* ShareSync implements Replicas: whatever is edited, scanned, exchanged, cut short
\* or restarted, the manifests are replicas of a last-writer-wins map.
THEOREM ReplicasImplemented == Spec => ImplementsReplicas
<1>1. VersionInv /\ [Next]_vars => [Abstract!Next]_(Abstract!vars)
  BY VersionStep DEF StepGoal
<1> QED
  BY <1>1, ReplicasInit, VersionsInvariant, PTL DEF Spec, ImplementsReplicas, Abstract!Spec

\* Versions are totally ordered.
LEMMA VersionOrder ==
  ASSUME NEW v \in Version, NEW w \in Version
  PROVE  /\ ~VersionLess(v, v)
         /\ v # w => (VersionLess(v, w) <=> ~VersionLess(w, v))
<1>1. \A u \in Version : u.wall_ms \in Int /\ u.counter \in Int /\ u.author \in Int
  <2>1. \A u \in Version : u.wall_ms \in Nat /\ u.counter \in 0..MaxCounter /\ u.author \in Device
    BY DEF Version
  <2>2. \A i \in 0..MaxCounter : i \in Int
    BY SMTT(30)
  <2>3. \A d \in Device : d \in Int
    BY DeviceAssumption, SMTT(30)
  <2> QED
    BY <2>1, <2>2, <2>3, SMTT(30)
<1>2. v # w => v.wall_ms # w.wall_ms \/ v.counter # w.counter \/ v.author # w.author
  BY SMTT(30) DEF Version
<1> QED
  BY <1>1, <1>2, SMTT(30) DEF VersionLess

\* The client's request (select_record) and the server's apply
\* (remote_record_wins) choose the same record of every path, whichever of the
\* two manifests each of them calls its own.
THEOREM SidesAgree == Spec => []BothSidesAgree
<1>1. ASSUME NEW a \in Record \cup {NoRecord}, NEW b \in Record \cup {NoRecord},
             a # NoRecord /\ b # NoRecord /\ a.version = b.version => a = b
      PROVE  /\ select_record(a, b) = select_record(b, a)
             /\ remote_record_wins(a, b) <=> b # NoRecord /\ select_record(a, b) = b /\ b # a
  <2>1. CASE a = NoRecord \/ b = NoRecord
    BY <2>1 DEF select_record, remote_record_wins
  <2>2. CASE a # NoRecord /\ b # NoRecord /\ a.version = b.version
    <3>1. a = b /\ a.version \in Version
      BY <1>1, <2>2 DEF Record
    <3>2. ~VersionLess(a.version, a.version)
      BY <3>1, VersionOrder
    <3>3. select_record(a, a) = a /\ ~remote_record_wins(a, a)
      BY <2>2, <3>2 DEF select_record, remote_record_wins
    <3> QED
      BY <3>1, <3>3
  <2>3. CASE a # NoRecord /\ b # NoRecord /\ a.version # b.version
    <3>1. a.version \in Version /\ b.version \in Version
      BY <2>3 DEF Record
    <3>2. VersionLess(a.version, b.version) <=> ~VersionLess(b.version, a.version)
      BY <2>3, <3>1, VersionOrder
    <3>3. CASE VersionLess(a.version, b.version)
      BY <2>3, <3>2, <3>3 DEF select_record, remote_record_wins
    <3>4. CASE VersionLess(b.version, a.version)
      BY <2>3, <3>2, <3>4 DEF select_record, remote_record_wins
    <3> QED
      BY <3>2, <3>3, <3>4
  <2> QED
    BY <2>1, <2>2, <2>3
<1>2. VersionInv => BothSidesAgree
  <2>1. SUFFICES ASSUME VersionInv, NEW m \in Copies, NEW n \in Copies, NEW p \in Path
        PROVE  /\ select_record(m[p], n[p]) = select_record(n[p], m[p])
               /\ remote_record_wins(m[p], n[p])
                    <=> n[p] # NoRecord /\ select_record(m[p], n[p]) = n[p] /\ n[p] # m[p]
    BY DEF BothSidesAgree, merge_manifests
  <2>2. m[p] \in Record \cup {NoRecord} /\ n[p] \in Record \cup {NoRecord}
    BY <2>1, CopiesType DEF VersionInv, Manifests
  <2>3. m[p] # NoRecord /\ n[p] # NoRecord /\ m[p].version = n[p].version => m[p] = n[p]
    BY <2>1, SMTT(30) DEF VersionInv, VersionIdentity, Identified
  <2> QED
    BY <1>1, <2>2, <2>3
<1> QED
  BY <1>2, VersionsInvariant, PTL
=============================================================================
