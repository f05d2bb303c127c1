----------------------------- MODULE PeerProofs -----------------------------
(***************************************************************************)
(* TypeOK, SessionsBounded, ConfirmedWasOffered, RetriesReachEveryPeer and *)
(* SynchronizedMeansQuiet, proved for all peers, limits and intervals, and *)
(* any number of saves, changes of connectivity and failures.              *)
(***************************************************************************)
EXTENDS PeerSessions, FiniteSetTheorems, TLAPS

\* Zenon proves a leaf unless the leaf cites SMT.
USE ZenonT(60)

\* The fields of a schedule; when its instant comes does not matter here.
Shaped(sch) ==
  /\ DOMAIN sch = {"next_at", "last_attempted_generation", "failures", "last_outcome"}
  /\ sch.last_attempted_generation \in Nat

Task == [pc : {"idle", "queued", "loaded", "dialing", "exchanging", "ended"},
         generation : Nat, network_generation : Nat]

PeerTypes ==
  /\ manifest_generation \in Nat /\ network_generation \in Nat /\ known \subseteq Peer
  /\ schedule = [p \in Peer |-> schedule[p]] /\ \A p \in Peer : Shaped(schedule[p])
  /\ task \in [Peer -> Task]
  /\ offered \in [Peer -> Nat] /\ dialed \in [Peer -> Nat]

\* What a peer was offered, and what its session takes it to be offered, is no
\* newer than the manifest, and the second no newer than the first.
Offers ==
  \A p \in Peer :
    /\ offered[p] <= manifest_generation /\ task[p].generation <= manifest_generation
    /\ task[p].pc = "exchanging" => task[p].generation <= offered[p]

\* A worker that has left its loop has closed the endpoint.
LeftClosed == worker \in {"draining", "stopped"} => closed

\* The inductive invariant.
PeerInv ==
  /\ PeerTypes /\ Offers /\ LeftClosed
  /\ SessionsBounded /\ ConfirmedWasOffered /\ RetriesReachEveryPeer /\ SynchronizedMeansQuiet

-----------------------------------------------------------------------------
(* Operators                                                               *)

LEMMA TasksFinite == IsFiniteSet(Tasks) /\ Cardinality(Tasks) \in Nat
<1>1. Tasks \in SUBSET Peer
  BY DEF Tasks
<1>2. IsFiniteSet(Tasks)
  BY <1>1, FS_Subset, PeerAssumption
<1> QED
  BY <1>2, FS_CardinalityType

\* Fewer sessions are no more than the limit.
LEMMA FewerTasks ==
  ASSUME SessionsBounded, Tasks' \subseteq Tasks
  PROVE  SessionsBounded'
<1>1. Tasks' \in SUBSET Tasks
  OBVIOUS
<1>2. IsFiniteSet(Tasks') /\ Cardinality(Tasks') <= Cardinality(Tasks)
  BY <1>1, TasksFinite, FS_Subset
<1>3. Cardinality(Tasks') \in Nat /\ Cardinality(Tasks) \in Nat
  BY <1>2, TasksFinite, FS_CardinalityType
<1> QED
  BY <1>2, <1>3, LimitsAssumption, SMTT(30) DEF SessionsBounded

\* The sessions that a fill adds fit into the limit.
LEMMA RoomForSelected ==
  ASSUME SessionsBounded,
         NEW S \in select_due_peers(known \ Tasks, Greater(MaxConcurrentPeers - InFlight(Tasks), 0)),
         S \subseteq Peer
  PROVE  Cardinality(Tasks \cup S) <= MaxConcurrentPeers
<1> DEFINE room == MaxConcurrentPeers - Cardinality(Tasks)
           ready == {p \in known \ Tasks : due(schedule[p])}
<1>1. S \in SUBSET Peer /\ S \in SUBSET ready
  BY DEF select_due_peers
<1>2. IsFiniteSet(S) /\ Cardinality(S) \in Nat
  BY <1>1, FS_Subset, FS_CardinalityType, PeerAssumption
<1>3. Cardinality(Tasks) \in Nat /\ Cardinality(Tasks) <= MaxConcurrentPeers
  BY TasksFinite DEF SessionsBounded
<1>4. room \in Nat
  BY <1>3, LimitsAssumption, SMTT(30)
<1>5. Cardinality(S) <= room
  <2>1. Greater(MaxConcurrentPeers - InFlight(Tasks), 0) = room
    BY <1>4, LimitsAssumption, SMTT(30) DEF Greater, InFlight
  <2>2. Cardinality(S) = Smaller(Cardinality(ready), Smaller(MaxSelected, room))
    BY <2>1 DEF select_due_peers
  <2> HIDE DEF room, ready
  <2>3. MaxSelected \in Nat
    BY LimitsAssumption
  <2>4. Smaller(MaxSelected, room) \in Nat /\ Smaller(MaxSelected, room) <= room
    BY <1>4, <2>3, SMTT(30) DEF Smaller
  <2>5. CASE Cardinality(ready) < Smaller(MaxSelected, room)
    BY <1>2, <1>4, <2>2, <2>4, <2>5, SMTT(30) DEF Smaller
  <2>6. CASE ~(Cardinality(ready) < Smaller(MaxSelected, room))
    BY <1>2, <1>4, <2>2, <2>4, <2>6 DEF Smaller
  <2> QED
    BY <2>5, <2>6
<1>6. /\ Cardinality(Tasks \cup S)
           = Cardinality(Tasks) + Cardinality(S) - Cardinality(Tasks \cap S)
      /\ Cardinality(Tasks \cap S) \in Nat
  <2>1. Tasks \cap S \in SUBSET S
    OBVIOUS
  <2>2. IsFiniteSet(Tasks \cap S)
    BY <1>2, <2>1, FS_Subset
  <2> QED
    BY <1>2, <2>2, TasksFinite, FS_Union, FS_CardinalityType
<1> QED
  BY <1>2, <1>3, <1>5, <1>6, LimitsAssumption, SMTT(30)

\* What Synchronized takes.
LEMMA Synchronized ==
  ASSUME NEW schedules, NEW generation, NEW T \in SUBSET Peer,
         Health(schedules, generation, InFlight(T)) = "synchronized"
  PROVE  T = {} /\ \A p \in Peer : schedules[p].last_outcome # "pending"
<1>1. IsFiniteSet(T)
  BY FS_Subset, PeerAssumption
<1>2. Cardinality(T) = 0
  BY DEF Health, InFlight
<1>3. {schedules[p].last_outcome : p \in Peer} \ {NoOutcome} = {"done"}
  BY DEF Health
<1>4. \A p \in Peer : schedules[p].last_outcome # "pending"
  BY <1>3 DEF NoOutcome
<1> QED
  BY <1>1, <1>2, <1>4, FS_EmptySet

-----------------------------------------------------------------------------
(* Types                                                                   *)

Schedule == [next_at : NotSet..IdlePeerInterval, last_attempted_generation : Nat,
             failures : 0..3, last_outcome : Outcome]

LEMMA NotSetType ==
  Cardinality(Peer) \in Nat /\ NotSet \in Int /\ NotSet < 0 /\ IdlePeerInterval \in Nat
<1>1. Cardinality(Peer) \in Nat
  BY PeerAssumption, FS_CardinalityType
<1> QED
  BY <1>1, IntervalsAssumption, SMTT(30) DEF NotSet

LEMMA DelaysType ==
  ASSUME NEW sch, NEW outcome, NEW delay \in Delays(sch, outcome)
  PROVE  delay \in NotSet..IdlePeerInterval
<1> DEFINE factor == Shifted(sch.failures)
<1>1. factor \in Nat
  BY DEF Shifted
<1>2. SyncInterval \in Nat /\ IdlePeerInterval \in Nat /\ SyncInterval <= IdlePeerInterval
  BY IntervalsAssumption
<1> HIDE DEF factor
<1>3. SyncInterval * factor \in Nat
  BY <1>1, <1>2, SMTT(30)
<1>4. ASSUME NEW jitter \in 0..1
      PROVE  Smaller(SyncInterval * factor + jitter, IdlePeerInterval) \in 0..IdlePeerInterval
  BY <1>2, <1>3, SMTT(30) DEF Smaller
<1>5. CASE outcome = "done"
  BY <1>2, <1>5, NotSetType, SMTT(30) DEF Delays
<1>6. CASE outcome = "pending"
  BY <1>2, <1>6, NotSetType, SMTT(30) DEF Delays
<1>7. CASE outcome \notin {"done", "pending"}
  <2>1. PICK jitter \in 0..1 : delay = Smaller(SyncInterval * factor + jitter, IdlePeerInterval)
    BY <1>7 DEF Delays, factor
  <2> QED
    BY <1>2, <1>4, <2>1, NotSetType, SMTT(30)
<1> QED
  BY <1>5, <1>6, <1>7

LEMMA RetryNowType == ASSUME NEW sch \in Schedule PROVE retry_now(sch) \in Schedule
<1>1. NotSet \in NotSet..IdlePeerInterval /\ 0 \in 0..3
  BY NotSetType, SMTT(30)
<1> QED
  BY <1>1 DEF retry_now, Schedule

LEMMA AfterAttemptType ==
  ASSUME NEW sch \in Schedule, NEW g \in Nat, NEW outcome \in Outcome,
         NEW delay \in Delays(sch, outcome)
  PROVE  after_attempt(sch, g, outcome, delay) \in Schedule
<1>1. sch.failures \in 0..3
  BY DEF Schedule
<1>2. Smaller(sch.failures + 1, 3) \in 0..3 /\ 0 \in 0..3
  BY <1>1, SMTT(30) DEF Smaller
<1>3. delay \in NotSet..IdlePeerInterval
  BY DelaysType
<1> QED
  BY <1>2, <1>3 DEF after_attempt, Schedule

\* Instants that have passed are fewer than there are peers.
LEMMA LaterType == ASSUME NEW sch \in [Peer -> Schedule] PROVE Later(sch) \in [Peer -> Schedule]
<1> DEFINE at == [p \in Peer |-> sch[p].next_at]
           D == {q \in Peer : at[q] # NotSet /\ at[q] <= 1}
           passed == {at[p] : p \in D}
           after(i) == {j \in passed : j > i}
           new(i) == IF i = NotSet THEN i ELSE IF i > 1 THEN i - 1 ELSE -Cardinality(after(i))
<1>1. Later(sch) = [p \in Peer |-> [sch[p] EXCEPT !.next_at = new(sch[p].next_at)]]
  BY DEF Later
<1>2. IsFiniteSet(passed) /\ Cardinality(passed) <= Cardinality(Peer)
  <2>1. IsFiniteSet(D) /\ Cardinality(D) <= Cardinality(Peer)
    <3>1. D \in SUBSET Peer
      OBVIOUS
    <3> HIDE DEF D
    <3> QED
      BY <3>1, PeerAssumption, FS_Subset
  <2>2. [p \in D |-> at[p]] \in Surjection(D, passed)
    <3> HIDE DEF D, at
    <3> QED
      BY DEF Surjection
  <2> HIDE DEF D, passed
  <2>3. IsFiniteSet(passed) /\ Cardinality(passed) <= Cardinality(D)
    BY <2>1, <2>2, FS_Surjection
  <2>4. Cardinality(D) \in Nat /\ Cardinality(passed) \in Nat
    BY <2>1, <2>3, FS_CardinalityType
  <2> QED
    BY <2>1, <2>3, <2>4, NotSetType, SMTT(30)
<1>3. ASSUME NEW i PROVE Cardinality(after(i)) \in Nat /\ Cardinality(after(i)) <= Cardinality(Peer)
  <2>1. after(i) \in SUBSET passed
    OBVIOUS
  <2> HIDE DEF after, passed
  <2>2. IsFiniteSet(after(i)) /\ Cardinality(after(i)) <= Cardinality(passed)
    BY <1>2, <2>1, FS_Subset
  <2>3. Cardinality(after(i)) \in Nat /\ Cardinality(passed) \in Nat
    BY <1>2, <2>2, FS_CardinalityType
  <2> QED
    BY <1>2, <2>2, <2>3, NotSetType, SMTT(30)
<1> HIDE DEF after
<1>4. ASSUME NEW i \in NotSet..IdlePeerInterval PROVE new(i) \in NotSet..IdlePeerInterval
  <2>1. i \in Int /\ NotSet \in Int /\ IdlePeerInterval \in Nat /\ NotSet <= i /\ i <= IdlePeerInterval
    BY NotSetType, SMTT(30)
  <2>2. CASE i = NotSet
    BY <2>1, <2>2
  <2>3. CASE i # NotSet /\ i > 1
    BY <2>1, <2>3, NotSetType, SMTT(30)
  <2>4. CASE i # NotSet /\ ~(i > 1)
    <3>1. new(i) = -Cardinality(after(i))
      BY <2>4
    <3> HIDE DEF new
    <3>2. NotSet = -1 - Cardinality(Peer)
      BY DEF NotSet
    <3> QED
      BY <1>3, <2>1, <3>1, <3>2, NotSetType, SMTT(30)
  <2> QED
    BY <2>2, <2>3, <2>4
<1> HIDE DEF new
<1>5. ASSUME NEW p \in Peer PROVE [sch[p] EXCEPT !.next_at = new(sch[p].next_at)] \in Schedule
  <2>1. sch[p] \in Schedule /\ sch[p].next_at \in NotSet..IdlePeerInterval
    BY DEF Schedule
  <2>2. new(sch[p].next_at) \in NotSet..IdlePeerInterval
    BY <1>4, <2>1
  <2> QED
    BY <2>1, <2>2 DEF Schedule
<1> QED
  BY <1>1, <1>5

LEMMA TypeInit == Init => TypeOK
<1> SUFFICES ASSUME Init PROVE TypeOK
  OBVIOUS
<1>1. NotSet \in NotSet..IdlePeerInterval /\ 0 \in 0..3
  BY NotSetType, SMTT(30)
<1>2. DefaultSchedule \in Schedule /\ NoTask \in Task
  BY <1>1 DEF DefaultSchedule, Schedule, NoTask, Task, Outcome
<1>3. schedule \in [Peer -> Schedule] /\ task \in [Peer -> Task]
  BY <1>2 DEF Init
<1> QED
  BY <1>3 DEF Init, TypeOK, Schedule, Task

LEMMA HealthType ==
  ASSUME NEW schedules, NEW generation, NEW in_flight
  PROVE  Health(schedules, generation, in_flight) \in {"unknown", "offline", "pending", "synchronized"}
BY DEF Health

\* The step of the worker that ends with a status.
LEMMA RefreshType ==
  ASSUME TypeOK, NEW n, NEW next \in {"waiting", "awake"}, Refresh(n, next)
  PROVE  /\ worker' \in {"waiting", "awake", "draining"} /\ closed' \in BOOLEAN /\ faults' \in Nat
         /\ health' \in {"unknown", "offline", "pending", "synchronized"}
<1>1. CASE WorkerFails
  BY <1>1, SMTT(30) DEF TypeOK, WorkerFails
<1>2. CASE /\ health' = Health(schedule, manifest_generation, n) /\ worker' = next
           /\ UNCHANGED <<closed, faults>>
  BY <1>2, HealthType DEF TypeOK
<1> QED
  BY <1>1, <1>2 DEF Refresh

LEMMA TypeStep == TypeOK /\ [Next]_vars => TypeOK'
<1> SUFFICES ASSUME TypeOK, [Next]_vars PROVE TypeOK'
  OBVIOUS
<1>0. /\ schedule \in [Peer -> Schedule] /\ task \in [Peer -> Task] /\ NoTask \in Task
      /\ [NoTask EXCEPT !.pc = "queued"] \in Task /\ [NoTask EXCEPT !.pc = "ended"] \in Task
  BY DEF TypeOK, Schedule, Task, NoTask
<1>1. ASSUME NEW p \in Peer, Finish(p) PROVE TypeOK'
  <2>1. Refresh(InFlight(Tasks \ {p}), "awake") /\ UNCHANGED <<schedule, offered, dialed, shareVars>>
    BY <1>1 DEF Finish
  <2>2. task' \in [Peer -> Task]
    BY <1>0, <1>1 DEF Finish
  <2> QED
    BY <2>1, <2>2, RefreshType DEF TypeOK, Task, shareVars
<1>2. ASSUME NEW p \in Peer, Drain(p) PROVE TypeOK'
  <2>1. task' \in [Peer -> Task]
    BY <1>0, <1>2 DEF Drain
  <2> QED
    BY <1>2, <2>1, HealthType, SMTT(30) DEF Drain, TypeOK, Task, shareVars
<1>3. CASE Wake \/ Scan \/ FillFails \/ Leave \/ Stop \/ RetryPeers \/ Save \/ Close
  <2>1. CASE Wake \/ Leave \/ Stop
    BY <2>1 DEF Wake, Leave, Stop, TypeOK, shareVars, peerVars
  <2>2. CASE Scan
    BY <2>2, SMTT(30) DEF Scan, TypeOK, peerVars
  <2>3. CASE FillFails \/ Close
    <3>1. worker' \in {"waiting", "awake", "fill", "draining", "stopped"} /\ faults' \in Nat
      BY <2>3, SMTT(30) DEF FillFails, WorkerFails, Close, TypeOK
    <3>2. closed' = TRUE /\ UNCHANGED <<health, shareVars, peerVars>>
      BY <2>3 DEF FillFails, WorkerFails, Close
    <3>3. closed' \in BOOLEAN
      BY <3>2
    <3> QED
      BY <3>1, <3>2, <3>3 DEF TypeOK, shareVars, peerVars
  <2>4. CASE RetryPeers \/ Save
    <3>1. manifest_generation' \in Nat /\ network_generation' \in Nat
      BY <2>4, SMTT(30) DEF RetryPeers, Save, TypeOK
    <3>2. UNCHANGED <<worker, closed, health, faults, known, peerVars>>
      BY <2>4 DEF RetryPeers, Save
    <3>3. retrying' \in BOOLEAN
      BY <2>4 DEF RetryPeers, Save, TypeOK
    <3> QED
      BY <3>1, <3>2, <3>3 DEF TypeOK, peerVars
  <2> QED
    BY <1>3, <2>1, <2>2, <2>3, <2>4
<1>4. ASSUME NEW p \in Peer, Learn(p) PROVE TypeOK'
  BY <1>4 DEF Learn, TypeOK, peerVars
<1>5. CASE Fill
  <2>1. PICK S : /\ task' = [p \in Peer |-> IF p \in S THEN [NoTask EXCEPT !.pc = "queued"] ELSE task[p]]
                 /\ Refresh(InFlight(Tasks \cup S), "waiting")
    BY <1>5 DEF Fill
  <2>2. UNCHANGED <<schedule, offered, dialed, shareVars>>
    BY <1>5 DEF Fill
  <2>3. task' \in [Peer -> Task]
    BY <1>0, <2>1
  <2> QED
    BY <2>1, <2>2, <2>3, RefreshType DEF TypeOK, Task, shareVars
<1>6. ASSUME NEW p \in Peer, Start(p) \/ LoadNetwork(p) \/ Offer(p) PROVE TypeOK'
  <2>1. UNCHANGED <<schedule, dialed, restVars>> /\ offered' \in [Peer -> Nat]
    BY <1>6, SMTT(30) DEF Start, LoadNetwork, Offer, TypeOK
  <2>2. task' \in [Peer -> Task]
    <3>1. CASE Start(p)
      <4>1. [NoTask EXCEPT !.pc = "loaded", !.generation = manifest_generation] \in Task
        BY DEF TypeOK, NoTask, Task
      <4> QED
        BY <1>0, <3>1, <4>1 DEF Start
    <3>2. CASE LoadNetwork(p)
      BY <1>0, <3>2 DEF LoadNetwork, TypeOK, Task
    <3>3. CASE Offer(p)
      BY <1>0, <3>3 DEF Offer, Task
    <3> QED
      BY <1>6, <3>1, <3>2, <3>3
  <2> QED
    BY <2>1, <2>2 DEF TypeOK, Task, restVars, shareVars
<1>7. ASSUME NEW p \in Peer, NEW outcome \in Outcome, End(p, outcome) PROVE TypeOK'
  <2>1. PICK delay \in Delays(schedule[p], outcome) : record_peer_attempt(p, outcome, delay)
    BY <1>7 DEF End
  <2>2. schedule[p] \in Schedule /\ task[p].generation \in Nat /\ task[p].network_generation \in Nat
    BY <1>0 DEF Task
  <2> DEFINE after == after_attempt(schedule[p], task[p].generation, outcome, delay)
             r == IF network_generation # task[p].network_generation THEN retry_now(after) ELSE after
  <2>3. after \in Schedule
    BY <2>2, AfterAttemptType
  <2> HIDE DEF after
  <2>4. r \in Schedule
    BY <2>3, RetryNowType
  <2>5. schedule' = [schedule EXCEPT ![p] = r]
    BY <2>1 DEF record_peer_attempt, after
  <2> HIDE DEF r
  <2>6. schedule' \in [Peer -> Schedule]
    BY <1>0, <2>4, <2>5
  <2>7. task' \in [Peer -> Task] /\ dialed' \in [Peer -> Nat] /\ UNCHANGED <<offered, restVars>>
    BY <1>0, <1>7, <2>2 DEF End, TypeOK
  <2> QED
    BY <2>6, <2>7 DEF TypeOK, Schedule, Task, restVars, shareVars
<1>8. CASE ResetSchedules
  <2>1. schedule' \in [Peer -> Schedule]
    BY <1>0, <1>8, RetryNowType DEF ResetSchedules
  <2> QED
    BY <1>8, <2>1 DEF ResetSchedules, TypeOK, Schedule
<1>9. CASE Tick
  <2>1. schedule' \in [Peer -> Schedule]
    BY <1>0, <1>9, LaterType DEF Tick
  <2> QED
    BY <1>9, <2>1 DEF Tick, TypeOK, Schedule, shareVars
<1>10. CASE UNCHANGED vars
  BY <1>10 DEF vars, shareVars, peerVars, TypeOK
<1> QED
  BY <1>1, <1>2, <1>3, <1>4, <1>5, <1>6, <1>7, <1>8, <1>9, <1>10 DEF Next, WorkerStep

\* Every variable keeps its type; in particular the backoff after_attempt computes
\* never passes IDLE_PEER_INTERVAL, and instants that have passed stay apart from
\* a schedule without one.
THEOREM PeersTyped == Spec => []TypeOK
  BY TypeInit, TypeStep, PTL DEF Spec

-----------------------------------------------------------------------------
(* The invariant                                                           *)

LEMMA PeerInit == Init => PeerInv
<1> SUFFICES ASSUME Init PROVE PeerInv
  OBVIOUS
<1>1. PeerTypes /\ Offers
  BY SMTT(30) DEF Init, PeerTypes, Offers, Shaped, DefaultSchedule, Task, NoTask
<1>2. LeftClosed /\ SynchronizedMeansQuiet
  BY DEF Init, LeftClosed, SynchronizedMeansQuiet
<1>3. Tasks = {}
  BY DEF Init, Tasks, NoTask
<1>4. SessionsBounded
  BY <1>3, FS_EmptySet, LimitsAssumption, SMTT(30) DEF SessionsBounded
<1>5. ConfirmedWasOffered /\ RetriesReachEveryPeer
  BY DEF Init, ConfirmedWasOffered, RetriesReachEveryPeer, DefaultSchedule
<1> QED
  BY <1>1, <1>2, <1>4, <1>5 DEF PeerInv

\* Steps that change no session and no schedule.
LEMMA QuietStep ==
  ASSUME PeerInv, UNCHANGED <<task, schedule, offered, dialed>>,
         manifest_generation' \in Nat, manifest_generation <= manifest_generation',
         known' \subseteq Peer, network_generation' \in Nat,
         retrying' \/ (~retrying /\ network_generation' = network_generation),
         health' = health, closed => closed', LeftClosed'
  PROVE  PeerInv'
<1>1. PeerTypes' /\ Offers'
  BY SMTT(30) DEF PeerInv, PeerTypes, Offers, Task
<1>2. Tasks' = Tasks
  BY DEF Tasks
<1>3. SessionsBounded' /\ ConfirmedWasOffered'
  BY <1>2 DEF PeerInv, SessionsBounded, ConfirmedWasOffered
<1>4. RetriesReachEveryPeer'
  BY DEF PeerInv, RetriesReachEveryPeer
<1>5. SynchronizedMeansQuiet'
  BY <1>2 DEF PeerInv, SynchronizedMeansQuiet
<1> QED
  BY <1>1, <1>3, <1>4, <1>5 DEF PeerInv

\* Steps of the worker that join or start sessions.
LEMMA SessionSetStep ==
  ASSUME PeerInv, UNCHANGED <<schedule, offered, dialed, shareVars>>,
         task' \in [Peer -> Task],
         \A p \in Peer : task'[p] = task[p] \/ (task'[p].generation = 0 /\ task'[p].pc # "exchanging"),
         SessionsBounded', LeftClosed', SynchronizedMeansQuiet'
  PROVE  PeerInv'
<1>1. PeerTypes'
  BY DEF PeerInv, PeerTypes, shareVars
<1>2. Offers'
  BY SMTT(30) DEF PeerInv, PeerTypes, Offers, shareVars
<1>3. ConfirmedWasOffered' /\ RetriesReachEveryPeer'
  BY DEF PeerInv, ConfirmedWasOffered, RetriesReachEveryPeer, shareVars
<1> QED
  BY <1>1, <1>2, <1>3 DEF PeerInv

LEMMA Joined ==
  ASSUME PeerInv, NEW p \in Peer, task' = [task EXCEPT ![p] = NoTask]
  PROVE  /\ task' \in [Peer -> Task] /\ Tasks' = Tasks \ {p}
         /\ SessionsBounded'
         /\ \A q \in Peer : task'[q] = task[q] \/ (task'[q].generation = 0 /\ task'[q].pc # "exchanging")
<1>1. task \in [Peer -> Task]
  BY DEF PeerInv, PeerTypes
<1>2. NoTask \in Task /\ NoTask.pc = "idle" /\ NoTask.generation = 0
  BY DEF NoTask, Task
<1>3. \A q \in Peer : task'[q] = IF q = p THEN NoTask ELSE task[q]
  BY <1>1
<1>4. Tasks' = Tasks \ {p}
  BY <1>2, <1>3 DEF Tasks
<1>5. SessionsBounded'
  BY <1>4, FewerTasks DEF PeerInv
<1> QED
  BY <1>1, <1>2, <1>3, <1>4, <1>5

LEMMA FinishStep == ASSUME PeerInv, NEW p \in Peer, Finish(p) PROVE PeerInv'
<1>1. task' = [task EXCEPT ![p] = NoTask] /\ UNCHANGED <<schedule, offered, dialed, shareVars>>
  BY DEF Finish
<1>2. LeftClosed'
  BY DEF Finish, Refresh, WorkerFails, LeftClosed
<1>3. Tasks' = Tasks \ {p} /\ Tasks \ {p} \in SUBSET Peer
  BY <1>1, Joined DEF Tasks
<1>4. SynchronizedMeansQuiet'
  <2>1. CASE health' = Health(schedule, manifest_generation, InFlight(Tasks \ {p}))
    <3>1. health' = "synchronized" =>
            Tasks \ {p} = {} /\ \A q \in Peer : schedule[q].last_outcome # "pending"
      BY <1>3, <2>1, Synchronized
    <3> QED
      BY <1>1, <1>3, <3>1 DEF SynchronizedMeansQuiet
  <2>2. CASE closed'
    BY <2>2 DEF SynchronizedMeansQuiet
  <2> QED
    BY <2>1, <2>2 DEF Finish, Refresh, WorkerFails
<1> QED
  BY <1>1, <1>2, <1>4, Joined, SessionSetStep

LEMMA DrainStep == ASSUME PeerInv, NEW p \in Peer, Drain(p) PROVE PeerInv'
<1>1. task' = [task EXCEPT ![p] = NoTask] /\ UNCHANGED <<schedule, offered, dialed, shareVars>>
  BY DEF Drain
<1>2. LeftClosed' /\ closed'
  BY DEF Drain, LeftClosed, PeerInv
<1>3. SynchronizedMeansQuiet'
  BY <1>2 DEF SynchronizedMeansQuiet
<1> QED
  BY <1>1, <1>2, <1>3, Joined, SessionSetStep

LEMMA FillStep == ASSUME PeerInv, Fill PROVE PeerInv'
<1>1. PICK S \in select_due_peers(known \ Tasks, Greater(MaxConcurrentPeers - InFlight(Tasks), 0)) :
        /\ task' = [p \in Peer |-> IF p \in S THEN [NoTask EXCEPT !.pc = "queued"] ELSE task[p]]
        /\ Refresh(InFlight(Tasks \cup S), "waiting")
  BY DEF Fill
<1>2. S \subseteq Peer
  BY DEF select_due_peers, PeerInv, PeerTypes
<1>3. UNCHANGED <<schedule, offered, dialed, shareVars>>
  BY DEF Fill
<1> DEFINE queued == [NoTask EXCEPT !.pc = "queued"]
<1>4. queued \in Task /\ queued.pc = "queued" /\ queued.generation = 0
  BY DEF NoTask, Task
<1>5. task \in [Peer -> Task]
  BY DEF PeerInv, PeerTypes
<1> HIDE DEF queued
<1>6. \A p \in Peer : task'[p] = IF p \in S THEN queued ELSE task[p]
  BY <1>1 DEF queued
<1>7. task' \in [Peer -> Task]
  BY <1>1, <1>4, <1>5 DEF queued
<1>8. Tasks' = Tasks \cup S
  BY <1>2, <1>4, <1>6 DEF Tasks
<1>9. SessionsBounded'
  BY <1>2, <1>8, RoomForSelected DEF PeerInv, SessionsBounded
<1>10. LeftClosed'
  BY <1>1 DEF Refresh, WorkerFails, LeftClosed
<1>11. SynchronizedMeansQuiet'
  <2>1. CASE health' = Health(schedule, manifest_generation, InFlight(Tasks \cup S))
    <3>1. Tasks \cup S \in SUBSET Peer
      BY <1>2 DEF Tasks
    <3>2. health' = "synchronized" =>
            Tasks \cup S = {} /\ \A q \in Peer : schedule[q].last_outcome # "pending"
      BY <2>1, <3>1, Synchronized
    <3> QED
      BY <1>3, <1>8, <3>2 DEF SynchronizedMeansQuiet
  <2>2. CASE closed'
    BY <2>2 DEF SynchronizedMeansQuiet
  <2> QED
    BY <1>1, <2>1, <2>2 DEF Refresh, WorkerFails
<1> QED
  BY <1>3, <1>4, <1>6, <1>7, <1>9, <1>10, <1>11, SessionSetStep

\* Steps of a session, which stays one until the worker joins it.
LEMMA OneTask ==
  ASSUME PeerInv, NEW p \in Peer, task[p].pc # "idle", NEW t \in Task, t.pc # "idle",
         task' = [task EXCEPT ![p] = t]
  PROVE  /\ task' \in [Peer -> Task] /\ Tasks' = Tasks /\ p \in Tasks
         /\ \A q \in Peer : task'[q] = IF q = p THEN t ELSE task[q]
<1>1. task \in [Peer -> Task]
  BY DEF PeerInv, PeerTypes
<1>2. \A q \in Peer : task'[q] = IF q = p THEN t ELSE task[q]
  BY <1>1
<1> QED
  BY <1>1, <1>2 DEF Tasks

LEMMA BusyStep ==
  ASSUME PeerInv, NEW p \in Tasks, Tasks' = Tasks, UNCHANGED restVars,
         PeerTypes', Offers', ConfirmedWasOffered', RetriesReachEveryPeer'
  PROVE  PeerInv'
<1>1. LeftClosed' /\ SessionsBounded'
  BY DEF PeerInv, restVars, LeftClosed, SessionsBounded
<1>2. SynchronizedMeansQuiet'
  BY DEF PeerInv, restVars, SynchronizedMeansQuiet
<1> QED
  BY <1>1, <1>2 DEF PeerInv

LEMMA StartStep == ASSUME PeerInv, NEW p \in Peer, Start(p) PROVE PeerInv'
<1> DEFINE t == IF closed THEN [NoTask EXCEPT !.pc = "ended"]
                ELSE [NoTask EXCEPT !.pc = "loaded", !.generation = manifest_generation]
<1>1. /\ t \in Task /\ t.pc \in {"ended", "loaded"}
      /\ t.generation = 0 \/ t.generation = manifest_generation
  BY DEF NoTask, Task, PeerInv, PeerTypes
<1>2. task' = [task EXCEPT ![p] = t] /\ task[p].pc = "queued"
  BY DEF Start
<1>3. UNCHANGED <<schedule, offered, dialed, restVars, shareVars>>
  BY DEF Start, restVars
<1> HIDE DEF t
<1>4. /\ task' \in [Peer -> Task] /\ Tasks' = Tasks /\ p \in Tasks
      /\ \A q \in Peer : task'[q] = IF q = p THEN t ELSE task[q]
  BY <1>1, <1>2, OneTask
<1>5. PeerTypes'
  BY <1>3, <1>4 DEF PeerInv, PeerTypes, shareVars
<1>6. Offers'
  BY <1>1, <1>3, <1>4, SMTT(30) DEF PeerInv, PeerTypes, Offers, shareVars
<1>7. ConfirmedWasOffered' /\ RetriesReachEveryPeer'
  BY <1>3 DEF PeerInv, ConfirmedWasOffered, RetriesReachEveryPeer, shareVars
<1> QED
  BY <1>3, <1>4, <1>5, <1>6, <1>7, BusyStep

LEMMA LoadNetworkStep == ASSUME PeerInv, NEW p \in Peer, LoadNetwork(p) PROVE PeerInv'
<1> DEFINE t == [task[p] EXCEPT !.pc = "dialing", !.network_generation = network_generation]
<1>1. task[p] \in Task /\ task \in [Peer -> Task]
  BY DEF PeerInv, PeerTypes
<1>2. t \in Task /\ t.pc = "dialing" /\ t.generation = task[p].generation
  BY <1>1 DEF Task, PeerInv, PeerTypes
<1>3. task' = [task EXCEPT ![p] = t] /\ task[p].pc = "loaded"
  BY <1>1 DEF LoadNetwork
<1>4. UNCHANGED <<schedule, offered, dialed, restVars, shareVars>>
  BY DEF LoadNetwork, restVars
<1> HIDE DEF t
<1>5. /\ task' \in [Peer -> Task] /\ Tasks' = Tasks /\ p \in Tasks
      /\ \A q \in Peer : task'[q] = IF q = p THEN t ELSE task[q]
  BY <1>2, <1>3, OneTask
<1>6. PeerTypes'
  BY <1>4, <1>5 DEF PeerInv, PeerTypes, shareVars
<1>7. Offers'
  BY <1>2, <1>4, <1>5 DEF PeerInv, PeerTypes, Offers, shareVars
<1>8. ConfirmedWasOffered' /\ RetriesReachEveryPeer'
  BY <1>4 DEF PeerInv, ConfirmedWasOffered, RetriesReachEveryPeer, shareVars
<1> QED
  BY <1>4, <1>5, <1>6, <1>7, <1>8, BusyStep

\* The generation read before is no newer than the one that is offered.
LEMMA OfferStep == ASSUME PeerInv, NEW p \in Peer, Offer(p) PROVE PeerInv'
<1> DEFINE t == [task[p] EXCEPT !.pc = "exchanging"]
<1>1. task[p] \in Task /\ task \in [Peer -> Task]
  BY DEF PeerInv, PeerTypes
<1>2. t \in Task /\ t.pc = "exchanging" /\ t.generation = task[p].generation
  BY <1>1 DEF Task
<1>3. task' = [task EXCEPT ![p] = t] /\ task[p].pc = "dialing"
  BY <1>1 DEF Offer
<1>4. /\ UNCHANGED <<schedule, dialed, restVars, shareVars>>
      /\ offered' = [offered EXCEPT ![p] = manifest_generation]
  BY DEF Offer, restVars
<1> HIDE DEF t
<1>5. /\ task' \in [Peer -> Task] /\ Tasks' = Tasks /\ p \in Tasks
      /\ \A q \in Peer : task'[q] = IF q = p THEN t ELSE task[q]
  BY <1>2, <1>3, OneTask
<1>6. PeerTypes'
  BY <1>4, <1>5 DEF PeerInv, PeerTypes, shareVars
<1>7. \A q \in Peer : offered'[q] = IF q = p THEN manifest_generation ELSE offered[q]
  BY <1>4 DEF PeerInv, PeerTypes
<1>8. Offers'
  BY <1>2, <1>4, <1>5, <1>7, SMTT(30) DEF PeerInv, PeerTypes, Offers, shareVars
<1>9. ConfirmedWasOffered'
  BY <1>4, <1>7, SMTT(30) DEF PeerInv, PeerTypes, Shaped, Offers, ConfirmedWasOffered
<1>10. RetriesReachEveryPeer'
  BY <1>4 DEF PeerInv, RetriesReachEveryPeer, shareVars
<1> QED
  BY <1>4, <1>5, <1>6, <1>8, <1>9, <1>10, BusyStep

\* What record_peer_attempt leaves in the schedule of a peer.
LEMMA Recorded ==
  ASSUME PeerInv, NEW p \in Peer, NEW outcome, NEW delay, record_peer_attempt(p, outcome, delay)
  PROVE  /\ schedule' = [q \in Peer |-> schedule'[q]]
         /\ \A q \in Peer \ {p} : schedule'[q] = schedule[q]
         /\ Shaped(schedule'[p])
         /\ schedule'[p].last_outcome = outcome
         /\ schedule'[p].last_attempted_generation = task[p].generation
         /\ network_generation # task[p].network_generation => schedule'[p].next_at = NotSet
<1> DEFINE after == after_attempt(schedule[p], task[p].generation, outcome, delay)
           r == IF network_generation # task[p].network_generation THEN retry_now(after) ELSE after
<1>1. task[p].generation \in Nat
  BY DEF PeerInv, PeerTypes, Task
<1>2. /\ Shaped(r) /\ r.last_outcome = outcome
      /\ r.last_attempted_generation = task[p].generation
      /\ network_generation # task[p].network_generation => r.next_at = NotSet
  BY <1>1 DEF after_attempt, retry_now, Shaped
<1>3. schedule' = [schedule EXCEPT ![p] = r]
  BY DEF record_peer_attempt
<1> HIDE DEF r
<1>4. schedule = [q \in Peer |-> schedule[q]]
  BY DEF PeerInv, PeerTypes
<1>5. schedule' = [q \in Peer |-> IF q = p THEN r ELSE schedule[q]]
  BY <1>3, <1>4
<1> QED
  BY <1>2, <1>5

LEMMA EndStep == ASSUME PeerInv, NEW p \in Peer, NEW outcome \in Outcome, End(p, outcome) PROVE PeerInv'
<1> DEFINE t == [NoTask EXCEPT !.pc = "ended"]
<1>1. t \in Task /\ t.pc = "ended" /\ t.generation = 0
  BY DEF NoTask, Task
<1>2. /\ task' = [task EXCEPT ![p] = t] /\ task[p].pc # "idle"
      /\ UNCHANGED <<offered, restVars, shareVars>>
      /\ dialed' = [dialed EXCEPT ![p] = task[p].network_generation]
      /\ outcome # NoOutcome => task[p].pc = "exchanging"
  BY DEF End, restVars
<1>3. PICK delay : record_peer_attempt(p, outcome, delay)
  BY DEF End
<1> HIDE DEF t
<1>4. /\ task' \in [Peer -> Task] /\ Tasks' = Tasks /\ p \in Tasks
      /\ \A q \in Peer : task'[q] = IF q = p THEN t ELSE task[q]
  BY <1>1, <1>2, OneTask
<1>5. /\ schedule' = [q \in Peer |-> schedule'[q]]
      /\ \A q \in Peer \ {p} : schedule'[q] = schedule[q]
      /\ Shaped(schedule'[p])
      /\ schedule'[p].last_outcome = outcome
      /\ schedule'[p].last_attempted_generation = task[p].generation
      /\ network_generation # task[p].network_generation => schedule'[p].next_at = NotSet
  BY <1>3, Recorded
<1>6. task[p].network_generation \in Nat /\ dialed \in [Peer -> Nat]
  BY DEF PeerInv, PeerTypes, Task
<1>7. PeerTypes'
  <2>1. \A q \in Peer : Shaped(schedule'[q])
    BY <1>5 DEF PeerInv, PeerTypes
  <2>2. dialed' \in [Peer -> Nat]
    BY <1>2, <1>6
  <2>3. (\A q \in Peer : Shaped(schedule[q]))'
    BY <2>1 DEF Shaped
  <2> QED
    BY <1>2, <1>4, <1>5, <2>2, <2>3 DEF PeerInv, PeerTypes, shareVars
<1>8. Offers'
  BY <1>1, <1>2, <1>4, SMTT(30) DEF PeerInv, PeerTypes, Offers, shareVars
<1>9. ConfirmedWasOffered'
  <2>1. outcome # NoOutcome => task[p].generation <= offered[p]
    BY <1>2 DEF PeerInv, Offers
  <2> QED
    BY <1>2, <1>5, <2>1 DEF PeerInv, ConfirmedWasOffered
<1>10. RetriesReachEveryPeer'
  <2>1. dialed'[p] = task[p].network_generation /\ \A q \in Peer \ {p} : dialed'[q] = dialed[q]
    BY <1>2, <1>6
  <2>2. network_generation \in Nat
    BY DEF PeerInv, PeerTypes
  <2> QED
    BY <1>2, <1>5, <1>6, <2>1, <2>2, SMTT(30) DEF PeerInv, RetriesReachEveryPeer, shareVars
<1> QED
  BY <1>2, <1>4, <1>7, <1>8, <1>9, <1>10, BusyStep

\* Steps that change only when peers are tried.
LEMMA InstantsStep ==
  ASSUME PeerInv, UNCHANGED <<worker, closed, health, known, manifest_generation, network_generation,
                              task, offered, dialed>>,
         schedule' = [p \in Peer |-> schedule'[p]],
         \A p \in Peer : /\ Shaped(schedule'[p])
                         /\ schedule'[p].last_outcome = schedule[p].last_outcome
                         /\ schedule'[p].last_attempted_generation = schedule[p].last_attempted_generation,
         RetriesReachEveryPeer'
  PROVE  PeerInv'
<1>1. (\A p \in Peer : Shaped(schedule[p]))'
  BY DEF Shaped
<1>2. PeerTypes' /\ Offers' /\ LeftClosed'
  BY <1>1 DEF PeerInv, PeerTypes, Offers, LeftClosed
<1>3. Tasks' = Tasks
  BY DEF Tasks
<1>4. SessionsBounded' /\ ConfirmedWasOffered' /\ SynchronizedMeansQuiet'
  BY <1>3 DEF PeerInv, SessionsBounded, ConfirmedWasOffered, SynchronizedMeansQuiet
<1> QED
  BY <1>2, <1>4 DEF PeerInv

\* Schedules but for when the peer is tried.
Alike(a, b) ==
  /\ Shaped(b) /\ b.last_outcome = a.last_outcome
  /\ b.last_attempted_generation = a.last_attempted_generation

LEMMA RetriedNow ==
  ASSUME NEW sch, Shaped(sch)
  PROVE  Alike(sch, retry_now(sch)) /\ retry_now(sch).next_at = NotSet
BY DEF Shaped, Alike, retry_now

LEMMA MovedInstant ==
  ASSUME NEW sch, Shaped(sch), NEW v
  PROVE  Alike(sch, [sch EXCEPT !.next_at = v]) /\ [sch EXCEPT !.next_at = v].next_at = v
BY DEF Shaped, Alike

LEMMA ResetSchedulesStep == ASSUME PeerInv, ResetSchedules PROVE PeerInv'
<1>1. schedule' = [p \in Peer |-> retry_now(schedule[p])]
  BY DEF ResetSchedules
<1>2. \A p \in Peer : Shaped(schedule[p])
  BY DEF PeerInv, PeerTypes
<1>3. \A p \in Peer : schedule'[p] = retry_now(schedule[p])
  BY <1>1
<1>4. \A p \in Peer : Alike(schedule[p], schedule'[p]) /\ schedule'[p].next_at = NotSet
  BY <1>2, <1>3, RetriedNow
<1>5. schedule' = [p \in Peer |-> schedule'[p]]
  BY <1>1
<1>6. RetriesReachEveryPeer'
  BY <1>4 DEF RetriesReachEveryPeer
<1>7. UNCHANGED <<worker, closed, health, known, manifest_generation, network_generation,
                  task, offered, dialed>>
  BY DEF ResetSchedules
<1> QED
  BY <1>4, <1>5, <1>6, <1>7, InstantsStep DEF Alike

LEMMA TickStep == ASSUME PeerInv, Tick PROVE PeerInv'
<1> DEFINE at == [p \in Peer |-> schedule[p].next_at]
           passed == {at[p] : p \in {q \in Peer : at[q] # NotSet /\ at[q] <= 1}}
           then(p) == IF schedule[p].next_at > 1 THEN schedule[p].next_at - 1
                      ELSE -Cardinality({i \in passed : i > schedule[p].next_at})
           new(p) == IF schedule[p].next_at = NotSet THEN schedule[p].next_at ELSE then(p)
<1>1. schedule' = [p \in Peer |-> [schedule[p] EXCEPT !.next_at = new(p)]]
  BY DEF Tick, Later
<1>2. \A p \in Peer : schedule[p].next_at = NotSet => new(p) = NotSet
  OBVIOUS
<1> HIDE DEF new
<1>3. \A p \in Peer : Shaped(schedule[p])
  BY DEF PeerInv, PeerTypes
<1>4. \A p \in Peer : schedule'[p] = [schedule[p] EXCEPT !.next_at = new(p)]
  BY <1>1
<1>5. ASSUME NEW p \in Peer
      PROVE  /\ Alike(schedule[p], schedule'[p])
             /\ (schedule[p].next_at = NotSet => schedule'[p].next_at = NotSet)
  <2>1. /\ Alike(schedule[p], [schedule[p] EXCEPT !.next_at = new(p)])
        /\ [schedule[p] EXCEPT !.next_at = new(p)].next_at = new(p)
    BY <1>3, MovedInstant
  <2> QED
    BY <1>2, <1>4, <2>1
<1>6. schedule' = [p \in Peer |-> schedule'[p]]
  BY <1>1
<1>7. UNCHANGED <<worker, closed, health, known, manifest_generation, network_generation,
                  retrying, task, offered, dialed>>
  BY DEF Tick, shareVars
<1>8. RetriesReachEveryPeer'
  BY <1>5, <1>7 DEF PeerInv, RetriesReachEveryPeer
<1> QED
  BY <1>5, <1>6, <1>7, <1>8, InstantsStep DEF Alike

-----------------------------------------------------------------------------
LEMMA PeerStep == PeerInv /\ [Next]_vars => PeerInv'
<1> SUFFICES ASSUME PeerInv, [Next]_vars PROVE PeerInv'
  OBVIOUS
<1>1. ASSUME NEW p \in Peer, Finish(p) PROVE PeerInv'
  BY <1>1, FinishStep
<1>2. ASSUME NEW p \in Peer, Drain(p) PROVE PeerInv'
  BY <1>2, DrainStep
<1>3. CASE Wake \/ Scan \/ FillFails \/ Leave \/ Stop \/ RetryPeers \/ Save \/ Close
  BY <1>3, QuietStep, SMTT(30)
     DEF Wake, Scan, FillFails, WorkerFails, Leave, Stop, RetryPeers, Save, Close,
         shareVars, peerVars, PeerInv, PeerTypes, LeftClosed
<1>4. ASSUME NEW p \in Peer, Learn(p) PROVE PeerInv'
  BY <1>4, QuietStep, SMTT(30) DEF Learn, peerVars, PeerInv, PeerTypes, LeftClosed
<1>5. CASE Fill
  BY <1>5, FillStep
<1>6. ASSUME NEW p \in Peer, Start(p) \/ LoadNetwork(p) \/ Offer(p) PROVE PeerInv'
  BY <1>6, StartStep, LoadNetworkStep, OfferStep
<1>7. ASSUME NEW p \in Peer, NEW outcome \in Outcome, End(p, outcome) PROVE PeerInv'
  BY <1>7, EndStep
<1>8. CASE ResetSchedules
  BY <1>8, ResetSchedulesStep
<1>9. CASE Tick
  BY <1>9, TickStep
<1>10. CASE UNCHANGED vars
  BY <1>10, QuietStep, SMTT(30) DEF vars, shareVars, peerVars, PeerInv, PeerTypes, LeftClosed
<1> QED
  BY <1>1, <1>2, <1>3, <1>4, <1>5, <1>6, <1>7, <1>8, <1>9, <1>10 DEF Next, WorkerStep

\* PeerInv holds in every state of the worker and its sessions.
THEOREM PeerInvariant == Spec => []PeerInv
  BY PeerInit, PeerStep, PTL DEF Spec

\* However fills and endings of sessions interleave, the sessions that the worker
\* has started and not joined are at most MAX_CONCURRENT_PEERS.
THEOREM SessionsStayBounded == Spec => []SessionsBounded
<1>1. PeerInv => SessionsBounded
  BY DEF PeerInv
<1> QED
  BY <1>1, PeerInvariant, PTL

\* The generation that run_peer_session reads before the exchange, and records
\* after it, is never newer than the manifest that the peer was offered.
THEOREM ConfirmedOffered == Spec => []ConfirmedWasOffered
<1>1. PeerInv => ConfirmedWasOffered
  BY DEF PeerInv
<1> QED
  BY <1>1, PeerInvariant, PTL

\* retry_peers leaves no peer with the delay of an attempt from before it, in
\* whatever order its two steps and the records of attempts are taken.
THEOREM RetriesReach == Spec => []RetriesReachEveryPeer
<1>1. PeerInv => RetriesReachEveryPeer
  BY DEF PeerInv
<1> QED
  BY <1>1, PeerInvariant, PTL

\* The status that refresh_peer_status saved last is Synchronized only as long as
\* there is no session and the last ones left nothing to transfer.
THEOREM QuietWhenSynchronized == Spec => []SynchronizedMeansQuiet
<1>1. PeerInv => SynchronizedMeansQuiet
  BY DEF PeerInv
<1> QED
  BY <1>1, PeerInvariant, PTL
=============================================================================
