---------------------------- MODULE PeerSessions ----------------------------
(***************************************************************************)
(* How the worker of a share runs sessions with its known peers: which     *)
(* peers are due, when they are tried again, what happens when the         *)
(* manifest is saved or the connectivity changes meanwhile, what the       *)
(* status says, and how all of it ends.  The exchange itself is ShareSync. *)
(* Time passes in units of which SyncInterval is a small number.  An       *)
(* instant is kept as the time left until it; of instants that have passed *)
(* only the order matters, and it is kept as 0, -1, -2 and so on.          *)
(* The worker may be woken at any time: by its interval, by a change of    *)
(* any share's files, by a change of connectivity.                         *)
(***************************************************************************)
EXTENDS Integers, FiniteSets

CONSTANTS Peer,                \* endpoint identifiers, in their order
          MaxConcurrentPeers,  \* MAX_CONCURRENT_PEERS
          MaxSelected,         \* the candidates select_due_peers keeps
          SyncInterval, IdlePeerInterval,   \* SYNC_INTERVAL, IDLE_PEER_INTERVAL
          MaxGeneration,       \* how often the manifest is saved
          MaxNetwork,          \* how often connectivity changes
          MaxFaults            \* how many scans and saves fail

ASSUME PeerAssumption == Peer \subseteq Nat /\ IsFiniteSet(Peer)
ASSUME LimitsAssumption == MaxConcurrentPeers \in Nat \ {0} /\ MaxSelected \in Nat \ {0}
ASSUME IntervalsAssumption ==
  SyncInterval \in Nat \ {0} /\ IdlePeerInterval \in Nat /\ SyncInterval <= IdlePeerInterval
ASSUME BoundsAssumption == MaxGeneration \in Nat /\ MaxNetwork \in Nat /\ MaxFaults \in Nat

VARIABLES worker,      \* where the worker task is
          closed,      \* the endpoint is closed
          known,       \* the saved known peers
          manifest_generation, network_generation,
          retrying,    \* retry_peers is between its two steps
          schedule,    \* peer_schedule
          task,        \* the session task of each peer
          health,      \* of the runtime status
          offered,     \* the generation of the manifest a peer was last offered
          dialed,      \* the network generation when the last recorded attempt began
          faults

peerVars == <<schedule, task, offered, dialed>>
shareVars == <<known, manifest_generation, network_generation, retrying>>
vars == <<worker, closed, health, faults, shareVars, peerVars>>

Smaller(a, b) == IF a < b THEN a ELSE b
Greater(a, b) == IF a < b THEN b ELSE a

\* next_at: NotSet is before every instant, as None is.
NotSet == -1 - Cardinality(Peer)

\* last_outcome: whether the session left something to transfer.
NoOutcome == "none"
Outcome == {NoOutcome, "done", "pending"}

\* A peer without an entry is due, as one with the default entry is.
DefaultSchedule ==
  [next_at |-> NotSet, last_attempted_generation |-> 0, failures |-> 0, last_outcome |-> NoOutcome]

NoTask == [pc |-> "idle", generation |-> 0, network_generation |-> 0]

Init ==
  /\ worker = "waiting" /\ closed = FALSE /\ health = "unknown"
  /\ known \in SUBSET Peer
  /\ manifest_generation = 0 /\ network_generation = 0 /\ retrying = FALSE
  /\ schedule = [p \in Peer |-> DefaultSchedule]
  /\ task = [p \in Peer |-> NoTask]
  /\ offered = [p \in Peer |-> 0] /\ dialed = [p \in Peer |-> 0]
  /\ faults = 0
-----------------------------------------------------------------------------
(* Peer schedules                                                          *)

retry_now(sch) == [sch EXCEPT !.next_at = NotSet, !.failures = 0]

due(sch) == manifest_generation # sch.last_attempted_generation \/ sch.next_at <= 0

\* 1 << failures.min(3)
Shifted(failures) ==
  CASE failures = 0 -> 1
    [] failures = 1 -> 2
    [] failures = 2 -> 4
    [] OTHER -> 8

\* Variant of Delays: the backoff has no upper limit.
DelaysUncapped(sch, outcome) ==
  CASE outcome = "done"    -> {IdlePeerInterval}
    [] outcome = "pending" -> {SyncInterval}
    [] OTHER -> {SyncInterval * Shifted(sch.failures) + jitter : jitter \in 0..1}

\* The time to wait after an attempt.  The backoff of a failed one has up to a
\* second of jitter, and only whether there were failures, and up to three of
\* them, makes a difference.
Delays(sch, outcome) ==
  CASE outcome = "done"    -> {IdlePeerInterval}
    [] outcome = "pending" -> {SyncInterval}
    [] OTHER -> {Smaller(SyncInterval * Shifted(sch.failures) + jitter, IdlePeerInterval) :
                   jitter \in 0..1}

after_attempt(sch, generation, outcome, delay) ==
  [next_at |-> delay, last_attempted_generation |-> generation,
   failures |-> IF outcome = NoOutcome THEN Smaller(sch.failures + 1, 3) ELSE 0,
   last_outcome |-> outcome]

\* Variant of Precedes: candidates are taken in the order of the known peers.
PrecedesByName(p, q) == p < q

\* The order of candidates: by next_at, those without one in their own order.
Precedes(p, q) ==
  \/ schedule[p].next_at < schedule[q].next_at
  \/ schedule[p].next_at = NotSet /\ schedule[q].next_at = NotSet /\ p < q

Tasks == {p \in Peer : task[p].pc # "idle"}

\* The sets of peers a fill may start sessions with; attempts set to the same
\* unit of time are in either order.
select_due_peers(candidates, available) ==
  LET ready == {p \in candidates : due(schedule[p])}
      number == Smaller(Cardinality(ready), Smaller(MaxSelected, available))
  IN  {S \in SUBSET ready : Cardinality(S) = number /\ \A q \in S, p \in ready \ S : ~Precedes(p, q)}

\* refresh_peer_status, with the schedules and number of sessions it sees.
Health(schedules, generation, in_flight) ==
  LET outcomes == {schedules[p].last_outcome : p \in Peer} \ {NoOutcome}
      confirmed == \E p \in Peer : /\ schedules[p].last_outcome # NoOutcome
                                   /\ schedules[p].last_attempted_generation = generation
  IN  IF outcomes = {"done"} /\ confirmed /\ in_flight = 0 THEN "synchronized"
      ELSE IF outcomes # {} \/ in_flight > 0 THEN "pending"
      ELSE "offline"

\* An error ends the worker's loop: it closes the endpoint and drains its sessions.
WorkerFails ==
  /\ faults < MaxFaults /\ faults' = faults + 1
  /\ worker' = "draining" /\ closed' = TRUE
  /\ UNCHANGED health

\* The status is saved, or that fails.
Refresh(in_flight, next) ==
  \/ /\ health' = Health(schedule, manifest_generation, in_flight)
     /\ worker' = next
     /\ UNCHANGED <<closed, faults>>
  \/ WorkerFails

-----------------------------------------------------------------------------
(* The worker                                                              *)

\* Variant of InFlight: sessions that have ended are not counted.
InFlightRunning(tasks) == Cardinality({p \in tasks : task[p].pc # "ended"})

\* A session counts until the worker has joined it.
InFlight(tasks) == Cardinality(tasks)

\* A session that has ended is joined first.
Finish(p) ==
  /\ worker = "waiting" /\ ~closed
  /\ task[p].pc = "ended"
  /\ task' = [task EXCEPT ![p] = NoTask]
  /\ Refresh(InFlight(Tasks \ {p}), "awake")
  /\ UNCHANGED <<schedule, offered, dialed, shareVars>>

Wake ==
  /\ worker = "waiting" /\ ~closed
  /\ \A p \in Peer : task[p].pc # "ended"
  /\ worker' = "awake"
  /\ UNCHANGED <<closed, health, faults, shareVars, peerVars>>

\* A scan that is due has run, see ScanTrigger, and may have saved the manifest; if
\* it failed the worker starts over.
Scan ==
  /\ worker = "awake" /\ ~closed
  /\ \/ worker' = "fill" /\ UNCHANGED faults
     \/ worker' = "waiting" /\ faults < MaxFaults /\ faults' = faults + 1
  /\ \/ UNCHANGED manifest_generation
     \/ manifest_generation < MaxGeneration /\ manifest_generation' = manifest_generation + 1
  /\ UNCHANGED <<closed, health, known, network_generation, retrying, peerVars>>

\* Variant of Fill: the sessions under way are not counted against the limit.
FillRegardless ==
  /\ worker = "fill"
  /\ \E S \in select_due_peers(known \ Tasks, MaxConcurrentPeers) :
       /\ task' = [p \in Peer |-> IF p \in S THEN [NoTask EXCEPT !.pc = "queued"] ELSE task[p]]
       /\ Refresh(InFlight(Tasks \cup S), "waiting")
  /\ UNCHANGED <<schedule, offered, dialed, shareVars>>

\* Starts sessions with due peers as far as there is room for them.
Fill ==
  /\ worker = "fill"
  /\ \E S \in select_due_peers(known \ Tasks, Greater(MaxConcurrentPeers - InFlight(Tasks), 0)) :
       /\ task' = [p \in Peer |-> IF p \in S THEN [NoTask EXCEPT !.pc = "queued"] ELSE task[p]]
       /\ Refresh(InFlight(Tasks \cup S), "waiting")
  /\ UNCHANGED <<schedule, offered, dialed, shareVars>>

\* The known peers cannot be read.
FillFails ==
  /\ worker = "fill" /\ InFlight(Tasks) < MaxConcurrentPeers
  /\ WorkerFails
  /\ UNCHANGED <<peerVars, shareVars>>

\* The endpoint is closed: the worker waits for its sessions and stops.
Leave ==
  /\ worker \in {"waiting", "awake"} /\ closed
  /\ worker' = "draining"
  /\ UNCHANGED <<closed, health, faults, shareVars, peerVars>>

Drain(p) ==
  /\ worker = "draining" /\ task[p].pc = "ended"
  /\ task' = [task EXCEPT ![p] = NoTask]
  /\ \/ health' = Health(schedule, manifest_generation, InFlight(Tasks \ {p})) /\ UNCHANGED faults
     \/ faults < MaxFaults /\ faults' = faults + 1 /\ UNCHANGED health
  /\ UNCHANGED <<worker, closed, schedule, offered, dialed, shareVars>>

\* Variant of Stop: sessions still running are left behind.
StopAtOnce ==
  /\ worker = "draining" /\ worker' = "stopped"
  /\ UNCHANGED <<closed, health, faults, shareVars, peerVars>>

Stop ==
  /\ worker = "draining" /\ worker' = "stopped"
  /\ Tasks = {}
  /\ UNCHANGED <<closed, health, faults, shareVars, peerVars>>

-----------------------------------------------------------------------------
(* A peer session: run_peer_session around sync_with_peer                  *)

restVars == <<worker, closed, health, faults, shareVars>>

\* The session gets its permit and reads the manifest's generation; once the
\* endpoint is closed it ends without an attempt.
Start(p) ==
  /\ task[p].pc = "queued"
  /\ task' = [task EXCEPT ![p] = IF closed THEN [NoTask EXCEPT !.pc = "ended"]
                                 ELSE [NoTask EXCEPT !.pc = "loaded", !.generation = manifest_generation]]
  /\ UNCHANGED <<schedule, offered, dialed, restVars>>

LoadNetwork(p) ==
  /\ task[p].pc = "loaded"
  /\ task' = [task EXCEPT ![p].pc = "dialing", ![p].network_generation = network_generation]
  /\ UNCHANGED <<schedule, offered, dialed, restVars>>

\* The connection is up and the session takes a snapshot of the manifest.
Offer(p) ==
  /\ task[p].pc = "dialing" /\ ~closed
  /\ task' = [task EXCEPT ![p].pc = "exchanging"]
  /\ offered' = [offered EXCEPT ![p] = manifest_generation]
  /\ UNCHANGED <<schedule, dialed, restVars>>

\* Variants of record_peer_attempt: with the generation the manifest has by now;
\* without a look at the network generation.
record_peer_attempt_current(p, outcome, delay) ==
  LET after == after_attempt(schedule[p], manifest_generation, outcome, delay)
  IN  schedule' = [schedule EXCEPT ![p] =
        IF network_generation # task[p].network_generation THEN retry_now(after) ELSE after]

record_peer_attempt_only(p, outcome, delay) ==
  schedule' = [schedule EXCEPT ![p] = after_attempt(@, task[p].generation, outcome, delay)]

\* A change of connectivity during the attempt makes the peer due at once.
record_peer_attempt(p, outcome, delay) ==
  LET after == after_attempt(schedule[p], task[p].generation, outcome, delay)
  IN  schedule' = [schedule EXCEPT ![p] =
        IF network_generation # task[p].network_generation THEN retry_now(after) ELSE after]

\* The exchange is over, or failed at any point of it.
End(p, outcome) ==
  /\ task[p].pc = "exchanging" \/ (task[p].pc = "dialing" /\ outcome = NoOutcome)
  /\ \E delay \in Delays(schedule[p], outcome) : record_peer_attempt(p, outcome, delay)
  /\ dialed' = [dialed EXCEPT ![p] = task[p].network_generation]
  /\ task' = [task EXCEPT ![p] = [NoTask EXCEPT !.pc = "ended"]]
  /\ UNCHANGED <<offered, restVars>>

-----------------------------------------------------------------------------
(* The connectivity monitor, other tasks, and time                         *)

\* retry_peers: first the generation, then, with the lock, the schedules.
RetryPeers ==
  /\ ~retrying /\ ~closed /\ network_generation < MaxNetwork
  /\ network_generation' = network_generation + 1 /\ retrying' = TRUE
  /\ UNCHANGED <<worker, closed, health, faults, known, manifest_generation, peerVars>>

ResetSchedules ==
  /\ retrying /\ retrying' = FALSE
  /\ schedule' = [p \in Peer |-> retry_now(schedule[p])]
  /\ UNCHANGED <<worker, closed, health, faults, known, manifest_generation, network_generation,
                 task, offered, dialed>>

\* save_manifest by a session, of this device or incoming, that applied changes.
Save ==
  /\ manifest_generation < MaxGeneration
  /\ manifest_generation' = manifest_generation + 1
  /\ UNCHANGED <<worker, closed, health, faults, known, network_generation, retrying, peerVars>>

\* merge_remote_peers by any session.
Learn(p) ==
  /\ p \notin known /\ known' = known \cup {p}
  /\ UNCHANGED <<worker, closed, health, faults, manifest_generation, network_generation, retrying,
                 peerVars>>

\* A signal, or another share's worker that failed, closes the endpoint.
Close ==
  /\ ~closed /\ closed' = TRUE
  /\ UNCHANGED <<worker, health, faults, shareVars, peerVars>>

\* Instants one unit of time later; those that have passed keep their order.
Later(sch) ==
  LET at == [p \in Peer |-> sch[p].next_at]
      passed == {at[p] : p \in {q \in Peer : at[q] # NotSet /\ at[q] <= 1}}
  IN  [p \in Peer |-> [sch[p] EXCEPT !.next_at =
        IF @ = NotSet THEN @ ELSE IF @ > 1 THEN @ - 1 ELSE -Cardinality({i \in passed : i > @})]]

Tick ==
  /\ schedule' = Later(schedule)
  /\ UNCHANGED <<worker, closed, health, faults, task, offered, dialed, shareVars>>

WorkerStep ==
  \/ \E p \in Peer : Finish(p) \/ Drain(p)
  \/ Wake \/ Scan \/ Fill \/ FillFails \/ Leave \/ Stop

Next ==
  \/ WorkerStep
  \/ \E p \in Peer : Start(p) \/ LoadNetwork(p) \/ Offer(p) \/ Learn(p)
  \/ \E p \in Peer, outcome \in Outcome : End(p, outcome)
  \/ RetryPeers \/ ResetSchedules \/ Save \/ Close \/ Tick

Spec == Init /\ [][Next]_vars

\* The worker's interval ticks again and again, the runtime runs tasks that are
\* ready, permits are granted in turn, a session without progress times out, and
\* time passes.
Fairness ==
  /\ WF_vars(WorkerStep) /\ WF_vars(Tick)
  /\ \A p \in Peer : /\ WF_vars(Start(p)) /\ WF_vars(LoadNetwork(p))
                     /\ WF_vars(\E outcome \in Outcome : End(p, outcome))

FairSpec == Spec /\ Fairness

-----------------------------------------------------------------------------
\* The type of every variable.
TypeOK ==
  /\ worker \in {"waiting", "awake", "fill", "draining", "stopped"}
  /\ health \in {"unknown", "offline", "pending", "synchronized"}
  /\ closed \in BOOLEAN /\ retrying \in BOOLEAN /\ known \subseteq Peer
  /\ manifest_generation \in Nat /\ network_generation \in Nat /\ faults \in Nat
  /\ schedule \in [Peer -> [next_at : NotSet..IdlePeerInterval, last_attempted_generation : Nat,
                            failures : 0..3, last_outcome : Outcome]]
  /\ task \in [Peer -> [pc : {"idle", "queued", "loaded", "dialing", "exchanging", "ended"},
                        generation : Nat, network_generation : Nat]]
  /\ offered \in [Peer -> Nat] /\ dialed \in [Peer -> Nat]

\* A share has at most MAX_CONCURRENT_PEERS sessions of its own, those the worker
\* has not joined yet included, however fills and endings of sessions interleave.
SessionsBounded == Cardinality(Tasks) <= MaxConcurrentPeers

\* A peer with which the last session succeeded has been offered a manifest at
\* least as new as the generation its schedule names, although the manifest may
\* be saved at any point of the session: no save is taken for one it has seen.
ConfirmedWasOffered ==
  \A p \in Peer : schedule[p].last_outcome # NoOutcome
    => schedule[p].last_attempted_generation <= offered[p]

\* Once retry_peers is done, no peer waits out a delay that an attempt from
\* before the change of connectivity earned it, be it recorded before, during or
\* after retry_peers.
RetriesReachEveryPeer ==
  ~retrying => \A p \in Peer : dialed[p] < network_generation => schedule[p].next_at = NotSet

\* The status says Synchronized only while no session of the share is under way
\* and nothing was left to transfer by the last session with any peer.
SynchronizedMeansQuiet ==
  health = "synchronized" /\ ~closed =>
    Tasks = {} /\ \A p \in Peer : schedule[p].last_outcome # "pending"

\* No known peer is passed over for ever, however often the others are due.
EveryPeerTried == \A p \in Peer : [](p \in known => <>(closed \/ task[p].pc = "dialing"))

\* Once the endpoint is closed the worker stops, after the last of its sessions.
ShutdownEnds == closed ~> [](worker = "stopped" /\ Tasks = {})
=============================================================================
