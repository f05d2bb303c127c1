--------------------------- MODULE ConnectionPool ---------------------------
(***************************************************************************)
(* The pool of outgoing connections (network/transport.rs and              *)
(* network/connection_cache.rs).  Every synchronization session with a     *)
(* peer asks it for one stream: open_stream finds or makes the peer's      *)
(* slot, finds or dials the connection cached in it, takes one of the      *)
(* slot's stream permits and opens the stream, and tries once more when    *)
(* the cached connection turns out to be closed.                           *)
(*                                                                         *)
(* A slot is an Arc<PeerSlot>: the map holds one reference and every       *)
(* session that got the slot another, so a slot whose strong count is one  *)
(* is a slot no session refers to.  The mutex of a slot is held exactly    *)
(* while its owner waits for a dial permit or dials.  The mutex of the map *)
(* is never held across a wait, so what happens under it is one step.      *)
(*                                                                         *)
(* Time is left out: an unused slot may at any moment have been idle for   *)
(* CONNECTION_IDLE_TIMEOUT, and any of them may be the oldest.             *)
(***************************************************************************)
EXTENDS Integers, FiniteSets

CONSTANTS
    Peer,        \* the peers sessions connect to
    Session,     \* the sessions that may run at the same time
    MaxCached,   \* MAX_CACHED_CONNECTIONS
    MaxStreams,  \* MAX_CONNECTION_STREAMS
    MaxDials,    \* MAX_CONCURRENT_DIALS
    MaxNames,    \* how many slots and connections of a peer are known at one time
    None         \* no peer, no slot, no connection

\* A slot and a connection belong to a peer and are told apart by a number.
Slot == Peer \X (1..MaxNames)
Connection == Peer \X (1..MaxNames)

ASSUME SetsAssumption == IsFiniteSet(Peer) /\ IsFiniteSet(Session) /\ None \notin Peer \cup Slot
ASSUME LimitsAssumption ==
    MaxCached \in Nat \ {0} /\ MaxStreams \in Nat \ {0} /\ MaxDials \in Nat \ {0} /\ MaxNames \in Nat

VARIABLES
    peers,    \* ConnectionCache.peers: the slot of each peer, None when it has none
    cached,   \* PeerSlot.connection
    open,     \* the connections whose close_reason is none
    calls,    \* where each session is in open_stream
    closed    \* endpoint.is_closed()

vars == <<peers, cached, open, calls, closed>>

NoCall == [at |-> "idle", peer |-> None, slot |-> None, connection |-> None,
           attempt |-> 0, found |-> None]

Places == {"idle", "slot", "lock", "permit", "dial", "lease", "open",
           "invalidate", "stream"}

\* The sessions with a reference to a slot: Arc::strong_count is one more.
Holders(i) == {s \in Session : calls[s].slot = i \/ calls[s].found = i}

\* The mutex of the slot is taken.
Locked(i) == \E s \in Session : calls[s].slot = i /\ calls[s].at \in {"permit", "dial"}

\* Variant of Leases: a permit is taken when the stream is open.
LeasesOfStreams(i) == {s \in Session : calls[s].slot = i /\ calls[s].at = "stream"}

\* The leases of a slot: the stream permits in use.
Leases(i) == {s \in Session : /\ calls[s].slot = i
                              /\ calls[s].at \in {"open", "invalidate", "stream"}}

Dialing == {s \in Session : calls[s].at = "dial"}

Mapped == {p \in Peer : peers[p] # None}

\* Variant of Reap: the references to a slot are not counted.
ReapReferenced ==
    LET unlocked == {p \in Mapped : ~Locked(peers[p])}
        dead == {p \in unlocked : cached[peers[p]] \notin open}
    IN  {gone \in SUBSET unlocked : dead \subseteq gone}

\* The peers whose slot a sweep takes out: the unused ones without a live
\* connection, and of the other unused ones those idle for too long.
Reap ==
    LET unused == {p \in Mapped : Holders(peers[p]) = {} /\ ~Locked(peers[p])}
        dead == {p \in unused : cached[peers[p]] \notin open}
    IN  {gone \in SUBSET unused : dead \subseteq gone}

\* PeerSlot::close of the slots taken out: the connection is closed when the map
\* had the last reference.
Close(gone) == {cached[i] : i \in {peers[p] : p \in {q \in gone : Holders(peers[q]) = {}}}}

\* The slots of `gone` leave the map.
Without(gone) == [p \in Peer |-> IF p \in gone THEN None ELSE peers[p]]

Emptied(gone) ==
    [i \in Slot |-> IF \E p \in gone : peers[p] = i /\ Holders(i) = {} THEN None ELSE cached[i]]

\* Variant of Full: the limit itself is let through.
FullBeyond(mapped) == Cardinality(mapped) > MaxCached

Full(mapped) == Cardinality(mapped) >= MaxCached

\* The slots that may be evicted.  The code takes the one with the earliest
\* last_used, which may be any of them.
Evictable(mapped) == {p \in mapped : Holders(peers[p]) = {}}

\* The name a new slot of a peer gets, one that no one refers to, and a new
\* connection, one that no one remembers.
FreeSlot(i) == Holders(i) = {} /\ \A p \in Peer : peers[p] # i

NewSlot(p) == {i \in Slot : /\ i[1] = p /\ FreeSlot(i)
                            /\ \A j \in Slot : j[1] = p /\ FreeSlot(j) => i[2] <= j[2]}

FreeConnection(c) == /\ c \notin open
                     /\ \A i \in Slot : cached[i] # c
                     /\ \A s \in Session : calls[s].connection # c

NewConnection(p) == {c \in Connection : /\ c[1] = p /\ FreeConnection(c)
                                        /\ \A d \in Connection : d[1] = p /\ FreeConnection(d) => c[2] <= d[2]}

Init ==
    /\ peers = [p \in Peer |-> None]
    /\ cached = [i \in Slot |-> None]
    /\ open = {}
    /\ calls = [s \in Session |-> NoCall]
    /\ closed = FALSE

(***************************************************************************)
(* open_stream and connect                                                 *)
(***************************************************************************)

\* A session asks for a stream.  With a closed endpoint it gets an error.
OpenStream(s, p) ==
    /\ calls[s].at = "idle"
    /\ ~closed
    /\ calls' = [calls EXCEPT ![s] = [NoCall EXCEPT !.at = "slot", !.peer = p]]
    /\ UNCHANGED <<peers, cached, open, closed>>

\* ConnectionCache::slot finds the slot of the peer after a sweep.
FindSlot(s) ==
    /\ calls[s].at = "slot"
    /\ \E gone \in Reap :
        /\ calls[s].peer \in Mapped \ gone
        /\ peers' = Without(gone)
        /\ cached' = Emptied(gone)
        /\ open' = open \ Close(gone)
    /\ calls' = [calls EXCEPT ![s].at = "lock", ![s].slot = peers[calls[s].peer]]
    /\ UNCHANGED closed

\* ConnectionCache::slot makes a slot, in the place of the oldest unused one
\* when the map is full.
MakeSlot(s) ==
    /\ calls[s].at = "slot"
    /\ \E swept \in Reap : \E evicted \in SUBSET (Mapped \ swept) :
        LET gone == swept \cup evicted IN
        /\ calls[s].peer \notin Mapped \ swept
        /\ IF Full(Mapped \ swept)
           THEN \E p \in Evictable(Mapped \ swept) : evicted = {p}
           ELSE evicted = {}
        /\ \E i \in NewSlot(calls[s].peer) :
            /\ peers' = [Without(gone) EXCEPT ![calls[s].peer] = i]
            /\ cached' = [Emptied(gone) EXCEPT ![i] = None]
            /\ open' = open \ Close(gone)
            /\ calls' = [calls EXCEPT ![s].at = "lock", ![s].slot = i]
    /\ UNCHANGED closed

\* ConnectionCache::slot finds the map full of slots in use.
PoolBusy(s) ==
    /\ calls[s].at = "slot"
    /\ \E gone \in Reap :
        /\ calls[s].peer \notin Mapped \ gone
        /\ Full(Mapped \ gone)
        /\ Evictable(Mapped \ gone) = {}
        /\ peers' = Without(gone)
        /\ cached' = Emptied(gone)
        /\ open' = open \ Close(gone)
    /\ calls' = [calls EXCEPT ![s] = NoCall]
    /\ UNCHANGED closed

\* The mutex of the slot is granted and the connection in it is live.
Reuse(s) ==
    /\ calls[s].at = "lock"
    /\ ~Locked(calls[s].slot)
    /\ cached[calls[s].slot] \in open
    /\ calls' = [calls EXCEPT ![s].at = "lease", ![s].connection = cached[calls[s].slot]]
    /\ UNCHANGED <<peers, cached, open, closed>>

\* The mutex of the slot is granted and there is no live connection: the mutex
\* is kept until the dial ends.
StartDial(s) ==
    /\ calls[s].at = "lock"
    /\ ~Locked(calls[s].slot)
    /\ cached[calls[s].slot] \notin open
    /\ cached' = [cached EXCEPT ![calls[s].slot] = None]
    /\ calls' = [calls EXCEPT ![s].at = "permit"]
    /\ UNCHANGED <<peers, open, closed>>

\* A dial permit is granted; a closed endpoint ends the call there.
GetPermit(s) ==
    /\ calls[s].at = "permit"
    /\ Cardinality(Dialing) < MaxDials
    /\ calls' = [calls EXCEPT ![s] = IF closed THEN NoCall ELSE [@ EXCEPT !.at = "dial"]]
    /\ UNCHANGED <<peers, cached, open, closed>>

\* The dial succeeds with the expected peer.
Dialed(s) ==
    /\ calls[s].at = "dial"
    /\ ~closed
    /\ \E c \in NewConnection(calls[s].peer) :
        /\ open' = open \cup {c}
        /\ cached' = [cached EXCEPT ![calls[s].slot] = c]
        /\ calls' = [calls EXCEPT ![s].at = "lease", ![s].connection = c]
    /\ UNCHANGED <<peers, closed>>

\* The dial fails, times out, or reaches another peer, whose connection is closed
\* at once.
DialFails(s) ==
    /\ calls[s].at = "dial"
    /\ calls' = [calls EXCEPT ![s] = NoCall]
    /\ UNCHANGED <<peers, cached, open, closed>>

\* PeerSlot::lease: a stream permit is granted.
Lease(s) ==
    /\ calls[s].at = "lease"
    /\ Cardinality(Leases(calls[s].slot)) < MaxStreams
    /\ calls' = [calls EXCEPT ![s].at = "open"]
    /\ UNCHANGED <<peers, cached, open, closed>>

\* Variant of LeaseFails: the wait for a permit has no timeout.
LeaseFailsWhenClosed(s) ==
    /\ calls[s].at = "lease"
    /\ closed
    /\ calls' = [calls EXCEPT ![s] = NoCall]
    /\ UNCHANGED <<peers, cached, open, closed>>

\* The wait for a permit times out, or the endpoint is closed.
LeaseFails(s) ==
    /\ calls[s].at = "lease"
    /\ calls' = [calls EXCEPT ![s] = NoCall]
    /\ UNCHANGED <<peers, cached, open, closed>>

\* open_bi succeeds.
Opened(s) ==
    /\ calls[s].at = "open"
    /\ calls[s].connection \in open
    /\ calls' = [calls EXCEPT ![s].at = "stream"]
    /\ UNCHANGED <<peers, cached, open, closed>>

\* open_bi fails, and so does the call: on the second attempt, or with a
\* connection that is still live.  The lease is dropped.
OpenFails(s) ==
    /\ calls[s].at = "open"
    /\ calls[s].attempt = 1 \/ calls[s].connection \in open
    /\ calls' = [calls EXCEPT ![s] = NoCall]
    /\ UNCHANGED <<peers, cached, open, closed>>

\* open_bi fails because the connection is closed: the first attempt goes on to
\* invalidate, which takes the slot of the peer from the map.
LookUp(s) ==
    /\ calls[s].at = "open"
    /\ calls[s].attempt = 0
    /\ calls[s].connection \notin open
    /\ calls' = [calls EXCEPT ![s].at = "invalidate", ![s].found = peers[calls[s].peer]]
    /\ UNCHANGED <<peers, cached, open, closed>>

\* The second attempt of open_stream, with no lease: connect looks at the
\* endpoint again.
Again(s) == IF closed THEN NoCall
            ELSE [NoCall EXCEPT !.at = "slot", !.peer = calls[s].peer, !.attempt = 1]

\* Variant of Forgotten: whatever is cached is forgotten.
ForgottenAny(i, c) == [cached EXCEPT ![i] = None]

Forgotten(i, c) == IF cached[i] = c THEN [cached EXCEPT ![i] = None] ELSE cached

\* invalidate forgets the connection, unless another one is cached by now; the
\* lease is dropped.
Invalidate(s) ==
    LET i == calls[s].found IN
    /\ calls[s].at = "invalidate"
    /\ i # None => ~Locked(i)
    /\ cached' = IF i # None THEN Forgotten(i, calls[s].connection) ELSE cached
    /\ calls' = [calls EXCEPT ![s] = Again(s)]
    /\ UNCHANGED <<peers, open, closed>>

\* The session is over and drops the lease.
Finish(s) ==
    /\ calls[s].at = "stream"
    /\ calls' = [calls EXCEPT ![s] = NoCall]
    /\ UNCHANGED <<peers, cached, open, closed>>

(***************************************************************************)
(* The rest of the process and the network                                 *)
(***************************************************************************)

\* A round of the maintenance task, which ends with the endpoint.
Maintain ==
    /\ ~closed
    /\ \E gone \in Reap \ {{}} :
        /\ peers' = Without(gone)
        /\ cached' = Emptied(gone)
        /\ open' = open \ Close(gone)
    /\ UNCHANGED <<calls, closed>>

\* A connection is closed by the peer, by the transport's idle timeout or by a
\* loss of the network.
ConnectionLost(c) ==
    /\ c \in open
    /\ open' = open \ {c}
    /\ UNCHANGED <<peers, cached, calls, closed>>

\* The process shuts down: the endpoint is closed and its connections with it.
CloseEndpoint ==
    /\ ~closed
    /\ closed' = TRUE
    /\ open' = {}
    /\ UNCHANGED <<peers, cached, calls>>

\* The steps of open_stream on its way to a stream or an error.
Proceed(s) ==
    \/ FindSlot(s) \/ MakeSlot(s) \/ PoolBusy(s)
    \/ Reuse(s) \/ StartDial(s) \/ GetPermit(s) \/ Dialed(s) \/ DialFails(s)
    \/ Lease(s) \/ LeaseFails(s)
    \/ Opened(s) \/ OpenFails(s) \/ LookUp(s) \/ Invalidate(s)

Next ==
    \/ \E s \in Session : Proceed(s) \/ Finish(s) \/ \E p \in Peer : OpenStream(s, p)
    \/ Maintain
    \/ \E c \in Connection : ConnectionLost(c)
    \/ CloseEndpoint

Spec == Init /\ [][Next]_vars

\* The waits for the network have a timeout, and the mutex and the semaphores of
\* tokio serve their waiters in the order of arrival, so a call that can go on
\* again and again does.
Fairness == \A s \in Session : SF_vars(Proceed(s))

FairSpec == Spec /\ Fairness

(***************************************************************************)
(* Properties                                                              *)
(***************************************************************************)

\* The type of every variable.
TypeOK ==
    /\ peers \in [Peer -> Slot \cup {None}]
    /\ cached \in [Slot -> Connection \cup {None}]
    /\ open \in SUBSET Connection
    /\ calls \in [Session -> [at : Places, peer : Peer \cup {None},
                              slot : Slot \cup {None},
                              connection : Connection \cup {None},
                              attempt : {0, 1}, found : Slot \cup {None}]]
    /\ closed \in BOOLEAN

\* A session that got a slot finds it in the map until it gives it back: neither
\* the sweeps nor an eviction takes out a slot between the moment it is handed
\* out and the end of the stream, so no peer ever has two slots.
HeldSlotsStay ==
    \A s \in Session : calls[s].slot # None => peers[calls[s].peer] = calls[s].slot

\* The map never outgrows MAX_CACHED_CONNECTIONS, also when every slot is in use.
PoolBounded == Cardinality(Mapped) <= MaxCached

\* The sessions of one peer never hold more streams than the peer accepts on a
\* connection, however often its slot and its connection were replaced.
StreamsBounded ==
    \A p \in Peer :
        Cardinality({s \in Session : /\ calls[s].peer = p
                                     /\ calls[s].at \in {"open", "invalidate", "stream"}})
            <= MaxStreams

\* Every live connection is cached in the slot of some peer: none is left behind
\* by a sweep, an eviction, or an invalidation that comes after a new dial.
NoneLeaked == \A c \in open : \E p \in Mapped : cached[peers[p]] = c

\* A call of open_stream comes to an end: sessions that wait for the mutex of a
\* slot, for a dial permit and for a stream permit never wait for each other.
CallsEnd ==
    \A s \in Session : []<>(calls[s].at \in {"idle", "stream"})
=============================================================================
