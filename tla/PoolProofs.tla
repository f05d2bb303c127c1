----------------------------- MODULE PoolProofs -----------------------------
(***************************************************************************)
(* The safety of ConnectionPool for every number of peers, sessions, slots *)
(* and permits.                                                            *)
(***************************************************************************)
EXTENDS ConnectionPool, FiniteSetTheorems, TLAPS

\* Zenon proves a leaf unless the leaf cites SMT.
USE ZenonT(60)

CallType == [at : Places, peer : Peer \cup {None}, slot : Slot \cup {None},
             connection : Connection \cup {None}, attempt : {0, 1}, found : Slot \cup {None}]

\* A call has a slot from the moment ConnectionCache::slot returns, the map keeps
\* that slot for its peer, invalidate looks at that slot, the connection it forgets
\* is closed for good, and a slot that is being dialed has no live connection.
ValidCall(r, P, C, O) ==
    /\ r \in CallType
    /\ r.at # "idle" => r.peer \in Peer
    /\ r.slot # None <=> r.at \notin {"idle", "slot"}
    /\ r.slot # None => P[r.peer] = r.slot
    /\ r.found # None => r.found = r.slot
    /\ r.at = "invalidate" => r.connection \notin O
    /\ r.at \in {"permit", "dial"} => C[r.slot] \notin O

CallsValid == \A s \in Session : ValidCall(calls[s], peers, cached, open)

\* Two calls never dial for the same slot.
Exclusive ==
    \A s, t \in Session :
        /\ calls[s].slot = calls[t].slot
        /\ calls[s].at \in {"permit", "dial"} /\ calls[t].at \in {"permit", "dial"}
        => s = t

\* No slot serves two peers.
Injective == \A p, q \in Mapped : peers[p] = peers[q] => p = q

LeasesBounded == \A i \in Slot : Cardinality(Leases(i)) <= MaxStreams

PoolInv ==
    /\ TypeOK
    /\ CallsValid
    /\ Exclusive
    /\ Injective
    /\ PoolBounded
    /\ LeasesBounded
    /\ NoneLeaked

-----------------------------------------------------------------------------
(* Sets of sessions and of peers                                           *)

LEMMA NoneIsNew == None \notin Peer /\ None \notin Slot /\ None \notin Connection
BY SetsAssumption DEF Connection, Slot

LEMMA LeasesFinite == ASSUME NEW S \in SUBSET Session PROVE IsFiniteSet(S)
BY SetsAssumption, FS_Subset

LEMMA OneMore ==
    ASSUME NEW S, IsFiniteSet(S), NEW x
    PROVE  Cardinality(S \cup {x}) <= Cardinality(S) + 1 /\ Cardinality(S \cup {x}) \in Nat
<1>1. Cardinality(S) \in Nat /\ IsFiniteSet(S \cup {x})
    BY FS_AddElement, FS_CardinalityType
<1>2. Cardinality(S \cup {x}) = IF x \in S THEN Cardinality(S) ELSE Cardinality(S) + 1
    BY FS_AddElement
<1> QED
    BY <1>1, <1>2, SMTT(30)

\* Fewer leases stay within the limit.
LEMMA FewerLeases ==
    ASSUME LeasesBounded, \A i \in Slot : Leases(i)' \subseteq Leases(i)
    PROVE  LeasesBounded'
<1> SUFFICES ASSUME NEW i \in Slot PROVE Cardinality(Leases(i)') <= MaxStreams
    BY DEF LeasesBounded
<1>1. Leases(i) \in SUBSET Session
    BY DEF Leases
<1>2. IsFiniteSet(Leases(i))
    BY <1>1, LeasesFinite
<1>3. /\ Cardinality(Leases(i)') \in Nat /\ Cardinality(Leases(i)) \in Nat
      /\ Cardinality(Leases(i)') <= Cardinality(Leases(i))
    BY <1>2, FS_Subset, FS_CardinalityType
<1> QED
    BY <1>3, LimitsAssumption, SMTT(30) DEF LeasesBounded

LEMMA MappedFinite == ASSUME NEW S \in SUBSET Mapped PROVE IsFiniteSet(S) /\ Cardinality(S) \in Nat
<1>1. S \in SUBSET Peer
    BY DEF Mapped
<1> QED
    BY <1>1, SetsAssumption, FS_Subset, FS_CardinalityType

\* Slots that no call refers to leave the map, and their connections are closed.
LEMMA Swept ==
    ASSUME PoolInv, NEW gone \in SUBSET Mapped, \A p \in gone : Holders(peers[p]) = {}
    PROVE  /\ Without(gone) \in [Peer -> Slot \cup {None}]
           /\ Emptied(gone) \in [Slot -> Connection \cup {None}]
           /\ open \ Close(gone) \in SUBSET Connection
           /\ {p \in Peer : Without(gone)[p] # None} = Mapped \ gone
           /\ \A p \in Mapped \ gone : Without(gone)[p] = peers[p]
           /\ \A s \in Session : calls[s].slot # None =>
                /\ Without(gone)[calls[s].peer] = calls[s].slot
                /\ Emptied(gone)[calls[s].slot] = cached[calls[s].slot]
           /\ \A c \in open \ Close(gone) : \E p \in Mapped \ gone : Emptied(gone)[peers[p]] = c
<1>1. peers \in [Peer -> Slot \cup {None}] /\ cached \in [Slot -> Connection \cup {None}]
      /\ open \in SUBSET Connection /\ gone \subseteq Peer
    BY DEF PoolInv, TypeOK, Mapped
<1>2. Without(gone) \in [Peer -> Slot \cup {None}] /\ Emptied(gone) \in [Slot -> Connection \cup {None}]
    BY <1>1 DEF Without, Emptied
<1>3. {p \in Peer : Without(gone)[p] # None} = Mapped \ gone
      /\ \A p \in Mapped \ gone : Without(gone)[p] = peers[p]
    BY <1>1 DEF Without, Mapped
<1>4. ASSUME NEW s \in Session, calls[s].slot # None
      PROVE  /\ Without(gone)[calls[s].peer] = calls[s].slot
             /\ Emptied(gone)[calls[s].slot] = cached[calls[s].slot]
    <2>1. calls[s].peer \in Peer /\ calls[s].slot \in Slot /\ peers[calls[s].peer] = calls[s].slot
        BY <1>4 DEF PoolInv, CallsValid, ValidCall, CallType
    <2>2. s \in Holders(calls[s].slot)
        BY DEF Holders
    <2>3. calls[s].peer \notin gone
        BY <2>1, <2>2
    <2> QED
        BY <2>1, <2>2, <2>3 DEF Without, Emptied
<1>5. ASSUME NEW c \in open \ Close(gone)
      PROVE  \E p \in Mapped \ gone : Emptied(gone)[peers[p]] = c
    <2>1. PICK p \in Mapped : cached[peers[p]] = c
        BY DEF PoolInv, NoneLeaked
    <2>2. p \notin gone
        <3>1. SUFFICES ASSUME p \in gone PROVE FALSE
            OBVIOUS
        <3>2. p \in {q \in gone : Holders(peers[q]) = {}}
            BY <3>1
        <3> QED
            BY <2>1, <3>2 DEF Close
    <2>3. peers[p] \in Slot
        BY <1>1 DEF Mapped
    <2>4. ~ \E q \in gone : peers[q] = peers[p] /\ Holders(peers[p]) = {}
        BY <2>2 DEF PoolInv, Injective
    <2> QED
        BY <2>1, <2>2, <2>3, <2>4 DEF Emptied
<1> QED
    BY <1>1, <1>2, <1>3, <1>4, <1>5

\* The slots that reap takes out are such slots.
LEMMA ReapUnused ==
    ASSUME NEW gone \in Reap
    PROVE  gone \in SUBSET Mapped /\ \A p \in gone : Holders(peers[p]) = {}
BY DEF Reap

-----------------------------------------------------------------------------
(* Steps                                                                   *)

\* What is left to show of a step in which call s becomes r.
LEMMA OneCall ==
    ASSUME PoolInv, NEW s \in Session, NEW r,
           calls' = [calls EXCEPT ![s] = r],
           peers' \in [Peer -> Slot \cup {None}], cached' \in [Slot -> Connection \cup {None}],
           open' \in SUBSET Connection, closed' \in BOOLEAN,
           ValidCall(r, peers', cached', open'),
           \A t \in Session \ {s} : ValidCall(calls[t], peers', cached', open'),
           r.at \in {"permit", "dial"} =>
               \A t \in Session \ {s} : calls[t].at \in {"permit", "dial"} => calls[t].slot # r.slot,
           Injective', PoolBounded', LeasesBounded', NoneLeaked'
    PROVE  PoolInv'
<1>1. calls \in [Session -> CallType] /\ r \in CallType
    BY DEF PoolInv, TypeOK, CallType, ValidCall
<1>2. TypeOK'
    BY <1>1 DEF TypeOK, CallType
<1>3. CallsValid'
    BY <1>1 DEF CallsValid
<1>4. Exclusive'
    BY <1>1 DEF PoolInv, Exclusive
<1> QED
    BY <1>2, <1>3, <1>4 DEF PoolInv

\* The same when nothing but the call changes.
LEMMA OnlyCall ==
    ASSUME PoolInv, NEW s \in Session, NEW r,
           calls' = [calls EXCEPT ![s] = r], UNCHANGED <<peers, cached, open, closed>>,
           ValidCall(r, peers, cached, open),
           r.at \in {"permit", "dial"} =>
               \A t \in Session \ {s} : calls[t].at \in {"permit", "dial"} => calls[t].slot # r.slot,
           LeasesBounded'
    PROVE  PoolInv'
<1>1. TypeOK /\ CallsValid /\ Injective /\ PoolBounded /\ NoneLeaked
    BY DEF PoolInv
<1>2. Injective' /\ PoolBounded' /\ NoneLeaked'
    BY <1>1 DEF Injective, PoolBounded, NoneLeaked, Mapped
<1> QED
    BY <1>1, <1>2, OneCall DEF TypeOK, CallsValid

\* A call that ends, or stays on this side of the lease, needs no new permit.
LEMMA NoNewLease ==
    ASSUME PoolInv, NEW s \in Session, NEW r \in CallType, calls' = [calls EXCEPT ![s] = r],
           r.at \in {"open", "invalidate", "stream"} =>
               calls[s].at \in {"open", "invalidate", "stream"} /\ r.slot = calls[s].slot
    PROVE  LeasesBounded'
<1>1. calls \in [Session -> CallType]
    BY DEF PoolInv, TypeOK, CallType
<1>2. \A i \in Slot : Leases(i)' \subseteq Leases(i)
    BY <1>1 DEF Leases
<1> QED
    BY <1>2, FewerLeases DEF PoolInv

LEMMA NoCallValid == NoCall \in CallType /\ \A P, C, O : ValidCall(NoCall, P, C, O)
BY NoneIsNew DEF NoCall, CallType, Places, ValidCall

\* The call ends.
LEMMA CallEnds ==
    ASSUME PoolInv, NEW s \in Session, calls' = [calls EXCEPT ![s] = NoCall],
           UNCHANGED <<peers, cached, open, closed>>
    PROVE  PoolInv'
<1>1. NoCall.at = "idle"
    BY DEF NoCall
<1>2. LeasesBounded'
    BY <1>1, NoCallValid, NoNewLease
<1> QED
    BY <1>1, <1>2, NoCallValid, OnlyCall

\* The steps that change one call and nothing else.
LEMMA CallSteps ==
    ASSUME PoolInv, NEW s \in Session,
           \/ \E p \in Peer : OpenStream(s, p)
           \/ Reuse(s) \/ GetPermit(s) \/ DialFails(s) \/ Lease(s) \/ LeaseFails(s)
           \/ Opened(s) \/ OpenFails(s) \/ LookUp(s) \/ Finish(s)
    PROVE  PoolInv'
<1> USE DEF CallsValid
<1>t. TypeOK /\ CallsValid /\ Exclusive /\ calls \in [Session -> CallType]
      /\ calls[s] \in CallType /\ ValidCall(calls[s], peers, cached, open)
    BY DEF PoolInv, TypeOK, CallType
<1>1. ASSUME NEW p \in Peer, OpenStream(s, p) PROVE PoolInv'
    <2> DEFINE r == [NoCall EXCEPT !.at = "slot", !.peer = p]
    <2>1. r.at = "slot" /\ r \in CallType /\ ValidCall(r, peers, cached, open)
        BY NoneIsNew DEF NoCall, CallType, Places, ValidCall
    <2>2. calls' = [calls EXCEPT ![s] = r] /\ UNCHANGED <<peers, cached, open, closed>>
        BY <1>1 DEF OpenStream
    <2> HIDE DEF r
    <2>3. LeasesBounded'
        BY <2>1, <2>2, NoNewLease
    <2> QED
        BY <2>1, <2>2, <2>3, OnlyCall
<1>2. CASE Reuse(s)
    <2> DEFINE r == [calls[s] EXCEPT !.at = "lease", !.connection = cached[calls[s].slot]]
    <2>1. r.at = "lease" /\ r \in CallType /\ ValidCall(r, peers, cached, open)
        BY <1>t, <1>2 DEF Reuse, CallType, Places, ValidCall, TypeOK
    <2>2. calls' = [calls EXCEPT ![s] = r] /\ UNCHANGED <<peers, cached, open, closed>>
        BY <1>2 DEF Reuse
    <2> HIDE DEF r
    <2>3. LeasesBounded'
        BY <2>1, <2>2, NoNewLease
    <2> QED
        BY <2>1, <2>2, <2>3, OnlyCall
<1>3. CASE GetPermit(s)
    <2> DEFINE r == [calls[s] EXCEPT !.at = "dial"]
    <2>0. UNCHANGED <<peers, cached, open, closed>>
        BY <1>3 DEF GetPermit
    <2>1. r.at = "dial" /\ r.slot = calls[s].slot /\ r \in CallType /\ ValidCall(r, peers, cached, open)
        BY <1>t, <1>3 DEF GetPermit, CallType, Places, ValidCall, TypeOK
    <2>2. calls' = [calls EXCEPT ![s] = NoCall] \/ calls' = [calls EXCEPT ![s] = r]
        BY <1>3 DEF GetPermit
    <2>3. \A t \in Session \ {s} : calls[t].at \in {"permit", "dial"} => calls[t].slot # r.slot
        BY <1>t, <1>3, <2>1 DEF GetPermit, Exclusive
    <2>4. ASSUME calls' = [calls EXCEPT ![s] = r] PROVE PoolInv'
        <3> HIDE DEF r
        <3>1. LeasesBounded'
            BY <2>1, <2>4, NoNewLease
        <3> QED
            BY <2>0, <2>1, <2>3, <2>4, <3>1, OnlyCall
    <2> QED
        BY <2>0, <2>2, <2>4, CallEnds
<1>4. CASE DialFails(s)
    BY <1>4, CallEnds DEF DialFails
<1>5. CASE Lease(s)
    <2> DEFINE r == [calls[s] EXCEPT !.at = "open"]
    <2>1. r.at = "open" /\ r.slot = calls[s].slot /\ r \in CallType /\ ValidCall(r, peers, cached, open)
        BY <1>t, <1>5 DEF Lease, CallType, Places, ValidCall, TypeOK
    <2>2. calls' = [calls EXCEPT ![s] = r] /\ UNCHANGED <<peers, cached, open, closed>>
        BY <1>5 DEF Lease
    <2>3. calls[s].slot \in Slot /\ Cardinality(Leases(calls[s].slot)) < MaxStreams
        BY <1>t, <1>5 DEF Lease, ValidCall, CallType
    <2> HIDE DEF r
    <2>4. ASSUME NEW i \in Slot PROVE Cardinality(Leases(i)') <= MaxStreams
        <3>1. Leases(i)' = IF i = calls[s].slot THEN Leases(i) \cup {s} ELSE Leases(i)
            BY <1>t, <2>1, <2>2, <1>5 DEF Leases, Lease
        <3>2. Leases(i) \in SUBSET Session
            BY DEF Leases
        <3>3. IsFiniteSet(Leases(i)) /\ Cardinality(Leases(i)) \in Nat
            BY <3>2, LeasesFinite, FS_CardinalityType
        <3>4. Cardinality(Leases(i) \cup {s}) <= Cardinality(Leases(i)) + 1
            BY <3>3, FS_AddElement, SMTT(30)
        <3>5. IsFiniteSet(Leases(i) \cup {s}) /\ Cardinality(Leases(i) \cup {s}) \in Nat
            BY <3>3, FS_AddElement, FS_CardinalityType
        <3>6. Cardinality(Leases(i)) <= MaxStreams
            BY DEF PoolInv, LeasesBounded
        <3> QED
            BY <2>3, <3>1, <3>3, <3>4, <3>5, <3>6, LimitsAssumption, SMTT(30)
    <2> QED
        BY <2>1, <2>2, <2>4, OnlyCall DEF LeasesBounded
<1>6. CASE LeaseFails(s)
    BY <1>6, CallEnds DEF LeaseFails
<1>7. CASE Opened(s)
    <2> DEFINE r == [calls[s] EXCEPT !.at = "stream"]
    <2>1. r.at = "stream" /\ r.slot = calls[s].slot /\ r \in CallType /\ ValidCall(r, peers, cached, open)
        BY <1>t, <1>7 DEF Opened, CallType, Places, ValidCall, TypeOK
    <2>2. calls' = [calls EXCEPT ![s] = r] /\ UNCHANGED <<peers, cached, open, closed>> /\ calls[s].at = "open"
        BY <1>7 DEF Opened
    <2> HIDE DEF r
    <2>3. LeasesBounded'
        BY <2>1, <2>2, NoNewLease
    <2> QED
        BY <2>1, <2>2, <2>3, OnlyCall
<1>8. CASE OpenFails(s)
    BY <1>8, CallEnds DEF OpenFails
<1>9. CASE LookUp(s)
    <2> DEFINE r == [calls[s] EXCEPT !.at = "invalidate", !.found = peers[calls[s].peer]]
    <2>1. r.at = "invalidate" /\ r.slot = calls[s].slot /\ r \in CallType /\ ValidCall(r, peers, cached, open)
        BY <1>t, <1>9, NoneIsNew DEF LookUp, CallType, Places, ValidCall, TypeOK
    <2>2. calls' = [calls EXCEPT ![s] = r] /\ UNCHANGED <<peers, cached, open, closed>> /\ calls[s].at = "open"
        BY <1>9 DEF LookUp
    <2> HIDE DEF r
    <2>3. LeasesBounded'
        BY <2>1, <2>2, NoNewLease
    <2> QED
        BY <2>1, <2>2, <2>3, OnlyCall
<1>10. CASE Finish(s)
    BY <1>10, CallEnds DEF Finish
<1> QED
    BY <1>1, <1>2, <1>3, <1>4, <1>5, <1>6, <1>7, <1>8, <1>9, <1>10

\* The steps that change what a slot holds.
LEMMA SlotSteps ==
    ASSUME PoolInv, NEW s \in Session, StartDial(s) \/ Dialed(s) \/ Invalidate(s)
    PROVE  PoolInv'
<1>t. /\ peers \in [Peer -> Slot \cup {None}] /\ cached \in [Slot -> Connection \cup {None}]
      /\ open \in SUBSET Connection /\ closed \in BOOLEAN /\ calls \in [Session -> CallType]
      /\ Exclusive /\ Injective /\ PoolBounded /\ NoneLeaked
      /\ \A t \in Session : ValidCall(calls[t], peers, cached, open)
      /\ calls[s] \in CallType
    BY DEF PoolInv, TypeOK, CallType, CallsValid
<1>1. CASE StartDial(s)
    <2> DEFINE r == [calls[s] EXCEPT !.at = "permit"]
    <2>1. /\ calls' = [calls EXCEPT ![s] = r] /\ UNCHANGED <<peers, open, closed>>
          /\ calls[s].slot \in Slot /\ cached' = [cached EXCEPT ![calls[s].slot] = None]
          /\ ~Locked(calls[s].slot) /\ cached[calls[s].slot] \notin open
        BY <1>t, <1>1 DEF StartDial, ValidCall, CallType
    <2>2. cached' \in [Slot -> Connection \cup {None}] /\ None \notin open
        BY <1>t, <2>1, NoneIsNew
    <2>3. r.at = "permit" /\ r.slot = calls[s].slot /\ r \in CallType /\ ValidCall(r, peers, cached', open)
        BY <1>t, <1>1, <2>1, <2>2 DEF StartDial, CallType, Places, ValidCall
    <2> HIDE DEF r
    <2>4. \A t \in Session \ {s} : ValidCall(calls[t], peers, cached', open)
        BY <1>t, <2>1, <2>2 DEF ValidCall, CallType
    <2>5. \A t \in Session \ {s} : calls[t].at \in {"permit", "dial"} => calls[t].slot # r.slot
        BY <2>1, <2>3 DEF Locked
    <2>6. LeasesBounded'
        BY <2>1, <2>3, NoNewLease
    <2>7. Injective' /\ PoolBounded'
        BY <1>t, <2>1 DEF Injective, PoolBounded, Mapped
    <2>8. NoneLeaked'
        BY <1>t, <2>1, SMTT(30) DEF NoneLeaked, Mapped
    <2> QED
        BY <1>t, <2>1, <2>2, <2>3, <2>4, <2>5, <2>6, <2>7, <2>8, OneCall
<1>2. CASE Dialed(s)
    <2>0. PICK c \in NewConnection(calls[s].peer) :
            /\ open' = open \cup {c}
            /\ cached' = [cached EXCEPT ![calls[s].slot] = c]
            /\ calls' = [calls EXCEPT ![s].at = "lease", ![s].connection = c]
        BY <1>2 DEF Dialed
    <2> DEFINE r == [calls[s] EXCEPT !.at = "lease", !.connection = c]
    <2>1. /\ calls' = [calls EXCEPT ![s] = r] /\ UNCHANGED <<peers, closed>> /\ calls[s].at = "dial"
          /\ calls[s].slot \in Slot /\ calls[s].peer \in Peer /\ cached[calls[s].slot] \notin open
          /\ peers[calls[s].peer] = calls[s].slot
        BY <1>t, <1>2, <2>0 DEF Dialed, ValidCall, CallType
    <2>2. /\ c \in Connection /\ c \notin open /\ \A i \in Slot : cached[i] # c
          /\ \A t \in Session : calls[t].connection # c
        BY DEF NewConnection, FreeConnection
    <2>3. cached' \in [Slot -> Connection \cup {None}] /\ open' \in SUBSET Connection
        BY <1>t, <2>0, <2>2
    <2>4. r.at = "lease" /\ r.slot = calls[s].slot /\ r \in CallType /\ ValidCall(r, peers, cached', open')
        BY <1>t, <2>0, <2>1, <2>2 DEF CallType, Places, ValidCall
    <2> HIDE DEF r
    <2>5. ASSUME NEW t \in Session \ {s} PROVE ValidCall(calls[t], peers, cached', open')
        <3>1. calls[t].at \in {"permit", "dial"} => calls[t].slot # calls[s].slot
            BY <1>t, <2>1 DEF Exclusive
        <3> QED
            BY <1>t, <2>0, <2>1, <2>2, <3>1 DEF ValidCall, CallType
    <2>6. LeasesBounded'
        BY <2>1, <2>4, NoNewLease
    <2>7. Injective' /\ PoolBounded'
        BY <1>t, <2>1 DEF Injective, PoolBounded, Mapped
    <2>8. calls[s].peer \in Mapped /\ Mapped' = Mapped /\ \A p \in Mapped : peers[p] \in Slot
        BY <1>t, <2>1, NoneIsNew DEF Mapped
    <2>9. NoneLeaked'
        BY <1>t, <2>0, <2>1, <2>8, SMTT(30) DEF NoneLeaked
    <2> QED
        BY <1>t, <2>1, <2>3, <2>4, <2>5, <2>6, <2>7, <2>9, OneCall
<1>3. CASE Invalidate(s)
    <2> DEFINE r == Again(s)
    <2>1. /\ calls' = [calls EXCEPT ![s] = r] /\ UNCHANGED <<peers, open, closed>>
          /\ calls[s].connection \notin open /\ calls[s].peer \in Peer
        BY <1>t, <1>3 DEF Invalidate, ValidCall, CallType
    <2>2. r.at \in {"idle", "slot"} /\ r \in CallType /\ \A C \in {cached'} : ValidCall(r, peers, C, open)
        BY <2>1, NoneIsNew DEF Again, NoCall, CallType, Places, ValidCall
    <2>3. \/ cached' = cached
          \/ \E i \in Slot : cached[i] = calls[s].connection /\ cached' = [cached EXCEPT ![i] = None]
        BY <1>t, <1>3 DEF Invalidate, Forgotten, CallType
    <2> HIDE DEF r
    <2>4. cached' \in [Slot -> Connection \cup {None}] /\ None \notin open
        BY <1>t, <2>3, NoneIsNew
    <2>5. \A i \in Slot : cached[i] \in open => cached'[i] = cached[i]
        BY <1>t, <2>1, <2>3
    <2>6. \A i \in Slot : cached[i] \notin open => cached'[i] \notin open
        BY <1>t, <2>3, <2>4
    <2>7. \A t \in Session \ {s} : ValidCall(calls[t], peers, cached', open)
        BY <1>t, <2>6 DEF ValidCall, CallType
    <2>8. LeasesBounded'
        BY <2>1, <2>2, NoNewLease
    <2>9. Injective' /\ PoolBounded'
        BY <1>t, <2>1 DEF Injective, PoolBounded, Mapped
    <2>10. NoneLeaked'
        BY <1>t, <2>1, <2>5, SMTT(30) DEF NoneLeaked, Mapped
    <2> QED
        BY <1>t, <2>1, <2>2, <2>4, <2>7, <2>8, <2>9, <2>10, OneCall
<1> QED
    BY <1>1, <1>2, <1>3

\* What a sweep leaves of the invariant, in the primed state of its step.
LEMMA SweptStep ==
    ASSUME PoolInv, NEW gone \in SUBSET Mapped, \A p \in gone : Holders(peers[p]) = {},
           peers' = Without(gone), cached' = Emptied(gone), open' = open \ Close(gone)
    PROVE  /\ peers' \in [Peer -> Slot \cup {None}] /\ cached' \in [Slot -> Connection \cup {None}]
           /\ open' \in SUBSET Connection
           /\ \A t \in Session : ValidCall(calls[t], peers', cached', open')
           /\ Mapped' = Mapped \ gone /\ \A p \in Mapped' : peers'[p] = peers[p]
           /\ Injective' /\ PoolBounded' /\ NoneLeaked'
<1>1. TypeOK /\ CallsValid /\ Injective /\ PoolBounded
    BY DEF PoolInv
<1>2. /\ peers' \in [Peer -> Slot \cup {None}] /\ cached' \in [Slot -> Connection \cup {None}]
      /\ open' \in SUBSET Connection /\ open' \subseteq open
    BY Swept
<1>3. Mapped' = Mapped \ gone /\ \A p \in Mapped' : peers'[p] = peers[p]
    BY Swept, SMTT(30) DEF Mapped
<1>4. \A t \in Session : calls[t].slot # None =>
        peers'[calls[t].peer] = calls[t].slot /\ cached'[calls[t].slot] = cached[calls[t].slot]
    BY Swept, SMTT(30)
<1>5. \A t \in Session : ValidCall(calls[t], peers', cached', open')
    BY <1>1, <1>2, <1>4 DEF CallsValid, ValidCall
<1>6. Injective'
    BY <1>1, <1>3, SMTT(30) DEF Injective
<1>7. PoolBounded'
    <2>1. Cardinality(Mapped \ gone) <= Cardinality(Mapped)
        BY MappedFinite, FS_Subset
    <2> QED
        BY <1>1, <1>3, <2>1, MappedFinite, LimitsAssumption, SMTT(30) DEF PoolBounded
<1>8. NoneLeaked'
    <2>1. \A c \in open \ Close(gone) : \E p \in Mapped \ gone : Emptied(gone)[peers[p]] = c
        BY Swept
    <2> QED
        BY <1>3, <2>1 DEF NoneLeaked
<1> QED
    BY <1>2, <1>3, <1>5, <1>6, <1>7, <1>8

\* The steps that take slots out of the map, but for MakeSlot.
LEMMA SweepSteps ==
    ASSUME PoolInv, \/ \E s \in Session : FindSlot(s) \/ PoolBusy(s)
                    \/ Maintain
    PROVE  PoolInv'
<1>t. /\ closed \in BOOLEAN /\ calls \in [Session -> CallType] /\ TypeOK
      /\ Exclusive /\ LeasesBounded /\ CallsValid
    BY DEF PoolInv, TypeOK, CallType
<1>1. ASSUME NEW s \in Session, FindSlot(s) PROVE PoolInv'
    <2>1. PICK gone \in Reap : /\ calls[s].peer \in Mapped \ gone /\ peers' = Without(gone)
                               /\ cached' = Emptied(gone) /\ open' = open \ Close(gone)
        BY <1>1 DEF FindSlot
    <2> DEFINE r == [calls[s] EXCEPT !.at = "lock", !.slot = peers[calls[s].peer]]
    <2>2. calls' = [calls EXCEPT ![s] = r] /\ closed' = closed /\ calls[s].at = "slot" /\ calls[s] \in CallType
        BY <1>t, <1>1 DEF FindSlot
    <2>3. /\ peers' \in [Peer -> Slot \cup {None}] /\ cached' \in [Slot -> Connection \cup {None}]
          /\ open' \in SUBSET Connection
          /\ \A t \in Session : ValidCall(calls[t], peers', cached', open')
          /\ Mapped' = Mapped \ gone /\ \A p \in Mapped' : peers'[p] = peers[p]
          /\ Injective' /\ PoolBounded' /\ NoneLeaked'
        BY <2>1, ReapUnused, SweptStep
    <2>4. calls[s].peer \in Peer /\ peers'[calls[s].peer] = peers[calls[s].peer] /\ peers[calls[s].peer] \in Slot
        BY <1>t, <2>1, <2>3 DEF Mapped, TypeOK
    <2>5. r.at = "lock" /\ r \in CallType /\ ValidCall(r, peers', cached', open')
        BY <2>2, <2>3, <2>4, NoneIsNew DEF ValidCall, CallType, Places
    <2> HIDE DEF r
    <2>6. LeasesBounded'
        BY <2>2, <2>5, NoNewLease
    <2> QED
        BY <1>t, <2>2, <2>3, <2>5, <2>6, OneCall
<1>2. ASSUME NEW s \in Session, PoolBusy(s) PROVE PoolInv'
    <2>1. PICK gone \in Reap : /\ peers' = Without(gone)
                               /\ cached' = Emptied(gone) /\ open' = open \ Close(gone)
        BY <1>2 DEF PoolBusy
    <2>2. calls' = [calls EXCEPT ![s] = NoCall] /\ closed' = closed
        BY <1>2 DEF PoolBusy
    <2>3. /\ peers' \in [Peer -> Slot \cup {None}] /\ cached' \in [Slot -> Connection \cup {None}]
          /\ open' \in SUBSET Connection
          /\ \A t \in Session : ValidCall(calls[t], peers', cached', open')
          /\ Injective' /\ PoolBounded' /\ NoneLeaked'
        BY <2>1, ReapUnused, SweptStep
    <2>4. NoCall.at = "idle"
        BY DEF NoCall
    <2>5. LeasesBounded'
        BY <2>2, <2>4, NoCallValid, NoNewLease
    <2> QED
        BY <1>t, <2>2, <2>3, <2>4, <2>5, NoCallValid, OneCall
<1>3. CASE Maintain
    <2>1. PICK gone \in Reap : /\ peers' = Without(gone)
                               /\ cached' = Emptied(gone) /\ open' = open \ Close(gone)
        BY <1>3 DEF Maintain
    <2>2. UNCHANGED <<calls, closed>>
        BY <1>3 DEF Maintain
    <2>3. /\ peers' \in [Peer -> Slot \cup {None}] /\ cached' \in [Slot -> Connection \cup {None}]
          /\ open' \in SUBSET Connection
          /\ \A t \in Session : ValidCall(calls[t], peers', cached', open')
          /\ Injective' /\ PoolBounded' /\ NoneLeaked'
        BY <2>1, ReapUnused, SweptStep
    <2>4. TypeOK' /\ CallsValid' /\ Exclusive' /\ LeasesBounded'
        BY <1>t, <2>2, <2>3 DEF TypeOK, CallsValid, Exclusive, LeasesBounded, Leases
    <2> QED
        BY <2>3, <2>4 DEF PoolInv
<1> QED
    BY <1>1, <1>2, <1>3

\* A new slot, in the place of an unused one when the map is full.
LEMMA MakeSlotStep == ASSUME PoolInv, NEW s \in Session, MakeSlot(s) PROVE PoolInv'
<1>t. /\ closed \in BOOLEAN /\ calls \in [Session -> CallType] /\ TypeOK
      /\ Exclusive /\ CallsValid /\ Injective /\ PoolBounded
    BY DEF PoolInv, TypeOK, CallType
<1> DEFINE p == calls[s].peer
<1>0. PICK swept \in Reap : \E evicted \in SUBSET (Mapped \ swept) :
        /\ p \notin Mapped \ swept
        /\ IF Full(Mapped \ swept)
           THEN \E q \in Evictable(Mapped \ swept) : evicted = {q}
           ELSE evicted = {}
        /\ \E i \in NewSlot(p) :
            /\ peers' = [Without(swept \cup evicted) EXCEPT ![p] = i]
            /\ cached' = [Emptied(swept \cup evicted) EXCEPT ![i] = None]
            /\ open' = open \ Close(swept \cup evicted)
            /\ calls' = [calls EXCEPT ![s].at = "lock", ![s].slot = i]
    BY DEF MakeSlot
<1>1. PICK evicted \in SUBSET (Mapped \ swept) :
        /\ p \notin Mapped \ swept
        /\ IF Full(Mapped \ swept)
           THEN \E q \in Evictable(Mapped \ swept) : evicted = {q}
           ELSE evicted = {}
        /\ \E i \in NewSlot(p) :
            /\ peers' = [Without(swept \cup evicted) EXCEPT ![p] = i]
            /\ cached' = [Emptied(swept \cup evicted) EXCEPT ![i] = None]
            /\ open' = open \ Close(swept \cup evicted)
            /\ calls' = [calls EXCEPT ![s].at = "lock", ![s].slot = i]
    BY <1>0
<1> DEFINE gone == swept \cup evicted
           W == Without(gone)
           E == Emptied(gone)
<1>2. PICK i \in NewSlot(p) :
        /\ peers' = [W EXCEPT ![p] = i] /\ cached' = [E EXCEPT ![i] = None]
        /\ open' = open \ Close(gone)
        /\ calls' = [calls EXCEPT ![s].at = "lock", ![s].slot = i]
    BY <1>1
<1> DEFINE r == [calls[s] EXCEPT !.at = "lock", !.slot = i]
<1>3. i \in Slot /\ Holders(i) = {} /\ \A q \in Peer : peers[q] # i
    BY DEF NewSlot, FreeSlot
<1>4. /\ calls[s] \in CallType /\ calls[s].at = "slot" /\ p \in Peer /\ closed' = closed
      /\ calls' = [calls EXCEPT ![s] = r] /\ ValidCall(calls[s], peers, cached, open)
    BY <1>t, <1>2 DEF MakeSlot, CallsValid, ValidCall
<1>5. gone \in SUBSET Mapped /\ \A q \in gone : Holders(peers[q]) = {}
    BY <1>1, ReapUnused DEF Evictable
<1>6. /\ W \in [Peer -> Slot \cup {None}] /\ E \in [Slot -> Connection \cup {None}]
      /\ open' \in SUBSET Connection /\ open' \subseteq open
      /\ {q \in Peer : W[q] # None} = Mapped \ gone
      /\ \A q \in Mapped \ gone : W[q] = peers[q]
      /\ \A t \in Session : calls[t].slot # None =>
           W[calls[t].peer] = calls[t].slot /\ E[calls[t].slot] = cached[calls[t].slot]
      /\ \A c \in open' : \E q \in Mapped \ gone : E[peers[q]] = c
    BY <1>2, <1>5, Swept
<1> HIDE DEF W, E, gone
<1>7. p \notin Mapped \ gone /\ W[p] = None
    BY <1>1, <1>4, <1>6 DEF gone
<1>8. /\ peers' \in [Peer -> Slot \cup {None}] /\ cached' \in [Slot -> Connection \cup {None}]
      /\ Mapped' = (Mapped \ gone) \cup {p} /\ peers'[p] = i /\ \A q \in Mapped \ gone : peers'[q] = peers[q]
    <2>1. peers' \in [Peer -> Slot \cup {None}] /\ cached' \in [Slot -> Connection \cup {None}]
        BY <1>2, <1>3, <1>4, <1>6
    <2>2. peers'[p] = i /\ i # None /\ \A q \in Peer \ {p} : peers'[q] = W[q]
        BY <1>2, <1>3, <1>4, <1>6, NoneIsNew
    <2>3. \A q \in Peer : peers'[q] # None <=> q \in (Mapped \ gone) \cup {p}
        BY <1>6, <2>2
    <2>4. Mapped' = (Mapped \ gone) \cup {p}
        BY <1>4, <2>3 DEF Mapped
    <2>5. \A q \in Mapped \ gone : q \in Peer /\ q # p
        BY <1>7 DEF Mapped
    <2> QED
        BY <1>6, <2>1, <2>2, <2>4, <2>5
<1>9. r.at = "lock" /\ r.slot = i /\ r \in CallType /\ ValidCall(r, peers', cached', open')
    BY <1>3, <1>4, <1>8, NoneIsNew DEF ValidCall, CallType, Places
<1>10. ASSUME NEW t \in Session \ {s} PROVE ValidCall(calls[t], peers', cached', open')
    <2>1. ValidCall(calls[t], peers, cached, open)
        BY <1>t DEF CallsValid
    <2>2. ASSUME calls[t].slot # None
          PROVE  peers'[calls[t].peer] = calls[t].slot /\ cached'[calls[t].slot] = cached[calls[t].slot]
        <3>1. calls[t].slot # i /\ calls[t].slot \in Slot /\ calls[t].peer \in Peer
            BY <1>3, <2>1, <2>2 DEF Holders, ValidCall, CallType
        <3>2. W[calls[t].peer] = calls[t].slot /\ E[calls[t].slot] = cached[calls[t].slot]
            BY <1>6, <2>2
        <3>3. calls[t].peer # p
            BY <1>7, <2>2, <3>2
        <3> QED
            BY <1>2, <1>6, <3>1, <3>2, <3>3
    <2> QED
        BY <1>6, <2>1, <2>2 DEF ValidCall
<1>11. Injective'
    <2>1. \A q \in Mapped \ gone : q \in Peer /\ peers'[q] = peers[q] /\ peers[q] # i
        BY <1>3, <1>8 DEF Mapped
    <2> QED
        BY <1>t, <1>8, <2>1, SMTT(30) DEF Injective
<1>12. PoolBounded'
    <2> DEFINE M == Mapped \ swept
    <2>1. Mapped \ gone = M \ evicted
        BY DEF gone
    <2>2. /\ IsFiniteSet(M) /\ Cardinality(M) \in Nat /\ Cardinality(M) <= MaxCached
        <3>1. Cardinality(M) <= Cardinality(Mapped)
            BY MappedFinite, FS_Subset
        <3> QED
            BY <1>t, <3>1, MappedFinite, LimitsAssumption, SMTT(30) DEF PoolBounded
    <2>3. /\ IsFiniteSet(M \ evicted) /\ Cardinality(M \ evicted) \in Nat
          /\ Cardinality(M \ evicted) < MaxCached
        <3>1. CASE Full(M)
            <4>1. PICK q \in M : evicted = {q}
                BY <1>1, <3>1 DEF Evictable
            <4>2. Cardinality(M \ {q}) = Cardinality(M) - 1 /\ IsFiniteSet(M \ {q})
                BY <2>2, <4>1, FS_RemoveElement
            <4> QED
                BY <2>2, <4>1, <4>2, FS_CardinalityType, LimitsAssumption, SMTT(30)
        <3>2. CASE ~Full(M)
            <4>1. evicted = {}
                BY <1>1, <3>2
            <4>2. M \ evicted = M
                BY <4>1
            <4> QED
                BY <2>2, <3>2, <4>2, LimitsAssumption, SMTT(30) DEF Full
        <3> QED
            BY <3>1, <3>2
    <2>4. /\ Cardinality((M \ evicted) \cup {p}) <= Cardinality(M \ evicted) + 1
          /\ Cardinality((M \ evicted) \cup {p}) \in Nat
        BY <2>3, OneMore
    <2>6. Mapped' = (M \ evicted) \cup {p}
        BY <1>8, <2>1
    <2> QED
        BY <2>3, <2>4, <2>6, LimitsAssumption, SMTT(30) DEF PoolBounded
<1>13. NoneLeaked'
    <2>1. ASSUME NEW c \in open' PROVE \E q \in Mapped' : cached'[peers'[q]] = c
        <3>1. PICK q \in Mapped \ gone : E[peers[q]] = c
            BY <1>6
        <3>2. q \in Mapped' /\ peers'[q] = peers[q] /\ peers[q] # i /\ peers[q] \in Slot
            BY <1>t, <1>3, <1>8 DEF Mapped, TypeOK
        <3>3. cached'[peers'[q]] = c
            BY <1>2, <1>6, <3>1, <3>2
        <3> QED
            BY <3>2, <3>3
    <2> QED
        BY <2>1 DEF NoneLeaked
<1> HIDE DEF r, p
<1>14. LeasesBounded'
    BY <1>4, <1>9, NoNewLease
<1> QED
    BY <1>t, <1>4, <1>6, <1>8, <1>9, <1>10, <1>11, <1>12, <1>13, <1>14, OneCall

LEMMA LossSteps ==
    ASSUME PoolInv, \/ \E c \in Connection : ConnectionLost(c)
                    \/ CloseEndpoint
                    \/ UNCHANGED vars
    PROVE  PoolInv'
<1>1. /\ open' \subseteq open /\ UNCHANGED <<peers, cached, calls>> /\ closed' \in BOOLEAN
    BY DEF ConnectionLost, CloseEndpoint, vars, PoolInv, TypeOK
<1>2. TypeOK' /\ CallsValid' /\ Exclusive'
    BY <1>1 DEF PoolInv, TypeOK, CallsValid, ValidCall, Exclusive
<1>3. Injective' /\ PoolBounded' /\ NoneLeaked'
    BY <1>1 DEF PoolInv, Injective, PoolBounded, NoneLeaked, Mapped
<1>4. LeasesBounded'
    BY <1>1 DEF PoolInv, LeasesBounded, Leases
<1> QED
    BY <1>2, <1>3, <1>4 DEF PoolInv

LEMMA PoolInit == Init => PoolInv
<1> SUFFICES ASSUME Init PROVE PoolInv
    OBVIOUS
<1>1. TypeOK /\ CallsValid /\ Exclusive
    BY NoCallValid, NoneIsNew DEF Init, TypeOK, CallsValid, Exclusive, CallType, NoCall
<1>2. Mapped = {} /\ \A i \in Slot : Leases(i) = {}
    BY DEF Init, Mapped, Leases, NoCall
<1>3. Injective /\ PoolBounded /\ LeasesBounded
    BY <1>2, FS_EmptySet, LimitsAssumption, SMTT(30) DEF Injective, PoolBounded, LeasesBounded
<1>4. NoneLeaked
    BY DEF Init, NoneLeaked
<1> QED
    BY <1>1, <1>3, <1>4 DEF PoolInv

LEMMA PoolStep == PoolInv /\ [Next]_vars => PoolInv'
BY CallSteps, SlotSteps, SweepSteps, MakeSlotStep, LossSteps DEF Next, Proceed

LEMMA PoolInvariant == Spec => []PoolInv
BY PoolInit, PoolStep, PTL DEF Spec

-----------------------------------------------------------------------------
\* A slot that a session got stays in the map until the session gives it back,
\* whatever reap, slot and invalidate do meanwhile.
THEOREM SlotsStay == Spec => []HeldSlotsStay
<1>1. PoolInv => HeldSlotsStay
    BY DEF PoolInv, CallsValid, ValidCall, HeldSlotsStay
<1> QED
    BY <1>1, PoolInvariant, PTL

\* The map never outgrows MAX_CACHED_CONNECTIONS.
THEOREM CacheBounded == Spec => []PoolBounded
<1>1. PoolInv => PoolBounded
    BY DEF PoolInv
<1> QED
    BY <1>1, PoolInvariant, PTL

\* The sessions of a peer never hold more than MAX_CONNECTION_STREAMS streams: all
\* of them take their permits from the one slot the peer has.
THEOREM PeerStreamsBounded == Spec => []StreamsBounded
<1>1. ASSUME PoolInv PROVE StreamsBounded
    <2> SUFFICES ASSUME NEW p \in Peer
                 PROVE  Cardinality({s \in Session : /\ calls[s].peer = p
                                      /\ calls[s].at \in {"open", "invalidate", "stream"}}) <= MaxStreams
        BY DEF StreamsBounded
    <2> DEFINE S == {s \in Session : /\ calls[s].peer = p
                                     /\ calls[s].at \in {"open", "invalidate", "stream"}}
    <2>1. S \subseteq Leases(peers[p])
        BY <1>1 DEF PoolInv, CallsValid, ValidCall, Leases
    <2>2. S # {} => peers[p] \in Slot
        BY <1>1 DEF PoolInv, CallsValid, ValidCall, CallType
    <2>3. CASE S = {}
        BY <2>3, FS_EmptySet, LimitsAssumption, SMTT(30)
    <2>4. CASE S # {}
        <3>1. Leases(peers[p]) \in SUBSET Session
            BY DEF Leases
        <3>2. IsFiniteSet(Leases(peers[p]))
            BY <3>1, LeasesFinite
        <3> HIDE DEF S
        <3>3. /\ Cardinality(S) <= Cardinality(Leases(peers[p]))
              /\ Cardinality(S) \in Nat /\ Cardinality(Leases(peers[p])) \in Nat
            BY <2>1, <3>2, FS_Subset, FS_CardinalityType
        <3>4. Cardinality(Leases(peers[p])) <= MaxStreams
            BY <1>1, <2>2, <2>4 DEF PoolInv, LeasesBounded
        <3>5. Cardinality(S) <= MaxStreams
            BY <3>3, <3>4, LimitsAssumption, SMTT(30)
        <3> QED
            BY <3>5 DEF S
    <2> QED
        BY <2>3, <2>4
<1> QED
    BY <1>1, PoolInvariant, PTL

\* No live connection is forgotten: every one is cached in the slot of some peer.
THEOREM ConnectionsCached == Spec => []NoneLeaked
<1>1. PoolInv => NoneLeaked
    BY DEF PoolInv
<1> QED
    BY <1>1, PoolInvariant, PTL
=============================================================================
