------------------------------ MODULE Replicas ------------------------------
(***************************************************************************)
(* What the exchange of manifests promises, without directories, clocks    *)
(* or sessions: a map from paths to versioned records that is replicated   *)
(* on every device, with a last writer that wins.  A device changes its    *)
(* own replica only; it keeps a record, takes a winning one from a copy of *)
(* a replica that was on its way, or makes one of its own with a version   *)
(* that no record anywhere has.  Copies may be lost, repeated, overtaken   *)
(* and out of date.  ShareSync is shown to implement this.                 *)
(***************************************************************************)
CONSTANTS Device, Path, Record, NoRecord,
          Wins(_, _),     \* Wins(old, new): a record new that arrives replaces old
          Follows(_, _)   \* Follows(old, new): a record new of its own may replace old

VARIABLES replica,   \* the map on each device
          transit    \* the copies on their way

vars == <<replica, transit>>

Blank == [p \in Path |-> NoRecord]
Everywhere == {replica[d] : d \in Device} \cup transit

\* No record anywhere has version v.
Unused(v) == \A m \in Everywhere : \A p \in Path : m[p] # NoRecord => m[p].version # v

\* A record r of device d's own, in the place of old.
Own(d, old, r) == r \in Record /\ r.version.author = d /\ Unused(r.version) /\ Follows(old, r)

\* Device d takes records from copy m and makes records of its own, all at once.
Update(d, m) ==
  LET new == replica'[d]
      own == {p \in Path : Own(d, replica[d][p], new[p])}
  IN  /\ \A p \in Path \ own : \/ new[p] = replica[d][p]
                               \/ new[p] = m[p] /\ Wins(replica[d][p], m[p])
      /\ \A p, q \in own : new[p].version = new[q].version => p = q
      /\ replica' = [replica EXCEPT ![d] = new]

Init ==
  /\ \E d \in Device : \A e \in Device \ {d} : replica[e] = Blank
  /\ \A d \in Device : \A p, q \in Path :
       replica[d][p] # NoRecord =>
         /\ replica[d][p] \in Record /\ replica[d][p].version.author = d
         /\ replica[d][q] # NoRecord /\ replica[d][p].version = replica[d][q].version => p = q
  /\ transit \subseteq {Blank}

Next ==
  /\ replica' = replica \/ \E d \in Device, m \in transit \cup {Blank} : Update(d, m)
  /\ transit' \subseteq transit \cup {replica'[d] : d \in Device} \cup {Blank}

Spec == Init /\ [][Next]_vars
=============================================================================
