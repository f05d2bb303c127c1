------------------------------ MODULE Manifest ------------------------------
(***************************************************************************)
(* A share's manifest: for every path the record of a file, directory,     *)
(* symbolic link or deletion, with the version that made it.  The source   *)
(* keeps four maps with disjoint keys; here they are one function, and a   *)
(* path without a record has NoRecord.  A file's size and SHA-256 are one  *)
(* value of Data, a link's target is another; a mode stands for the        *)
(* permission bits.                                                        *)
(***************************************************************************)
EXTENDS HLC, FiniteSets

CONSTANTS Path,        \* manifest paths, ordered as their BTreeMap keys are
          Ancestors,   \* the proper ancestor directories of each path
          Data, Mode,
          MaxEntries   \* MAX_MANIFEST_ENTRIES

ASSUME PathAssumption == Path \subseteq Nat /\ IsFiniteSet(Path)
ASSUME AncestorsAssumption == Ancestors \in [Path -> SUBSET Path]
ASSUME AncestorsBelow == \A p \in Path : \A a \in Ancestors[p] : a < p
ASSUME AncestorsTransitive == \A p \in Path : \A a \in Ancestors[p] : Ancestors[a] \subseteq Ancestors[p]
ASSUME DataAssumption == Data \subseteq Nat /\ Mode \subseteq Nat
ASSUME MaxEntriesAssumption == MaxEntries \in Nat

File(x, m) == [kind |-> "file", data |-> x, mode |-> m]
Dir(m)     == [kind |-> "dir", data |-> 0, mode |-> m]
Link(x)    == [kind |-> "link", data |-> x, mode |-> 0]
NoNode     == [kind |-> "none", data |-> 0, mode |-> 0]
Deleted    == [kind |-> "tomb", data |-> 0, mode |-> 0]

\* What can be at a path of the shared directory.
Node == [kind : {"file"}, data : Data, mode : Mode]
          \cup [kind : {"dir"}, data : {0}, mode : Mode]
          \cup [kind : {"link"}, data : Data, mode : {0}]

NoVersion == [wall_ms |-> 0, counter |-> 0, author |-> 0]
NoRecord  == [node |-> NoNode, version |-> NoVersion]
Record    == [node : Node \cup {Deleted}, version : Version]
Manifests == [Path -> Record \cup {NoRecord}]
Empty     == [p \in Path |-> NoRecord]

\* The digest covers every record; times of files and of the scan are left out.
sync_digest(m) == {<<p, m[p]>> : p \in {q \in Path : m[q] # NoRecord}}

Live(n) == n.kind \in {"file", "dir", "link"}
IsTombstone(r) == r.node.kind = "tomb"
NodeOf(r) == IF Live(r.node) THEN r.node ELSE NoNode
SameContent(a, b) ==
  a.node.kind = "file" /\ b.node.kind = "file" /\ a.node.data = b.node.data

manifest_path_depth(p) == Cardinality(Ancestors[p])

\* No live record below a file, a symbolic link or a tombstone.
validate_manifest_hierarchy(m) ==
  \A p \in Path : Live(m[p].node) =>
    \A a \in Ancestors[p] : m[a].node.kind \notin {"file", "link", "tomb"}

validate(m) ==
  /\ Cardinality({p \in Path : m[p] # NoRecord}) <= MaxEntries
  /\ validate_manifest_hierarchy(m)

\* Last writer wins; a tombstone wins a tie.
select_record(left, right) ==
  IF left = NoRecord THEN right
  ELSE IF right = NoRecord THEN left
  ELSE IF VersionLess(left.version, right.version) THEN right
  ELSE IF left.version = right.version /\ IsTombstone(right) THEN right
  ELSE left

\* The result of a full exchange: for every path the winning record.
merge_manifests(left, right) ==
  [p \in Path |-> select_record(left[p], right[p])]

\* Variants of remote_record_wins: a path without a local record never takes
\* one; any other record is taken.
remote_record_wins_known(local, remote) ==
  remote # NoRecord /\ local # NoRecord /\ VersionLess(local.version, remote.version)

remote_record_wins_always(local, remote) == remote # NoRecord /\ remote # local

remote_record_wins(local, remote) ==
  /\ remote # NoRecord
  /\ \/ local = NoRecord
     \/ VersionLess(local.version, remote.version)
     \/ /\ local.version = remote.version
        /\ IsTombstone(remote) /\ ~IsTombstone(local)

\* The first n paths of S, in order.
FirstPaths(S, n) == {p \in S : Cardinality({q \in S : q < p}) < n}
=============================================================================
