---------------------------- MODULE MatchProofs ----------------------------
(***************************************************************************)
(* ManifestMatchesDisk and ParentsRecorded, proved for all devices, paths, *)
(* sessions, edits and faults.  Neither is inductive.  A parent directory  *)
(* that an apply creates on its way agrees with the manifest only because  *)
(* the remote manifest records it, so ParentsRecorded is needed for every  *)
(* manifest in flight; and a scan records the parents of what it finds     *)
(* only because the directory is a tree, which every prefix of an apply,   *)
(* torn steps included, has to keep.  That manifests in flight are copies  *)
(* of saved ones is taken from the refinement of Replicas.                 *)
(*                                                                         *)
(* Then what a join keeps, JoinYieldsToOwner and JoinedHasAll, for a share *)
(* with one device beside the owner.                                       *)
(***************************************************************************)
EXTENDS VersionProofs, ShareSetup

\* Zenon proves a leaf unless the leaf cites SMT.
USE ZenonT(60)

\* The parents of every live record are recorded.
Rooted(m) ==
  \A p \in Path : Live(m[p].node) => \A a \in Ancestors[p] : m[a].node.kind = "dir"

Matches(dk, m, u) == \A p \in Path \ u : dk[p] = NodeOf(m[p])

Sound(dk, m, u) == IsTree(dk) /\ Rooted(m) /\ Matches(dk, m, u)

\* The inductive invariant.
MatchInv ==
  /\ \A d \in Device : Sound(disk[d], manifest[d], unscanned[d])
  /\ \A m \in Transit : Rooted(m)

-----------------------------------------------------------------------------
(* Scans                                                                   *)

LEMMA NodeKinds ==
  ASSUME NEW m \in Manifests, NEW p \in Path
  PROVE  /\ m[p].node.kind \in {"file", "dir", "link", "tomb", "none"}
         /\ m[p].node.kind = "none" <=> m[p] = NoRecord
BY SMTT(30) DEF Manifests, Record, NoRecord, NoNode, Node, Deleted

\* A scan records what it finds, and of a tree the parents too.
LEMMA ScanMatches ==
  ASSUME NEW m \in Manifests, NEW dk \in Disk, NEW c, NEW d, NEW now, IsTree(dk)
  PROVE  Sound(dk, scan_manifest(m, dk, c, d, now), {})
<1> DEFINE N == scan_manifest(m, dk, c, d, now)
<1>1. \A p \in Path : N[p].node = IF p \in Changed(m, dk) THEN ScannedNode(dk, p) ELSE m[p].node
  BY DEF scan_manifest
<1> HIDE DEF N
<1>2. ASSUME NEW p \in Path
      PROVE  IF Live(dk[p]) THEN N[p].node = dk[p] ELSE dk[p] = NoNode /\ ~Live(N[p].node)
  <2>1. ~Live(dk[p]) => dk[p] = NoNode
    BY DEF Disk, Live, Node, NoNode
  <2>2. ~Live(Deleted)
    BY DEF Live, Deleted
  <2> QED
    BY <1>1, <2>1, <2>2 DEF Changed, ScannedNode
<1>3. Rooted(N)
  <2> SUFFICES ASSUME NEW p \in Path, Live(N[p].node), NEW a \in Ancestors[p]
               PROVE  N[a].node.kind = "dir"
    BY DEF Rooted
  <2>1. a \in Path /\ Live(dk[p]) /\ dk[a].kind = "dir"
    BY <1>2, AncestorsAssumption DEF IsTree
  <2>2. Live(dk[a])
    BY <2>1 DEF Live
  <2> QED
    BY <1>2, <2>1, <2>2
<1>4. Matches(dk, N, {})
  BY <1>2 DEF Matches, NodeOf
<1> QED
  BY <1>3, <1>4 DEF Sound, N

-----------------------------------------------------------------------------
(* The candidate manifest of an apply                                      *)

\* A directory record that wins is always taken.
LEMMA DirectoryTaken ==
  ASSUME NEW dk, NEW local, NEW remote, NEW staged, NEW p \in Path,
         local[p] = NoRecord, remote[p].node.kind = "dir"
  PROVE  p \in Taken(dk, local, remote, staged)
<1>1. remote[p] # NoRecord
  BY SMTT(30) DEF NoRecord, NoNode
<1> QED
  BY <1>1 DEF Taken, Steps, WinningPaths, remote_record_wins

LEMMA TakenRecord ==
  ASSUME NEW dk, NEW local, NEW remote, NEW staged, NEW p \in Taken(dk, local, remote, staged)
  PROVE  p \in Path /\ remote[p] # NoRecord
BY DEF Taken, Steps, WinningPaths, remote_record_wins

\* A candidate that validates has the parents of its records.
LEMMA CandidateRooted ==
  ASSUME NEW dk, NEW local \in Manifests, NEW remote \in Manifests, NEW staged,
         Rooted(local), Rooted(remote),
         validate_manifest_hierarchy(Candidate(dk, local, remote, staged))
  PROVE  Rooted(Candidate(dk, local, remote, staged))
<1> DEFINE N == Candidate(dk, local, remote, staged)
           T == Taken(dk, local, remote, staged)
<1>1. \A p \in Path : N[p] = IF p \in T THEN remote[p] ELSE local[p]
  BY DEF Candidate
<1>2. N \in Manifests
  BY CandidateMixes
<1>3. \A p \in T : remote[p] # NoRecord
  BY TakenRecord
<1>4. \A p \in Path : local[p] = NoRecord /\ remote[p].node.kind = "dir" => p \in T
  BY DirectoryTaken
<1> HIDE DEF N, T
<1> SUFFICES ASSUME NEW p \in Path, Live(N[p].node), NEW a \in Ancestors[p]
             PROVE  N[a].node.kind = "dir"
  BY DEF Rooted, N
<1>5. a \in Path /\ N[a].node.kind \notin {"file", "link", "tomb"}
  BY AncestorsAssumption DEF validate_manifest_hierarchy, N
<1>6. CASE N[a] = NoRecord
  <2>1. a \notin T /\ local[a] = NoRecord
    BY <1>1, <1>3, <1>5, <1>6
  <2>2. local[a].node.kind # "dir"
    BY <2>1, SMTT(30) DEF NoRecord, NoNode
  <2>3. p \in T /\ Live(remote[p].node)
    BY <1>1, <2>2 DEF Rooted
  <2>4. remote[a].node.kind = "dir"
    BY <2>3 DEF Rooted
  <2> QED
    BY <1>4, <1>5, <2>1, <2>4
<1> QED
  BY <1>2, <1>5, <1>6, NodeKinds

\* Where an apply is saved, the directory is as the candidate says.
LEMMA CandidateMatches ==
  ASSUME NEW dk \in Disk, NEW local \in Manifests, NEW remote \in Manifests, NEW staged, NEW u,
         Rooted(remote), Matches(dk, local, u),
         validate_manifest_hierarchy(Candidate(dk, local, remote, staged))
  PROVE  LET taken == Taken(dk, local, remote, staged)
         IN  Matches(DiskAfter(dk, remote, taken, DirectorySteps(remote, taken)),
                     Candidate(dk, local, remote, staged), u \ taken)
<1> DEFINE N == Candidate(dk, local, remote, staged)
           T == Taken(dk, local, remote, staged)
           R == DiskAfter(dk, remote, T, DirectorySteps(remote, T))
<1>1. \A p \in Path : N[p] = IF p \in T THEN remote[p] ELSE local[p]
  BY DEF Candidate
<1>2. N \in Manifests
  BY CandidateMixes
<1>3. \A p \in Path : local[p] = NoRecord /\ remote[p].node.kind = "dir" => p \in T
  BY DirectoryTaken
<1>4. T \subseteq Path
  BY TakenType
<1>5. validate_manifest_hierarchy(N)
  OBVIOUS
<1> HIDE DEF N, T
<1>6. ASSUME NEW p \in Path \ (u \ T)
      PROVE  R[p] = NodeOf(N[p])
  <2>1. CASE p \in T
    BY <1>1, <2>1 DEF DiskAfter, DirectorySteps
  <2>2. CASE p \notin T /\ ~Live(dk[p]) /\ \E q \in T : p \in Ancestors[q] /\ Live(remote[q].node)
    <3>1. PICK q \in T : p \in Ancestors[q] /\ Live(remote[q].node)
      BY <2>2
    <3>2. remote[p].node.kind = "dir" /\ local[p] # NoRecord
      BY <1>3, <1>4, <2>2, <3>1 DEF Rooted
    <3>3. N[p].node.kind \notin {"file", "link", "tomb"} /\ N[p] = local[p]
      BY <1>1, <1>4, <1>5, <2>2, <3>1 DEF validate_manifest_hierarchy
    <3>4. local[p].node.kind = "dir"
      BY <3>2, <3>3, NodeKinds
    <3>5. dk[p] = NodeOf(local[p])
      BY <2>2 DEF Matches
    <3> QED
      BY <2>2, <3>4, <3>5 DEF NodeOf, Live
  <2>3. CASE p \notin T /\ ~(~Live(dk[p]) /\ \E q \in T : p \in Ancestors[q] /\ Live(remote[q].node))
    <3>1. R[p] = dk[p]
      BY <2>3 DEF DiskAfter
    <3> QED
      BY <1>1, <2>3, <3>1 DEF Matches
  <2> QED
    BY <2>1, <2>2, <2>3
<1> HIDE DEF R
<1>7. Matches(R, N, u \ T)
  BY <1>6 DEF Matches
<1> QED
  BY <1>7 DEF R, N, T

-----------------------------------------------------------------------------
(* The steps of an apply keep the directory a tree                         *)

\* The steps have an order.
LEMMA StepOrder ==
  ASSUME NEW remote, NEW p \in Path, NEW q \in Path, NEW r \in Path
  PROVE  /\ ~StepBefore(remote, p, p)
         /\ StepBefore(remote, p, q) /\ StepBefore(remote, q, r) => StepBefore(remote, p, r)
<1>1. \A x \in Path : x \in Nat /\ StepGroup(remote, x) \in 1..4
  BY PathAssumption, SMTT(30) DEF StepGroup
<1>2. \A x \in Path : manifest_path_depth(x) \in Nat
  <2> SUFFICES ASSUME NEW x \in Path PROVE Cardinality(Ancestors[x]) \in Nat
    BY DEF manifest_path_depth
  <2>1. IsFiniteSet(Ancestors[x])
    BY PathAssumption, AncestorsAssumption, FS_Subset
  <2> QED
    BY <2>1, FS_CardinalityType
<1> QED
  BY <1>1, <1>2, SMTT(30) DEF StepBefore

\* The step at p, when the steps in done have run: those before it are among
\* them, and it does not fail.
Safe(dk, local, remote, staged, done, p) ==
  /\ p \in Taken(dk, local, remote, staged)
  /\ Before(dk, local, remote, staged, p) \subseteq done \ {p}
  /\ ~Fails(dk, local, remote, staged, p)

LEMMA ReachedSafe ==
  ASSUME NEW dk, NEW local, NEW remote, NEW staged,
         NEW p \in Reached(dk, local, remote, staged)
  PROVE  /\ p \in Path
         /\ Safe(dk, local, remote, staged, Reached(dk, local, remote, staged), p)
<1> DEFINE T == Taken(dk, local, remote, staged)
           F == FailingSteps(dk, local, remote, staged)
           B == Before(dk, local, remote, staged, p)
<1>1. T \subseteq Path /\ F \subseteq Path /\ p \in T
  BY TakenType DEF FailingSteps, Steps, WinningPaths, Reached
<1>2. p \notin F
  BY <1>1, StepOrder DEF Reached
<1>3. ~Fails(dk, local, remote, staged, p)
  BY <1>1, <1>2 DEF FailingSteps, Taken
<1>4. ASSUME NEW q \in B
      PROVE  q \in Reached(dk, local, remote, staged) \ {p}
  <2>1. q \in T /\ q \in Path /\ StepBefore(remote, q, p) /\ p \in Path
    BY <1>1 DEF Before
  <2>2. \A r \in F : StepBefore(remote, p, r)
    BY DEF Reached
  <2>3. \A r \in F : StepBefore(remote, q, r)
    BY <1>1, <2>1, <2>2, StepOrder
  <2> QED
    BY <2>1, <2>3, StepOrder DEF Reached
<1> QED
  BY <1>1, <1>3, <1>4 DEF Safe

\* So are the steps of a prefix.
LEMMA PrefixSafe ==
  ASSUME NEW dk, NEW local, NEW remote, NEW staged,
         NEW done \in Prefixes(dk, local, remote, staged)
  PROVE  /\ done \in SUBSET Path
         /\ \A p \in done : Safe(dk, local, remote, staged, done, p)
<1> DEFINE R == Reached(dk, local, remote, staged)
<1>1. \A p \in R : p \in Path /\ Safe(dk, local, remote, staged, R, p)
  BY ReachedSafe
<1>2. CASE done = R
  BY <1>1, <1>2
<1>3. ASSUME NEW x \in R, done = {q \in R : StepBefore(remote, q, x)}
      PROVE  /\ done \in SUBSET Path
             /\ \A p \in done : Safe(dk, local, remote, staged, done, p)
  <2>1. \A p \in done : \A q \in R : StepBefore(remote, q, p) => q \in done
    BY <1>1, <1>3, StepOrder
  <2>2. \A p \in done : p \in R
    BY <1>3
  <2>3. \A p \in done : Before(dk, local, remote, staged, p) \subseteq R \ {p}
    BY <1>1, <2>2 DEF Safe
  <2>4. \A p \in done : Before(dk, local, remote, staged, p) \subseteq done \ {p}
    BY <2>1, <2>3 DEF Before
  <2> QED
    BY <1>1, <2>2, <2>4 DEF Safe
<1> QED
  BY <1>2, <1>3 DEF Prefixes

\* Every directory above the step at p is left alone by the steps before it that
\* another prefix has not run, and is one.
LEMMA ParentOfStep ==
  ASSUME NEW dk \in Disk, NEW local, NEW remote \in Manifests, NEW staged, Rooted(remote),
         NEW done \in SUBSET Path, NEW chmods, NEW p \in Path,
         Safe(dk, local, remote, staged, done, p), Live(remote[p].node),
         NEW a \in Ancestors[p]
  PROVE  LET R == DiskAfter(dk, remote, done, chmods)
         IN  R[a].kind = "dir" \/ (~Live(R[a]) /\ ~Live(dk[a]) /\ a \notin done)
<1> DEFINE R == DiskAfter(dk, remote, done, chmods)
           B == Before(dk, local, remote, staged, p)
           D == DiskAfter(dk, remote, B, {})
<1>1. a \in Path /\ remote[a].node.kind = "dir"
  BY AncestorsAssumption DEF Rooted
<1>2. B \subseteq done /\ D[a].kind \notin {"file", "link"}
  BY DEF Safe, Fails, StepFails, safe_local_path_fails
<1>3. CASE a \in done
  BY <1>1, <1>3 DEF DiskAfter, ensure_local_directory, NodeOf, Live, Dir
<1>4. CASE a \notin done /\ Live(dk[a])
  <2>1. D[a] = dk[a] /\ R[a] = dk[a]
    BY <1>1, <1>2, <1>4 DEF DiskAfter
  <2> QED
    BY <1>2, <1>4, <2>1 DEF Live
<1>5. CASE a \notin done /\ ~Live(dk[a])
  <2>1. R[a] = Dir(DefaultMode) \/ R[a] = dk[a]
    BY <1>1, <1>5 DEF DiskAfter
  <2> QED
    BY <1>5, <2>1, SMTT(30) DEF Dir
<1> QED
  BY <1>3, <1>4, <1>5

\* A step that leaves no directory at p found none, or an empty one.
LEMMA ReplacedDirectory ==
  ASSUME NEW dk \in Disk, NEW local, NEW remote \in Manifests, NEW staged,
         NEW done \in SUBSET Path, NEW p \in Path, Safe(dk, local, remote, staged, done, p),
         remote[p].node.kind # "dir", dk[p].kind = "dir",
         NEW q \in Path \ done, p \in Ancestors[q]
  PROVE  ~Live(dk[q])
<1> DEFINE B == Before(dk, local, remote, staged, p)
           D == DiskAfter(dk, remote, B, {})
<1> SUFFICES ASSUME Live(dk[q]) PROVE FALSE
  OBVIOUS
<1>1. B \subseteq done \ {p} /\ ~StepFails(D, remote, staged, p)
  BY DEF Safe, Fails
<1>2. D[p] = dk[p] /\ D[q] = dk[q]
  BY <1>1 DEF DiskAfter, Live
<1> HIDE DEF D
<1>3. remove_dir_fails(D, p)
  BY <1>2 DEF remove_dir_fails
<1>4. remote[p].node.kind \in {"file", "link", "tomb"}
  BY TakenRecord, NodeKinds, SMTT(30) DEF Safe
<1>5. remote[p].node.kind = "file" /\ p \notin staged => dk[p].kind = "file"
  BY DEF Safe, Taken, MatchesEntry
<1> QED
  BY <1>1, <1>3, <1>4, <1>5 DEF StepFails, remove_local_path_fails,
     write_local_symlink_fails, write_local_staged_file_fails

\* The directory once some steps have run.
LEMMA DiskAfterTree ==
  ASSUME NEW dk \in Disk, NEW local, NEW remote \in Manifests, NEW staged, Rooted(remote),
         IsTree(dk), NEW done \in SUBSET Path, NEW chmods,
         \A p \in done : Safe(dk, local, remote, staged, done, p)
  PROVE  IsTree(DiskAfter(dk, remote, done, chmods))
<1> DEFINE R == DiskAfter(dk, remote, done, chmods)
<1>1. ASSUME NEW q \in done, Live(remote[q].node), NEW a \in Ancestors[q]
      PROVE  R[a].kind = "dir"
  <2>1. a \in Path
    BY <1>1, AncestorsAssumption
  <2>2. R[a].kind = "dir" \/ (~Live(R[a]) /\ ~Live(dk[a]) /\ a \notin done)
    BY <1>1, ParentOfStep, SMTT(30)
  <2>3. ~Live(dk[a]) /\ a \notin done => R[a] = Dir(DefaultMode)
    BY <1>1, <2>1 DEF DiskAfter
  <2> QED
    BY <2>2, <2>3, SMTT(30) DEF Dir
<1> SUFFICES ASSUME NEW p \in Path, Live(R[p]), NEW a \in Ancestors[p]
             PROVE  R[a].kind = "dir"
  BY DEF IsTree
<1>2. a \in Path
  BY AncestorsAssumption
<1>3. CASE p \in done
  <2>1. Live(remote[p].node)
    BY <1>3 DEF DiskAfter, NodeOf, Live, NoNode
  <2> QED
    BY <1>1, <1>3, <2>1
<1>4. CASE p \notin done /\ ~Live(dk[p])
  <2>1. PICK q \in done : p \in Ancestors[q] /\ Live(remote[q].node)
    BY <1>4 DEF DiskAfter
  <2>2. a \in Ancestors[q]
    BY <2>1, AncestorsTransitive
  <2> QED
    BY <1>1, <2>1, <2>2
<1>5. CASE p \notin done /\ Live(dk[p])
  <2>1. dk[a].kind = "dir"
    BY <1>5 DEF IsTree
  <2>2. a \in done => remote[a].node.kind = "dir"
    BY <1>2, <1>5, <2>1, ReplacedDirectory
  <2>3. CASE a \in done
    BY <1>2, <2>1, <2>2, <2>3 DEF DiskAfter, ensure_local_directory, NodeOf, Live
  <2>4. CASE a \notin done
    BY <1>2, <2>1, <2>4 DEF DiskAfter, Live
  <2> QED
    BY <2>3, <2>4
<1> QED
  BY <1>3, <1>4, <1>5

\* And when the next step is cut short.
LEMMA TornTree ==
  ASSUME NEW dk \in Disk, NEW local, NEW remote \in Manifests, NEW staged, Rooted(remote),
         IsTree(dk), NEW done \in SUBSET Path, NEW chmods,
         \A q \in done : Safe(dk, local, remote, staged, done, q),
         NEW p \in Path \ done, Safe(dk, local, remote, staged, done, p),
         NEW n \in TornNodes(DiskAfter(dk, remote, done, chmods), remote, staged, p)
  PROVE  IsTree(Torn(DiskAfter(dk, remote, done, chmods), remote, p, n))
<1> DEFINE R == DiskAfter(dk, remote, done, chmods)
           T == Torn(R, remote, p, n)
<1>1. IsTree(R)
  BY DiskAfterTree
<1>2. \A a \in Ancestors[p] : a \in Path /\ a # p
  BY AncestorsAssumption, AncestorsBelow, PathAssumption, SMTT(30)
<1>3. ASSUME Live(remote[p].node), NEW a \in Ancestors[p]
      PROVE  T[a].kind = "dir"
  <2>1. R[a].kind = "dir" \/ ~Live(R[a])
    BY <1>3, ParentOfStep
  <2> HIDE DEF R
  <2> QED
    BY <1>2, <1>3, <2>1 DEF Torn, Dir, Live
<1>4. ASSUME n # R[p], R[p].kind = "dir", NEW q \in Path, p \in Ancestors[q]
      PROVE  ~Live(R[q])
  <2>1. remote[p].node.kind \in {"file", "link"}
    BY <1>4 DEF TornNodes, RemovesFirst
  <2>2. \A x \in done : Live(remote[x].node) => p \notin Ancestors[x]
    BY <2>1 DEF Rooted
  <2>3. dk[p].kind = "dir" /\ R[p] = dk[p]
    BY <1>4, <2>2 DEF DiskAfter
  <2>4. CASE q \in done
    <3>1. ~Live(remote[q].node)
      BY <1>4, <2>2, <2>4
    <3> QED
      BY <2>4, <3>1 DEF DiskAfter, NodeOf, Live, NoNode
  <2>5. CASE q \notin done
    <3>1. ~Live(dk[q])
      BY <1>4, <2>1, <2>3, <2>5, ReplacedDirectory
    <3>2. \A x \in done : Live(remote[x].node) => q \notin Ancestors[x]
      BY <1>4, <2>2, AncestorsTransitive
    <3> QED
      BY <2>5, <3>1, <3>2 DEF DiskAfter
  <2> QED
    BY <2>4, <2>5
<1>5. Live(n) => n = R[p] \/ Live(remote[p].node)
  BY SMTT(30) DEF TornNodes, Live, NoNode
<1> HIDE DEF R
<1> SUFFICES ASSUME NEW x \in Path, Live(T[x]), NEW a \in Ancestors[x]
             PROVE  T[a].kind = "dir"
  BY DEF IsTree, R
<1>6. a \in Path
  BY AncestorsAssumption
<1>7. CASE x = p
  <2>1. T[x] = n
    BY <1>7 DEF Torn
  <2>2. CASE n = R[p]
    <3>1. R[a].kind = "dir"
      BY <1>1, <1>7, <2>1, <2>2 DEF IsTree
    <3> QED
      BY <1>2, <1>6, <1>7, <3>1 DEF Torn, Live
  <2> QED
    BY <1>3, <1>5, <1>7, <2>1, <2>2
<1>8. CASE x # p /\ x \in Ancestors[p] /\ Live(remote[p].node)
  <2>1. a \in Ancestors[p]
    BY <1>8, AncestorsTransitive
  <2> QED
    BY <1>3, <1>8, <2>1
<1>9. CASE x # p /\ ~(x \in Ancestors[p] /\ Live(remote[p].node))
  <2>1. T[x] = R[x]
    BY <1>9 DEF Torn
  <2>2. R[a].kind = "dir"
    BY <1>1, <2>1 DEF IsTree
  <2>3. CASE a = p
    BY <1>4, <2>1, <2>2, <2>3 DEF Torn
  <2>4. CASE a # p
    BY <1>6, <2>2, <2>4 DEF Torn, Live
  <2> QED
    BY <2>3, <2>4
<1> QED
  BY <1>7, <1>8, <1>9

-----------------------------------------------------------------------------
(* Every action                                                            *)

LEMMA AppliedSound ==
  ASSUME NEW dk \in Disk, NEW local \in Manifests, NEW remote \in Manifests, NEW staged, NEW u,
         Sound(dk, local, u), Rooted(remote), ApplySucceeds(dk, local, remote, staged)
  PROVE  LET taken == Taken(dk, local, remote, staged)
         IN  Sound(DiskAfter(dk, remote, taken, DirectorySteps(remote, taken)),
                   Candidate(dk, local, remote, staged), u \ taken)
<1> DEFINE T == Taken(dk, local, remote, staged)
           R == DiskAfter(dk, remote, T, DirectorySteps(remote, T))
           N == Candidate(dk, local, remote, staged)
<1>1. T \in Prefixes(dk, local, remote, staged)
  BY DEF ApplySucceeds, Reached, Prefixes
<1>2. T \in SUBSET Path /\ \A p \in T : Safe(dk, local, remote, staged, T, p)
  BY <1>1, PrefixSafe
<1>3. IsTree(R)
  BY <1>2, DiskAfterTree DEF Sound
<1>4. validate_manifest_hierarchy(N)
  BY DEF ApplySucceeds, validate
<1>5. Rooted(N)
  BY <1>4, CandidateRooted DEF Sound
<1>6. Matches(R, N, u \ T)
  BY <1>4, CandidateMatches DEF Sound
<1> HIDE DEF R, N, T
<1>7. Sound(R, N, u \ T)
  BY <1>3, <1>5, <1>6 DEF Sound
<1> QED
  BY <1>7 DEF R, N, T

\* R is directory dk once n is put at p.
Edited(dk, p, n, swept, R) ==
  /\ Live(n) => \A a \in Ancestors[p] : dk[a].kind = "dir"
  /\ swept = IF n.kind = "dir" /\ dk[p].kind = "dir" THEN {} ELSE Below(p)
  /\ \A q \in Path : R[q] = IF q = p THEN n ELSE IF q \in swept THEN NoNode ELSE dk[q]

\* What is edited stays a tree.
LEMMA EditTree ==
  ASSUME NEW dk \in Disk, IsTree(dk), NEW p \in Path, NEW n, NEW swept, NEW R,
         Edited(dk, p, n, swept, R)
  PROVE  IsTree(R)
<1> USE DEF Edited
<1> SUFFICES ASSUME NEW q \in Path, Live(R[q]), NEW a \in Ancestors[q]
             PROVE  R[a].kind = "dir"
  BY DEF IsTree
<1>1. a \in Path /\ a < q
  BY AncestorsAssumption, AncestorsBelow
<1>2. CASE q = p
  <2>1. a # p /\ a \notin swept /\ dk[a].kind = "dir"
    BY <1>1, <1>2, AncestorsBelow, PathAssumption, SMTT(30) DEF Below
  <2> QED
    BY <1>1, <2>1
<1>3. CASE q # p
  <2>1. q \notin swept /\ Live(dk[q])
    BY <1>3, SMTT(30) DEF Live, NoNode
  <2>2. dk[a].kind = "dir"
    BY <2>1 DEF IsTree
  <2>3. a = p => n.kind = "dir"
    BY <2>1 DEF Below
  <2>4. a \notin swept
    BY <1>1, <2>1, AncestorsTransitive DEF Below
  <2> QED
    BY <1>1, <2>2, <2>3, <2>4
<1> QED
  BY <1>2, <1>3

\* An apply that fails or is cut short leaves a tree.
LEMMA FailedTree ==
  ASSUME TypeOK, NEW d \in Device, NEW remote \in Manifests, NEW staged, NEW now,
         IsTree(disk[d]), Rooted(remote),
         ApplyFailed(d, remote, staged, now) \/ ApplyInterrupted(d, remote, staged, now)
  PROVE  \E dk : IsTree(dk) /\ LeftAt(d, dk)
<1> DEFINE T == Taken(disk[d], manifest[d], remote, staged)
           W == Reached(disk[d], manifest[d], remote, staged)
<1>1. disk[d] \in Disk
  BY DEF TypeOK, Disk
<1>2. ASSUME NEW done \in Prefixes(disk[d], manifest[d], remote, staged), NEW chmods
      PROVE  /\ IsTree(DiskAfter(disk[d], remote, done, chmods))
             /\ done \in SUBSET Path
             /\ \A q \in done : Safe(disk[d], manifest[d], remote, staged, done, q)
  BY <1>1, <1>2, PrefixSafe, DiskAfterTree
<1>3. CASE ApplyFailed(d, remote, staged, now)
  <2>1. W \in Prefixes(disk[d], manifest[d], remote, staged)
    BY DEF Prefixes
  <2> QED
    BY <1>2, <1>3, <2>1 DEF ApplyFailed
<1>4. CASE ApplyInterrupted(d, remote, staged, now)
  <2>1. PICK done \in Prefixes(disk[d], manifest[d], remote, staged) :
        \E chmods : LET dk == DiskAfter(disk[d], remote, done, chmods)
                    IN  \/ LeftAt(d, dk)
                        \/ \E p \in W \ done : \E n \in TornNodes(dk, remote, staged, p) :
                             /\ \A q \in T : StepBefore(remote, q, p) => q \in done
                             /\ LeftAt(d, Torn(dk, remote, p, n))
    BY <1>4 DEF ApplyInterrupted
  <2>2. PICK chmods : LET dk == DiskAfter(disk[d], remote, done, chmods)
                      IN  \/ LeftAt(d, dk)
                          \/ \E p \in W \ done : \E n \in TornNodes(dk, remote, staged, p) :
                               /\ \A q \in T : StepBefore(remote, q, p) => q \in done
                               /\ LeftAt(d, Torn(dk, remote, p, n))
    BY <2>1
  <2> DEFINE R == DiskAfter(disk[d], remote, done, chmods)
  <2>3. ASSUME NEW p \in W \ done, NEW n \in TornNodes(R, remote, staged, p),
               \A q \in T : StepBefore(remote, q, p) => q \in done
        PROVE  IsTree(Torn(R, remote, p, n))
    <3>1. p \in Path /\ p \in T /\ ~Fails(disk[d], manifest[d], remote, staged, p)
      BY ReachedSafe DEF Safe
    <3>2. Before(disk[d], manifest[d], remote, staged, p) \subseteq done \ {p}
      BY <2>3 DEF Before
    <3>3. Safe(disk[d], manifest[d], remote, staged, done, p)
      BY <3>1, <3>2 DEF Safe
    <3> QED
      BY <1>1, <1>2, <2>3, <3>1, <3>3, TornTree
  <2>4. IsTree(R)
    BY <1>2
  <2> QED
    BY <2>2, <2>3, <2>4
<1> QED
  BY <1>3, <1>4

\* Only device d's directory, manifest and unscanned paths change.
LEMMA OneSound ==
  ASSUME VersionInv, MatchInv, [Next]_vars, NEW d \in Device, NEW dk, NEW m, NEW u,
         disk' = [disk EXCEPT ![d] = dk], manifest' = [manifest EXCEPT ![d] = m],
         unscanned' = [unscanned EXCEPT ![d] = u], Sound(dk, m, u)
  PROVE  MatchInv'
<1>1. TypeOK
  BY DEF VersionInv
<1>2. \A e \in Device : Sound(disk'[e], manifest'[e], unscanned'[e])
  BY <1>1 DEF MatchInv, TypeOK
<1>3. Transit' \subseteq Transit \cup {manifest'[e] : e \in Device} \cup {Abstract!Blank}
  BY VersionStep DEF StepGoal, Abstract!Next
<1>4. Rooted(Abstract!Blank)
  BY DEF Rooted, Abstract!Blank, NoRecord, NoNode, Live
<1>5. \A x \in Transit' : Rooted(x)
  BY <1>2, <1>3, <1>4 DEF MatchInv, Sound
<1> QED
  BY <1>2, <1>5 DEF MatchInv

LEMMA SameSound ==
  ASSUME VersionInv, MatchInv, [Next]_vars, UNCHANGED <<disk, manifest, unscanned>>
  PROVE  MatchInv'
<1>1. TypeOK
  BY DEF VersionInv
<1>2. PICK d \in Device : TRUE
  BY OwnerAssumption
<1>3. /\ disk' = [disk EXCEPT ![d] = disk[d]] /\ manifest' = [manifest EXCEPT ![d] = manifest[d]]
      /\ unscanned' = [unscanned EXCEPT ![d] = unscanned[d]]
  BY <1>1 DEF TypeOK
<1>4. Sound(disk[d], manifest[d], unscanned[d])
  BY DEF MatchInv
<1> QED
  BY <1>3, <1>4, OneSound

\* A directory that an apply leaves without saving.
LEMMA LeftSound ==
  ASSUME VersionInv, MatchInv, [Next]_vars, NEW d \in Device, NEW remote \in Transit, NEW staged,
         NEW now, ApplyFailed(d, remote, staged, now) \/ ApplyInterrupted(d, remote, staged, now)
  PROVE  MatchInv'
<1>1. TypeOK /\ remote \in Manifests /\ Rooted(remote)
      /\ Sound(disk[d], manifest[d], unscanned[d])
  BY CopiesType DEF VersionInv, MatchInv
<1>2. PICK dk : IsTree(dk) /\ LeftAt(d, dk)
  BY <1>1, FailedTree DEF Sound
<1> DEFINE u == unscanned[d] \cup {p \in Path : dk[p] # disk[d][p]}
<1>3. /\ disk' = [disk EXCEPT ![d] = dk] /\ manifest' = [manifest EXCEPT ![d] = manifest[d]]
      /\ unscanned' = [unscanned EXCEPT ![d] = u]
  BY <1>1, <1>2 DEF LeftAt, TypeOK
<1>4. Sound(dk, manifest[d], u)
  BY <1>1, <1>2 DEF Sound, Matches
<1> QED
  BY <1>3, <1>4, OneSound

LEMMA SavedSound ==
  ASSUME VersionInv, MatchInv, [Next]_vars, NEW d \in Device, NEW remote \in Transit, NEW staged,
         NEW now, ApplySaved(d, remote, staged, now)
  PROVE  MatchInv'
<1> DEFINE T == Taken(disk[d], manifest[d], remote, staged)
           R == DiskAfter(disk[d], remote, T, DirectorySteps(remote, T))
           N == Candidate(disk[d], manifest[d], remote, staged)
<1>1. /\ remote \in Manifests /\ Rooted(remote) /\ disk[d] \in Disk /\ manifest[d] \in Manifests
      /\ Sound(disk[d], manifest[d], unscanned[d])
  BY CopiesType DEF VersionInv, TypeOK, Disk, MatchInv
<1>2. /\ disk' = [disk EXCEPT ![d] = R] /\ manifest' = [manifest EXCEPT ![d] = N]
      /\ unscanned' = [unscanned EXCEPT ![d] = unscanned[d] \ T]
      /\ ApplySucceeds(disk[d], manifest[d], remote, staged)
  BY DEF ApplySaved
<1>3. Sound(R, N, unscanned[d] \ T)
  BY <1>1, <1>2, AppliedSound
<1> HIDE DEF R, N, T
<1> QED
  BY <1>2, <1>3, OneSound

\* The end of an initial sync.
LEMMA CompletedSound ==
  ASSUME VersionInv, MatchInv, [Next]_vars, NEW d \in Device, NEW dk \in Disk, NEW m \in Manifests,
         NEW c, NEW u, NEW now, NEW cut, Sound(dk, m, u),
         disk' = [disk EXCEPT ![d] = dk], CompleteAndScan(d, dk, m, c, u, now, cut)
  PROVE  MatchInv'
<1> DEFINE N == scan_manifest(m, dk, c, d, now)
           scans == ~cut /\ ScanSucceeds(m, dk, c, d, now)
<1>1. /\ manifest' = [manifest EXCEPT ![d] = IF scans THEN N ELSE m]
      /\ unscanned' = [unscanned EXCEPT ![d] = IF scans THEN {} ELSE u]
  BY DEF CompleteAndScan
<1>2. Sound(dk, N, {})
  BY ScanMatches DEF Sound
<1> HIDE DEF N, scans
<1>3. CASE scans
  BY <1>1, <1>2, <1>3, OneSound
<1>4. CASE ~scans
  BY <1>1, <1>4, OneSound
<1> QED
  BY <1>3, <1>4

LEMMA MatchStep ==
  ASSUME VersionInv, MatchInv, [Next]_vars
  PROVE  MatchInv'
<1>0. /\ TypeOK
      /\ \A d \in Device : /\ disk[d] \in Disk /\ manifest[d] \in Manifests
                           /\ Sound(disk[d], manifest[d], unscanned[d])
      /\ \A x \in Session : session[x].out \in Transit /\ session[x].reply \in Transit
      /\ \A m \in Transit : m \in Manifests /\ Rooted(m)
  BY CopiesType DEF VersionInv, TypeOK, Disk, MatchInv
<1>1. ASSUME NEW d \in Editor, NEW p \in Path, NEW n \in Edits, Edit(d, p, n)
      PROVE  MatchInv'
  <2> DEFINE swept == IF n.kind = "dir" /\ disk[d][p].kind = "dir" THEN {} ELSE Below(p)
             dk == [q \in Path |-> IF q = p THEN n ELSE IF q \in swept THEN NoNode ELSE disk[d][q]]
             u == unscanned[d] \cup {p} \cup swept
  <2>1. d \in Device
    BY OwnerAssumption
  <2>2. /\ disk' = [disk EXCEPT ![d] = dk] /\ manifest' = [manifest EXCEPT ![d] = manifest[d]]
        /\ unscanned' = [unscanned EXCEPT ![d] = u]
        /\ Live(n) => \A a \in Ancestors[p] : disk[d][a].kind = "dir"
    BY <1>0, <1>1, <2>1 DEF Edit, TypeOK
  <2>3. IsTree(dk)
    <3>1. disk[d] \in Disk /\ IsTree(disk[d])
      BY <1>0, <2>1 DEF Sound
    <3>2. Edited(disk[d], p, n, swept, dk)
      BY <2>2 DEF Edited
    <3> HIDE DEF swept, dk
    <3> QED
      BY <3>1, <3>2, EditTree
  <2>4. Sound(dk, manifest[d], u)
    <3> HIDE DEF swept
    <3> QED
      BY <1>0, <2>1, <2>3 DEF Sound, Matches
  <2> HIDE DEF dk, u
  <2> QED
    BY <2>1, <2>2, <2>4, OneSound
<1>2. ASSUME NEW d \in Device, NEW now \in Wall, Scan(d, now)
      PROVE  MatchInv'
  <2> DEFINE N == scan_manifest(manifest[d], disk[d], clock[d], d, now)
  <2>1. /\ disk' = [disk EXCEPT ![d] = disk[d]] /\ manifest' = [manifest EXCEPT ![d] = N]
        /\ unscanned' = [unscanned EXCEPT ![d] = {}]
    BY <1>0, <1>2 DEF Scan, TypeOK
  <2>2. Sound(disk[d], N, {})
    BY <1>0, ScanMatches DEF Sound
  <2> HIDE DEF N
  <2> QED
    BY <2>1, <2>2, OneSound
<1>3. ASSUME NEW x \in Session, ServerStep(x)
      PROVE  MatchInv'
  <2> DEFINE s == session[x]
  <2>0. s \in ActiveSession
    BY <1>0, <1>3, RunningSession
       DEF ServerStep, Answer, Ready, Receive, ServerApply, ServerApplyFails
  <2>1. s.server \in Device /\ s.out \in Transit
    BY <1>0, <2>0 DEF ActiveSession
  <2>2. CASE Answer(x) \/ Ready(x) \/ Receive(x)
    BY <2>2, SameSound DEF Answer, Ready, Receive
  <2>3. ASSUME NEW now \in Wall, ServerApply(x, now)
        PROVE  MatchInv'
    BY <2>1, <2>3, SavedSound DEF ServerApply
  <2>4. ASSUME NEW now \in Wall, ServerApplyFails(x, now)
        PROVE  MatchInv'
    BY <2>1, <2>4, LeftSound DEF ServerApplyFails
  <2> QED
    BY <1>3, <2>2, <2>3, <2>4 DEF ServerStep
<1>4. ASSUME NEW x \in Session, ClientStep(x)
      PROVE  MatchInv'
  <2> DEFINE s == session[x]
             d == s.client
  <2>0. s \in ActiveSession
    BY <1>0, <1>4, RunningSession DEF ClientStep, Request, StartDownload, Download, ClientApply,
       ClientApplyFails, Unchanged, ClientJoins
  <2>1. d \in Device /\ s.reply \in Transit
    BY <1>0, <2>0 DEF ActiveSession
  <2>2. CASE Request(x) \/ StartDownload(x) \/ Download(x)
    BY <2>2, SameSound DEF Request, StartDownload, Download
  <2>3. ASSUME NEW now \in Wall, ClientApply(x, now)
        PROVE  MatchInv'
    BY <2>1, <2>3, SavedSound DEF ClientApply
  <2>4. ASSUME NEW now \in Wall, ClientApplyFails(x, now)
        PROVE  MatchInv'
    BY <2>1, <2>4, LeftSound DEF ClientApplyFails
  <2>5. ASSUME NEW now \in Wall, NEW cut \in BOOLEAN, Unchanged(x, now, cut)
        PROVE  MatchInv'
    <3>1. /\ disk' = [disk EXCEPT ![d] = disk[d]] /\ UNCHANGED disk
          /\ \/ UNCHANGED <<manifest, unscanned>>
             \/ CompleteAndScan(d, disk[d], manifest[d], clock[d], unscanned[d], now, cut)
      BY <1>0, <2>1, <2>5 DEF Unchanged, TypeOK
    <3>2. CASE UNCHANGED <<manifest, unscanned>>
      BY <3>1, <3>2, SameSound
    <3>3. CASE CompleteAndScan(d, disk[d], manifest[d], clock[d], unscanned[d], now, cut)
      BY <1>0, <2>1, <3>1, <3>3, CompletedSound
    <3> QED
      BY <3>1, <3>2, <3>3
  <2>6. ASSUME NEW now \in Wall, NEW later \in Wall, NEW cut \in BOOLEAN,
               ClientJoins(x, now, later, cut)
        PROVE  MatchInv'
    <3> DEFINE T == Taken(disk[d], manifest[d], s.reply, s.downloads)
               R == DiskAfter(disk[d], s.reply, T, DirectorySteps(s.reply, T))
               N == Candidate(disk[d], manifest[d], s.reply, s.downloads)
               u == unscanned[d] \ T
    <3>1. /\ disk' = [disk EXCEPT ![d] = R]
          /\ \E k : CompleteAndScan(d, R, N, k, u, later, cut)
          /\ ApplySucceeds(disk[d], manifest[d], s.reply, s.downloads)
      BY <2>6 DEF ClientJoins
    <3>2. R \in Disk /\ N \in Manifests
      BY <1>0, <2>1, DiskAfterType, CandidateMixes
    <3>3. Sound(R, N, u)
      BY <1>0, <2>1, <3>1, AppliedSound
    <3> HIDE DEF R, N, u
    <3> QED
      BY <2>1, <3>1, <3>2, <3>3, CompletedSound
  <2> QED
    BY <1>4, <2>2, <2>3, <2>4, <2>5, <2>6 DEF ClientStep
<1>5. ASSUME NEW d \in Device, NEW now \in Wall, ScanInterrupted(d, now)
      PROVE  MatchInv'
  BY <1>5, SameSound DEF ScanInterrupted
<1>6. ASSUME NEW x \in Session, NEW c \in Device, NEW s \in Device, Dial(x, c, s) \/ Open(x, c, s)
      PROVE  MatchInv'
  BY <1>6, SameSound DEF Dial, Open
<1>7. ASSUME NEW x \in Session, TransferFails(x) \/ HangUp(x) \/ Drop(x)
      PROVE  MatchInv'
  BY <1>7, SameSound DEF TransferFails, HangUp, Drop
<1>8. ASSUME NEW d \in Device, Crash(d)
      PROVE  MatchInv'
  BY <1>8, SameSound DEF Crash
<1>9. CASE UNCHANGED vars
  BY <1>9, SameSound DEF vars
<1> QED
  BY <1>1, <1>2, <1>3, <1>4, <1>5, <1>6, <1>7, <1>8, <1>9 DEF Next

LEMMA MatchInit == Init => MatchInv
<1> SUFFICES ASSUME Init PROVE MatchInv
  OBVIOUS
<1>1. TypeOK /\ Owner \in Device /\ Empty \in Manifests
  BY TypeInit, OwnerAssumption, EmptyType
<1>2. \A d \in Device : disk[d] \in Disk /\ IsTree(disk[d])
  BY <1>1 DEF Init, TypeOK, Disk
<1>3. Rooted(Empty)
  BY DEF Rooted, Empty, NoRecord, NoNode, Live
<1>4. PICK now \in Wall :
        manifest = [d \in Device |->
          IF d = Owner THEN scan_manifest(Empty, disk[d], NewClock, d, now) ELSE Empty]
  BY DEF Init
<1>5. \A d \in Device : unscanned[d] = IF d = Owner THEN {} ELSE {p \in Path : Live(disk[d][p])}
  BY DEF Init
<1>6. Sound(disk[Owner], manifest[Owner], unscanned[Owner])
  <2> DEFINE N == scan_manifest(Empty, disk[Owner], NewClock, Owner, now)
  <2>1. Sound(disk[Owner], N, {})
    BY <1>1, <1>2, ScanMatches
  <2>2. manifest[Owner] = N /\ unscanned[Owner] = {}
    BY <1>1, <1>4, <1>5
  <2> HIDE DEF N
  <2> QED
    BY <2>1, <2>2
<1>7. ASSUME NEW d \in Device \ {Owner}
      PROVE  Sound(disk[d], manifest[d], unscanned[d])
  <2>1. manifest[d] = Empty /\ unscanned[d] = {p \in Path : Live(disk[d][p])}
    BY <1>4, <1>5
  <2>2. ASSUME NEW p \in Path, ~Live(disk[d][p])
        PROVE  disk[d][p] = NodeOf(Empty[p])
    BY <1>2, <2>2 DEF Disk, Live, Node, NoNode, NodeOf, Empty, NoRecord
  <2> QED
    BY <1>2, <1>3, <2>1, <2>2 DEF Sound, Matches
<1>8. \A m \in Transit : m = Empty
  BY DEF Transit, Init, NoSession
<1> QED
  BY <1>3, <1>6, <1>7, <1>8 DEF MatchInv

LEMMA MatchInvariant == Spec => []MatchInv
<1>1. VersionInv /\ MatchInv /\ [Next]_vars => MatchInv'
  BY MatchStep
<1> QED
  BY <1>1, MatchInit, VersionsInvariant, PTL DEF Spec

\* Where nothing changed since the last scan, the manifest of a device says what its
\* directory holds: apply_remote_transfer_impl takes a record only with its content,
\* whatever subset of the files arrived, and saves it only when every step is done.
THEOREM ManifestsMatch == Spec => []ManifestMatchesDisk
<1>1. MatchInv => ManifestMatchesDisk
  BY DEF MatchInv, Sound, Matches, ManifestMatchesDisk
<1> QED
  BY <1>1, MatchInvariant, PTL

\* Every live record has its parent directories recorded on the same device,
\* although an apply takes the winning records path by path.
THEOREM ParentsAreRecorded == Spec => []ParentsRecorded
<1>1. MatchInv => ParentsRecorded
  BY DEF MatchInv, Sound, Rooted, ParentsRecorded
<1> QED
  BY <1>1, MatchInvariant, PTL

-----------------------------------------------------------------------------
(* Joining a share of the owner                                            *)

\* A manifest with nothing but the owner's records at the owner's paths, one with
\* all of them, and a directory that holds those of them which its manifest has.
Offers(m) == \A p \in SetUp : m[p] \in {NoRecord, original[p]}
HasAll(m) == \A p \in SetUp : m[p] = original[p]
Yields(m, dk) == Offers(m) /\ \A p \in SetUp : m[p] = original[p] => dk[p] = original[p].node

\* What a session holds.  The server of a joining device's session is the owner, so
\* the manifest it gets back has all of the owner's records; and it asks with an
\* empty manifest, whose digest is the owner's only when there are none.
SessionFine(s, completed) ==
  /\ Offers(s.out) /\ Offers(s.reply)
  /\ s.cpc # "idle" \/ s.spc # "idle" => s.client # s.server
  /\ s.client # Owner =>
       /\ s.cpc \in {"receiving", "received"} \/ s.spc = "sending" => HasAll(s.reply)
       /\ s.spc = "asked" /\ ~completed[s.client] => s.out = Empty
       /\ s.spc = "same" /\ ~completed[s.client] => SetUp = {}

DevicesFine ==
  \A d \in Device : Yields(manifest[d], disk[d]) /\ (complete[d] => HasAll(manifest[d]))

SessionsFine == \A x \in Session : SessionFine(session[x], complete)

\* The inductive invariant.
JoinInv ==
  /\ TypeOK
  /\ original \in Manifests /\ \A p \in SetUp : Live(original[p].node)
  /\ complete[Owner]
  /\ \A d \in Device : d \notin known[d]
  /\ edits = 0 => DevicesFine /\ SessionsFine

\* A record of the owner does not win over itself, so an apply that is offered it
\* again does not touch the path.
LEMMA OwnerRecordStays ==
  ASSUME JoinInv, NEW p \in SetUp, NEW m, NEW remote, NEW dk, NEW staged,
         m[p] = original[p], Offers(remote)
  PROVE  p \in Path /\ p \notin Taken(dk, m, remote, staged)
<1>1. p \in Path /\ original[p] \in Record /\ Live(original[p].node)
  BY DEF SetUp, JoinInv, Manifests
<1>2. ~VersionLess(original[p].version, original[p].version)
  BY <1>1, VersionOrder DEF Record
<1>3. ~IsTombstone(original[p])
  BY <1>1 DEF Live, IsTombstone
<1>4. remote[p] \in {NoRecord, original[p]}
  BY DEF Offers
<1>5. ~remote_record_wins(m[p], remote[p])
  BY <1>2, <1>3, <1>4 DEF remote_record_wins
<1> QED
  BY <1>1, <1>5 DEF Taken, Steps, WinningPaths

\* Whatever steps of an apply have run, what the device had from the owner is there.
LEMMA ApplyLeaves ==
  ASSUME JoinInv, NEW p \in SetUp, NEW m, NEW remote, NEW dk, NEW staged,
         m[p] = original[p], Offers(remote), dk[p] = original[p].node,
         NEW done \in SUBSET Taken(dk, m, remote, staged), NEW chmods
  PROVE  DiskAfter(dk, remote, done, chmods)[p] = original[p].node
<1>1. p \in Path /\ p \notin done
  BY OwnerRecordStays
<1>2. Live(dk[p])
  BY DEF JoinInv
<1> QED
  BY <1>1, <1>2 DEF DiskAfter

\* A step that is cut short leaves it there too.
LEMMA TornLeaves ==
  ASSUME JoinInv, NEW p \in SetUp, NEW m, NEW remote, NEW dk, NEW staged,
         m[p] = original[p], Offers(remote),
         NEW cut, cut[p] = original[p].node,
         NEW q \in Taken(dk, m, remote, staged), NEW n
  PROVE  Torn(cut, remote, q, n)[p] = original[p].node
<1>1. p \in Path /\ p # q
  BY OwnerRecordStays
<1>2. Live(cut[p])
  BY DEF JoinInv
<1> QED
  BY <1>1, <1>2 DEF Torn

\* An apply that is saved leaves a device that yields to the owner.
LEMMA ApplyYields ==
  ASSUME JoinInv, NEW m \in Manifests, NEW dk, NEW remote \in Manifests, NEW staged,
         Yields(m, dk), Offers(remote)
  PROVE  LET taken == Taken(dk, m, remote, staged)
             N == Candidate(dk, m, remote, staged)
         IN  /\ Yields(N, DiskAfter(dk, remote, taken, DirectorySteps(remote, taken)))
             /\ HasAll(m) => HasAll(N)
             /\ HasAll(remote) /\ PendingDownloads(dk, m, remote, staged) = {} => HasAll(N)
<1> DEFINE taken == Taken(dk, m, remote, staged)
           N == Candidate(dk, m, remote, staged)
           dk2 == DiskAfter(dk, remote, taken, DirectorySteps(remote, taken))
<1>1. ASSUME NEW p \in SetUp, m[p] = original[p]
      PROVE  N[p] = original[p] /\ dk2[p] = original[p].node
  <2>1. p \in Path /\ p \notin taken
    BY <1>1, OwnerRecordStays
  <2>2. dk[p] = original[p].node
    BY <1>1 DEF Yields
  <2>3. dk2[p] = original[p].node
    BY <1>1, <2>2, ApplyLeaves
  <2>4. N[p] = m[p]
    BY <2>1 DEF Candidate
  <2> QED
    BY <1>1, <2>3, <2>4
<1>2. ASSUME NEW p \in SetUp, p \in taken, remote[p] = original[p]
      PROVE  N[p] = original[p] /\ dk2[p] = original[p].node
  <2>1. p \in Path /\ Live(original[p].node)
    BY DEF SetUp, JoinInv
  <2>2. remote[p].node.kind = "dir" => p \in DirectorySteps(remote, taken)
    BY <1>2 DEF DirectorySteps
  <2> HIDE DEF taken
  <2>3. dk2[p] = NodeOf(remote[p])
    BY <1>2, <2>1, <2>2 DEF DiskAfter
  <2>4. N[p] = remote[p]
    BY <1>2, <2>1 DEF Candidate, taken
  <2> QED
    BY <1>2, <2>1, <2>3, <2>4 DEF NodeOf
<1>3. ASSUME NEW p \in SetUp
      PROVE  /\ N[p] \in {NoRecord, original[p]}
             /\ N[p] = original[p] => dk2[p] = original[p].node
  <2>1. m[p] \in {NoRecord, original[p]} /\ remote[p] \in {NoRecord, original[p]}
    BY DEF Yields, Offers
  <2>2. p \in Path /\ original[p] # NoRecord
    BY DEF SetUp
  <2>3. CASE m[p] = original[p]
    BY <1>1, <2>3
  <2>4. CASE m[p] = NoRecord /\ p \in taken
    <3>1. remote[p] # NoRecord
      BY <2>4 DEF Taken, Steps, WinningPaths, remote_record_wins
    <3> QED
      BY <1>2, <2>1, <2>4, <3>1
  <2>5. CASE m[p] = NoRecord /\ p \notin taken
    <3>1. N[p] = NoRecord
      BY <2>2, <2>5 DEF Candidate
    <3> QED
      BY <2>2, <3>1
  <2> QED
    BY <2>1, <2>3, <2>4, <2>5
<1>4. ASSUME HasAll(remote), PendingDownloads(dk, m, remote, staged) = {}, NEW p \in SetUp
      PROVE  N[p] = original[p]
  <2>1. p \in Path /\ original[p] # NoRecord /\ remote[p] = original[p]
    BY <1>4 DEF SetUp, HasAll
  <2>2. CASE m[p] = original[p]
    BY <1>1, <2>2
  <2>3. CASE m[p] = NoRecord
    <3>1. p \in WinningPaths(m, remote)
      BY <2>1, <2>3 DEF WinningPaths, remote_record_wins
    <3>2. p \in taken
      BY <1>4, <3>1 DEF PendingDownloads
    <3> QED
      BY <1>2, <2>1, <3>2
  <2> QED
    BY <2>2, <2>3 DEF Yields, Offers
<1> HIDE DEF N, dk2, taken
<1>5. Yields(N, dk2)
  BY <1>3 DEF Yields, Offers
<1>6. HasAll(m) => HasAll(N)
  BY <1>1 DEF HasAll
<1>7. HasAll(remote) /\ PendingDownloads(dk, m, remote, staged) = {} => HasAll(N)
  BY <1>4 DEF HasAll
<1> QED
  BY <1>5, <1>6, <1>7 DEF N, dk2, taken

\* A scan of a device that has all of the owner's records gives none of them a new
\* version.
LEMMA ScanYields ==
  ASSUME JoinInv, NEW m, NEW dk, NEW c, NEW d, NEW now, Yields(m, dk), HasAll(m)
  PROVE  LET N == scan_manifest(m, dk, c, d, now) IN Yields(N, dk) /\ HasAll(N)
<1> DEFINE N == scan_manifest(m, dk, c, d, now)
<1>1. ASSUME NEW p \in SetUp PROVE N[p] = original[p] /\ dk[p] = original[p].node
  <2>1. p \in Path /\ m[p] = original[p] /\ dk[p] = original[p].node /\ Live(original[p].node)
    BY DEF SetUp, HasAll, Yields, JoinInv
  <2>2. p \notin Changed(m, dk)
    BY <2>1 DEF Changed
  <2> QED
    BY <2>1, <2>2 DEF scan_manifest
<1> HIDE DEF N
<1>2. Yields(N, dk) /\ HasAll(N)
  BY <1>1 DEF Yields, Offers, HasAll
<1> QED
  BY <1>2 DEF N

-----------------------------------------------------------------------------
(* Sessions                                                                *)

LEMMA NoSessionFine ==
  ASSUME NEW completed
  PROVE  SessionFine(NoSession, completed)
BY DEF SessionFine, NoSession, Offers, Empty, SetUp

\* A half that ends, and a device that completes, take nothing from a session.
LEMMA FineLater ==
  ASSUME TypeOK, TypeOK', original' = original, NEW x \in Session,
         SessionFine(session[x], complete),
         \A d \in Device : complete[d] => complete'[d]
  PROVE  SessionFine(session[x], complete')
<1>1. session[x].spc = "idle" \/ session[x].client \in Device
  BY SMTT(30) DEF TypeOK, ActiveSession, NoSession
<1> QED
  BY <1>1 DEF SessionFine

\* What is left to show of a step in which session x becomes s, or is forgotten.
LEMMA OneSession ==
  ASSUME TypeOK, TypeOK', original' = original, SessionsFine, NEW x \in Session, NEW s,
         \A d \in Device : complete[d] => complete'[d],
         session' = [session EXCEPT ![x] = NoSession]
           \/ ((session' = [session EXCEPT ![x] = s] \/ Put(x, s)) /\ SessionFine(s, complete'))
  PROVE  SessionsFine'
<1>1. \A y \in Session : SessionFine(session[y], complete')
  BY FineLater DEF SessionsFine
<1>2. SessionFine(NoSession, complete')
  BY NoSessionFine
<1>3. \A y \in Session : SessionFine(session'[y], complete')
  BY <1>1, <1>2 DEF Put, Kept, TypeOK
<1> QED
  BY <1>3, SMTT(30) DEF SessionsFine, SessionFine, Offers, HasAll, SetUp

-----------------------------------------------------------------------------
(* Steps of one device                                                     *)

\* What is left to show of a step in which device d comes to manifest m and
\* directory dk.
LEMMA OneDevice ==
  ASSUME TypeOK, original' = original, DevicesFine, NEW d \in Device, NEW m, NEW dk,
         manifest' = [manifest EXCEPT ![d] = m], disk' = [disk EXCEPT ![d] = dk],
         \/ complete' = complete /\ (HasAll(manifest[d]) => HasAll(m))
         \/ complete' = [complete EXCEPT ![d] = TRUE] /\ HasAll(m),
         Yields(m, dk)
  PROVE  DevicesFine' /\ \A e \in Device : complete[e] => complete'[e]
<1>1. ASSUME NEW e \in Device
      PROVE  /\ Yields(manifest'[e], disk'[e])
             /\ complete[e] => complete'[e]
             /\ complete'[e] => HasAll(manifest'[e])
  <2>1. CASE e = d
    <3>1. manifest'[d] = m /\ disk'[d] = dk
      BY DEF TypeOK
    <3>2. \/ complete'[d] = complete[d] /\ (HasAll(manifest[d]) => HasAll(m))
          \/ complete'[d] = TRUE /\ HasAll(m)
      BY DEF TypeOK
    <3>3. complete[d] => HasAll(manifest[d])
      BY DEF DevicesFine
    <3> QED
      BY <2>1, <3>1, <3>2, <3>3
  <2>2. CASE e # d
    <3>1. manifest'[e] = manifest[e] /\ disk'[e] = disk[e] /\ complete'[e] = complete[e]
      BY <2>2 DEF TypeOK
    <3> QED
      BY <3>1 DEF DevicesFine
  <2> QED
    BY <2>1, <2>2
<1>2. SetUp' = SetUp
  BY DEF SetUp
<1>3. ASSUME NEW e \in Device PROVE Yields(manifest[e], disk[e])' /\ (complete'[e] => HasAll(manifest[e])')
  BY <1>1, <1>2, SMTT(30) DEF Yields, Offers, HasAll
<1> QED
  BY <1>1, <1>3 DEF DevicesFine

LEMMA NoDevice ==
  ASSUME TypeOK, original' = original, DevicesFine, UNCHANGED <<manifest, disk, complete>>
  PROVE  DevicesFine' /\ \A e \in Device : complete[e] => complete'[e]
<1>1. SetUp' = SetUp
  BY DEF SetUp
<1> QED
  BY <1>1 DEF DevicesFine, Yields, Offers, HasAll

\* A scan, saved or not.
LEMMA JoinScans ==
  ASSUME JoinInv, original' = original, DevicesFine, NEW d \in Device, NEW now,
         Scan(d, now) \/ ScanInterrupted(d, now)
  PROVE  DevicesFine' /\ \A e \in Device : complete[e] => complete'[e]
<1> DEFINE N == scan_manifest(manifest[d], disk[d], clock[d], d, now)
<1>0. TypeOK
  BY DEF JoinInv
<1>1. CASE Scan(d, now)
  <2>1. /\ manifest' = [manifest EXCEPT ![d] = N] /\ disk' = [disk EXCEPT ![d] = disk[d]]
        /\ complete' = complete /\ complete[d]
    BY <1>0, <1>1 DEF Scan, TypeOK
  <2>2. Yields(manifest[d], disk[d]) /\ HasAll(manifest[d])
    BY <2>1 DEF DevicesFine
  <2>3. Yields(N, disk[d]) /\ HasAll(N)
    BY <2>2, ScanYields
  <2> HIDE DEF N
  <2> QED
    BY <1>0, <2>1, <2>3, OneDevice
<1>2. CASE ScanInterrupted(d, now)
  BY <1>0, <1>2, NoDevice DEF ScanInterrupted
<1> QED
  BY <1>1, <1>2

\* An apply that is saved.
LEMMA JoinSaved ==
  ASSUME JoinInv, original' = original, DevicesFine, NEW d \in Device, NEW remote \in Manifests,
         NEW staged, NEW now, Offers(remote), ApplySaved(d, remote, staged, now)
  PROVE  /\ DevicesFine' /\ complete' = complete
         /\ Offers(manifest'[d]) /\ (HasAll(manifest[d]) => HasAll(manifest'[d]))
<1> DEFINE taken == Taken(disk[d], manifest[d], remote, staged)
           N == Candidate(disk[d], manifest[d], remote, staged)
           dk == DiskAfter(disk[d], remote, taken, DirectorySteps(remote, taken))
<1>0. TypeOK
  BY DEF JoinInv
<1>1. /\ manifest' = [manifest EXCEPT ![d] = N] /\ disk' = [disk EXCEPT ![d] = dk]
      /\ complete' = complete
  BY DEF ApplySaved
<1>2. Yields(manifest[d], disk[d]) /\ manifest[d] \in Manifests
  BY <1>0 DEF DevicesFine, TypeOK
<1>3. Yields(N, dk) /\ (HasAll(manifest[d]) => HasAll(N))
  BY <1>2, ApplyYields
<1> HIDE DEF N, dk, taken
<1>4. manifest'[d] = N
  BY <1>0, <1>1 DEF TypeOK
<1> QED
  BY <1>0, <1>1, <1>3, <1>4, OneDevice DEF Yields

\* An apply that fails or is cut short.
LEMMA JoinFailed ==
  ASSUME JoinInv, original' = original, DevicesFine, NEW d \in Device, NEW remote \in Manifests,
         NEW staged, NEW now, Offers(remote),
         ApplyFailed(d, remote, staged, now) \/ ApplyInterrupted(d, remote, staged, now)
  PROVE  DevicesFine' /\ complete' = complete
<1> DEFINE taken == Taken(disk[d], manifest[d], remote, staged)
           reached == Reached(disk[d], manifest[d], remote, staged)
<1>0. TypeOK /\ Yields(manifest[d], disk[d])
  BY DEF JoinInv, DevicesFine
<1>1. reached \subseteq taken
  BY DEF Reached
<1>2. ASSUME NEW done \in SUBSET taken, NEW chmods
      PROVE  Yields(manifest[d], DiskAfter(disk[d], remote, done, chmods))
  BY <1>0, ApplyLeaves, SMTT(30) DEF Yields
<1>3. ASSUME NEW cut, Yields(manifest[d], cut), NEW q \in taken, NEW n
      PROVE  Yields(manifest[d], Torn(cut, remote, q, n))
  BY <1>0, <1>3, TornLeaves, SMTT(30) DEF Yields
<1>4. ASSUME NEW dk, Yields(manifest[d], dk), LeftAt(d, dk)
      PROVE  DevicesFine' /\ complete' = complete
  <2>1. /\ disk' = [disk EXCEPT ![d] = dk] /\ manifest' = [manifest EXCEPT ![d] = manifest[d]]
        /\ complete' = complete
    BY <1>0, <1>4 DEF LeftAt, TypeOK
  <2> QED
    BY <1>0, <1>4, <2>1, OneDevice
<1> HIDE DEF taken, reached
<1>5. CASE ApplyFailed(d, remote, staged, now)
  <2>1. \E chmods : LeftAt(d, DiskAfter(disk[d], remote, reached, chmods))
    BY <1>5 DEF ApplyFailed, reached
  <2> QED
    BY <1>1, <1>2, <1>4, <2>1
<1>6. CASE ApplyInterrupted(d, remote, staged, now)
  <2>1. Prefixes(disk[d], manifest[d], remote, staged) \subseteq SUBSET taken
    BY <1>1 DEF Prefixes, reached
  <2>2. PICK done, chmods :
          /\ done \in SUBSET taken
          /\ \/ LeftAt(d, DiskAfter(disk[d], remote, done, chmods))
             \/ \E q \in taken : \E n :
                  LeftAt(d, Torn(DiskAfter(disk[d], remote, done, chmods), remote, q, n))
    BY <1>1, <1>6, <2>1 DEF ApplyInterrupted, reached
  <2>3. Yields(manifest[d], DiskAfter(disk[d], remote, done, chmods))
    BY <1>2, <2>2
  <2> QED
    BY <1>3, <1>4, <2>2, <2>3
<1> QED
  BY <1>5, <1>6

\* A device that has all of the owner's records completes and scans.
LEMMA JoinCompletes ==
  ASSUME JoinInv, original' = original, DevicesFine, NEW d \in Device, NEW dk, NEW m, NEW c,
         NEW u, NEW now, NEW cut, CompleteAndScan(d, dk, m, c, u, now, cut),
         disk' = [disk EXCEPT ![d] = dk], Yields(m, dk), HasAll(m)
  PROVE  DevicesFine' /\ \A e \in Device : complete[e] => complete'[e]
<1> DEFINE N == scan_manifest(m, dk, c, d, now)
<1>1. complete' = [complete EXCEPT ![d] = TRUE]
  BY DEF CompleteAndScan
<1>2. manifest' = [manifest EXCEPT ![d] = N] \/ manifest' = [manifest EXCEPT ![d] = m]
  BY DEF CompleteAndScan
<1>3. Yields(N, dk) /\ HasAll(N)
  BY ScanYields
<1> HIDE DEF N
<1> QED
  BY <1>1, <1>2, <1>3, OneDevice DEF JoinInv

-----------------------------------------------------------------------------
(* Steps of one session                                                    *)

\* A half of a session that moves on, or ends, with the manifests it has.
LEMMA MovedFine ==
  ASSUME NEW s, NEW t, NEW completed, SessionFine(s, completed),
         t.out = s.out, t.reply = s.reply, t.client = s.client, t.server = s.server,
         t.cpc # "idle" \/ t.spc # "idle" => s.cpc # "idle" \/ s.spc # "idle",
         t.cpc \in {"receiving", "received"} \/ t.spc = "sending"
           => s.cpc \in {"receiving", "received"} \/ s.spc = "sending",
         t.spc \in {"asked", "same"} => t.spc = s.spc
  PROVE  SessionFine(t, completed)
BY DEF SessionFine

Moves(x) ==
  \/ Ready(x) \/ Receive(x) \/ StartDownload(x) \/ Download(x) \/ Drop(x)
  \/ TransferFails(x) \/ HangUp(x)

LEMMA JoinMoves ==
  ASSUME TypeOK, TypeOK', original' = original, SessionsFine, NEW x \in Session, Moves(x)
  PROVE  SessionsFine'
<1> DEFINE s == session[x]
<1>0. complete' = complete
  BY DEF Moves, Ready, Receive, StartDownload, Download, Drop, TransferFails, HangUp
<1>1. CASE TransferFails(x) \/ HangUp(x)
  <2>1. session' = [session EXCEPT ![x] = NoSession]
    BY <1>1 DEF TransferFails, HangUp
  <2> QED
    BY <1>0, <2>1, OneSession
<1>2. ASSUME NEW t, Put(x, t), SessionFine(t, complete) PROVE SessionsFine'
  BY <1>0, <1>2, OneSession
<1>3. CASE Ready(x) \/ Receive(x) \/ StartDownload(x) \/ Download(x) \/ Drop(x)
  <2>0. s \in ActiveSession /\ SessionFine(s, complete)
    BY <1>3, RunningSession DEF Ready, Receive, StartDownload, Download, Drop, SessionsFine
  <2>1. PICK c \in ClientPc, e \in ServerPc :
          /\ Put(x, [s EXCEPT !.cpc = c, !.spc = e])
          /\ \/ c = s.cpc \/ c = "idle" \/ (c = "receiving" /\ s.spc = "sending")
             \/ (c = "received" /\ s.cpc = "receiving")
          /\ e = s.spc \/ e = "idle" \/ e \in {"ready", "received"}
          /\ s.cpc # "idle" \/ s.spc # "idle"
    <3>1. /\ [s EXCEPT !.spc = "ready"] = [s EXCEPT !.cpc = s.cpc, !.spc = "ready"]
          /\ [s EXCEPT !.spc = "received"] = [s EXCEPT !.cpc = s.cpc, !.spc = "received"]
          /\ [s EXCEPT !.cpc = "receiving"] = [s EXCEPT !.cpc = "receiving", !.spc = s.spc]
          /\ [s EXCEPT !.cpc = "idle"] = [s EXCEPT !.cpc = "idle", !.spc = s.spc]
          /\ [s EXCEPT !.spc = "idle"] = [s EXCEPT !.cpc = s.cpc, !.spc = "idle"]
      BY <2>0 DEF ActiveSession
    <3>2. s.cpc \in ClientPc /\ s.spc \in ServerPc
      BY <2>0 DEF ActiveSession
    <3>3. /\ {"idle", "receiving", "received"} \subseteq ClientPc
          /\ {"idle", "ready", "received"} \subseteq ServerPc
      BY DEF ClientPc, ServerPc
    <3>4. CASE Ready(x)
      BY <3>1, <3>2, <3>3, <3>4 DEF Ready
    <3>5. CASE Receive(x)
      BY <3>1, <3>2, <3>3, <3>5 DEF Receive
    <3>6. CASE StartDownload(x)
      BY <3>1, <3>2, <3>3, <3>6 DEF StartDownload
    <3>7. CASE Download(x)
      BY <3>2, <3>3, <3>7 DEF Download
    <3>8. CASE Drop(x)
      BY <3>1, <3>2, <3>3, <3>8 DEF Drop
    <3> QED
      BY <1>3, <3>4, <3>5, <3>6, <3>7, <3>8
  <2> DEFINE t == [s EXCEPT !.cpc = c, !.spc = e]
  <2>2. /\ t.out = s.out /\ t.reply = s.reply /\ t.client = s.client /\ t.server = s.server
        /\ t.cpc = c /\ t.spc = e
    BY <2>0 DEF ActiveSession
  <2>3. Put(x, t)
    BY <2>1
  <2> HIDE DEF t, s
  <2>4. SessionFine(t, complete)
    BY <2>0, <2>1, <2>2, MovedFine
  <2> QED
    BY <1>2, <2>3, <2>4
<1> QED
  BY <1>1, <1>3 DEF Moves

\* A session that starts.
LEMMA JoinStarts ==
  ASSUME JoinInv, TypeOK', original' = original, DevicesFine, SessionsFine,
         NEW x \in Session, NEW c \in Device, NEW e \in Device, Dial(x, c, e) \/ Open(x, c, e)
  PROVE  SessionsFine'
<1>0. TypeOK /\ e \in Device /\ complete' = complete
  BY DEF JoinInv, Dial, Open
<1>1. Offers(Empty) /\ Offers(manifest[c])
  BY DEF Offers, Empty, SetUp, DevicesFine, Yields
<1>2. ASSUME NEW t, session' = [session EXCEPT ![x] = t],
             t.client = c, t.server = e, c # e, t.cpc \notin {"receiving", "received"},
             t.spc \in {"idle", "asked"}, t.reply = Empty, t.out \in {Empty, manifest[c]},
             t.spc = "asked" /\ ~complete[c] => t.out = Empty
      PROVE  SessionsFine'
  <2>1. SessionFine(t, complete')
    BY <1>0, <1>1, <1>2 DEF SessionFine
  <2> QED
    BY <1>0, <1>2, <2>1, OneSession
<1>3. Free(x, c, e) => c # e
  BY DEF Free, JoinInv
<1>4. CASE Dial(x, c, e)
  <2> DEFINE t == [NoSession EXCEPT !.client = c, !.server = e, !.cpc = "dialing"]
  <2>1. /\ t.client = c /\ t.server = e /\ t.cpc = "dialing" /\ t.spc = "idle"
        /\ t.out = Empty /\ t.reply = Empty
    BY DEF NoSession
  <2>2. session' = [session EXCEPT ![x] = t] /\ c # e
    BY <1>3, <1>4 DEF Dial
  <2> HIDE DEF t
  <2> QED
    BY <1>2, <2>1, <2>2
<1>5. CASE Open(x, c, e)
  <2> DEFINE dialed == session[x].cpc = "dialing" /\ session[x].client = c /\ session[x].server = e
             out == IF dialed THEN Empty ELSE manifest[c]
             peers == known[c] \ {e}
             t == [NoSession EXCEPT !.client = c, !.server = e, !.cpc = "asked", !.spc = "asked",
                                    !.out = out, !.gossip = peers]
  <2>1. session' = [session EXCEPT ![x] = t] /\ (dialed \/ (Free(x, c, e) /\ complete[c]))
    BY <1>5 DEF Open
  <2>2. c # e
    BY <1>3, <2>1 DEF SessionsFine, SessionFine
  <2>3. out \in {Empty, manifest[c]} /\ (~complete[c] => out = Empty)
    BY <2>1
  <2> HIDE DEF out, peers, dialed
  <2>4. /\ t.client = c /\ t.server = e /\ t.cpc = "asked" /\ t.spc = "asked"
        /\ t.out = out /\ t.reply = Empty
    BY DEF NoSession
  <2> HIDE DEF t
  <2> QED
    BY <1>2, <2>1, <2>2, <2>3, <2>4
<1> QED
  BY <1>4, <1>5

\* The owner answers with all it recorded, and finds the digest of an empty manifest
\* equal to its own only when it recorded nothing.
LEMMA JoinAnswers ==
  ASSUME JoinInv, TypeOK', original' = original, DevicesFine, SessionsFine,
         \A d, e \in Device \ {Owner} : d = e,
         NEW x \in Session, Answer(x)
  PROVE  SessionsFine'
<1> DEFINE s == session[x]
           own == manifest[s.server]
           pc == IF s.cpc = "idle" THEN "idle"
                 ELSE IF sync_digest(s.out) = sync_digest(own) THEN "same" ELSE "answered"
           peers == known'[s.server] \ {s.client}
           t == [s EXCEPT !.spc = pc, !.reply = own, !.gossip = peers]
<1>0. TypeOK /\ complete' = complete /\ s.spc = "asked" /\ SessionFine(s, complete)
  BY DEF JoinInv, Answer, SessionsFine
<1>1. s \in ActiveSession /\ s.server \in Device /\ s.client \in Device
  BY <1>0, RunningSession DEF ActiveSession
<1>2. Put(x, t)
  BY DEF Answer
<1>3. Offers(own) /\ (s.client # Owner => HasAll(own))
  <2>1. s.client # Owner => s.server = Owner
    BY <1>0, <1>1, OwnerAssumption DEF SessionFine
  <2> QED
    BY <1>1, <2>1 DEF DevicesFine, Yields, JoinInv
<1>4. ASSUME pc = "same", s.out = Empty, HasAll(own) PROVE SetUp = {}
  <2>1. sync_digest(Empty) = sync_digest(own)
    BY <1>4
  <2>2. sync_digest(Empty) = {}
    BY DEF sync_digest, Empty
  <2>3. \A p \in Path : own[p] = NoRecord
    BY <2>1, <2>2 DEF sync_digest
  <2> QED
    BY <1>4, <2>3 DEF HasAll, SetUp
<1>5. pc \in {"idle", "same", "answered"}
  OBVIOUS
<1> HIDE DEF own, pc, peers
<1>6. /\ t.out = s.out /\ t.reply = own /\ t.client = s.client /\ t.server = s.server
      /\ t.cpc = s.cpc /\ t.spc = pc
  BY <1>1 DEF ActiveSession
<1> HIDE DEF t, s
<1>7. SessionFine(t, complete)
  BY <1>0, <1>3, <1>4, <1>5, <1>6 DEF SessionFine
<1> QED
  BY <1>0, <1>2, <1>7, OneSession

LEMMA JoinRequests ==
  ASSUME TypeOK, TypeOK', original' = original, SessionsFine, NEW x \in Session, Request(x)
  PROVE  SessionsFine'
<1> DEFINE s == session[x]
           up == Uploads(s.out, s.reply)
           down == Downloads(s.out, s.reply)
           t == [s EXCEPT !.cpc = "requested", !.spc = "requested", !.reply = Empty, !.gossip = {},
                          !.uploads = up, !.downloads = down]
<1>0. complete' = complete /\ SessionFine(s, complete) /\ s.cpc # "idle"
  BY DEF Request, SessionsFine
<1>1. s \in ActiveSession
  BY <1>0, RunningSession
<1>2. Put(x, t)
  BY DEF Request
<1> HIDE DEF up, down
<1>3. /\ t.out = s.out /\ t.reply = Empty /\ t.client = s.client /\ t.server = s.server
      /\ t.cpc = "requested" /\ t.spc = "requested"
  BY <1>1 DEF ActiveSession
<1>4. Offers(Empty)
  BY DEF Offers, Empty, SetUp
<1> HIDE DEF t, s
<1>5. SessionFine(t, complete)
  BY <1>0, <1>3, <1>4 DEF SessionFine
<1> QED
  BY <1>0, <1>2, <1>5, OneSession

\* The owner applies what a device sends and answers with all it recorded.
LEMMA JoinServes ==
  ASSUME JoinInv, TypeOK', original' = original, DevicesFine, SessionsFine,
         \A d, e \in Device \ {Owner} : d = e,
         NEW x \in Session, NEW now, ServerApply(x, now)
  PROVE  DevicesFine' /\ SessionsFine'
<1> DEFINE s == session[x]
           own == manifest'[s.server]
           pc == IF s.cpc = "idle" THEN "idle" ELSE "sending"
           down == {p \in s.downloads : own[p].node.kind = "file"}
           t == [s EXCEPT !.spc = pc, !.out = Empty, !.uploads = {}, !.reply = own,
                          !.downloads = down]
<1>0. TypeOK /\ s.spc = "received" /\ SessionFine(s, complete)
  BY DEF JoinInv, ServerApply, SessionsFine
<1>1. s \in ActiveSession /\ s.server \in Device /\ s.client \in Device /\ s.out \in Manifests
  BY <1>0, RunningSession DEF ActiveSession
<1>2. Put(x, t) /\ ApplySaved(s.server, s.out, s.uploads, now)
  BY DEF ServerApply
<1>3. /\ DevicesFine' /\ complete' = complete
      /\ Offers(own) /\ (HasAll(manifest[s.server]) => HasAll(own))
  BY <1>0, <1>1, <1>2, JoinSaved DEF SessionFine
<1>4. s.client # Owner => HasAll(own)
  <2>1. s.client # Owner => s.server = Owner
    BY <1>0, <1>1, OwnerAssumption DEF SessionFine
  <2> QED
    BY <1>1, <1>3, <2>1 DEF DevicesFine, JoinInv
<1>5. pc \in {"idle", "sending"}
  OBVIOUS
<1>6. Offers(Empty)
  BY DEF Offers, Empty, SetUp
<1> HIDE DEF own, pc, down
<1>7. /\ t.out = Empty /\ t.reply = own /\ t.client = s.client /\ t.server = s.server
      /\ t.cpc = s.cpc /\ t.spc = pc
  BY <1>1 DEF ActiveSession
<1> HIDE DEF t, s
<1>8. SessionFine(t, complete)
  BY <1>0, <1>3, <1>4, <1>5, <1>6, <1>7 DEF SessionFine
<1> QED
  BY <1>0, <1>2, <1>3, <1>8, OneSession

LEMMA JoinServerFails ==
  ASSUME JoinInv, TypeOK', original' = original, DevicesFine, SessionsFine,
         NEW x \in Session, NEW now, ServerApplyFails(x, now)
  PROVE  DevicesFine' /\ SessionsFine'
<1> DEFINE s == session[x]
           t == [s EXCEPT !.spc = "idle"]
<1>0. TypeOK /\ s.spc = "received" /\ SessionFine(s, complete)
  BY DEF JoinInv, ServerApplyFails, SessionsFine
<1>1. s \in ActiveSession /\ s.server \in Device /\ s.out \in Manifests
  BY <1>0, RunningSession DEF ActiveSession
<1>2. /\ Put(x, t)
      /\ \/ ApplyFailed(s.server, s.out, s.uploads, now)
         \/ ApplyInterrupted(s.server, s.out, s.uploads, now)
  BY DEF ServerApplyFails
<1>3. DevicesFine' /\ complete' = complete
  BY <1>0, <1>1, <1>2, JoinFailed DEF SessionFine
<1>4. /\ t.out = s.out /\ t.reply = s.reply /\ t.client = s.client /\ t.server = s.server
      /\ t.cpc = s.cpc /\ t.spc = "idle"
  BY <1>1 DEF ActiveSession
<1> HIDE DEF t, s
<1>5. SessionFine(t, complete)
  BY <1>0, <1>4, MovedFine
<1> QED
  BY <1>0, <1>2, <1>3, <1>5, OneSession

\* A device takes what the other side sent it; one that joins has then all of the
\* owner's records, and only then scans.
LEMMA JoinTakes ==
  ASSUME JoinInv, TypeOK', original' = original, DevicesFine, SessionsFine, NEW x \in Session,
         \/ \E now \in Wall : ClientApply(x, now) \/ ClientApplyFails(x, now)
         \/ \E now \in Wall, cut \in BOOLEAN : Unchanged(x, now, cut)
         \/ \E now, later \in Wall, cut \in BOOLEAN : ClientJoins(x, now, later, cut)
  PROVE  DevicesFine' /\ SessionsFine'
<1> DEFINE s == session[x]
           d == s.client
<1>0. TypeOK /\ s.cpc # "idle" /\ SessionFine(s, complete)
  BY DEF JoinInv, ClientApply, ClientApplyFails, Unchanged, ClientJoins, SessionsFine
<1>1. s \in ActiveSession /\ d \in Device /\ s.reply \in Manifests /\ Offers(s.reply)
  BY <1>0, RunningSession DEF ActiveSession, SessionFine
<1>2. session' = [session EXCEPT ![x] = NoSession]
  BY DEF ClientApply, ClientApplyFails, Unchanged, ClientJoins
<1>3. Yields(manifest[d], disk[d]) /\ manifest[d] \in Manifests
  BY <1>0, <1>1 DEF DevicesFine, TypeOK
<1>4. SUFFICES DevicesFine' /\ \A e \in Device : complete[e] => complete'[e]
  BY <1>0, <1>2, OneSession
<1>5. CASE \E now \in Wall : ClientApply(x, now)
  BY <1>1, <1>5, JoinSaved DEF ClientApply
<1>6. CASE \E now \in Wall : ClientApplyFails(x, now)
  BY <1>1, <1>6, JoinFailed DEF ClientApplyFails
<1>7. ASSUME NEW now \in Wall, NEW cut \in BOOLEAN, Unchanged(x, now, cut)
      PROVE  DevicesFine' /\ \A e \in Device : complete[e] => complete'[e]
  <2>1. CASE complete[d]
    BY <1>0, <1>7, <2>1, NoDevice DEF Unchanged
  <2>2. CASE ~complete[d]
    <3>1. /\ CompleteAndScan(d, disk[d], manifest[d], clock[d], unscanned[d], now, cut)
          /\ disk' = disk /\ s.spc = "same"
      BY <1>7, <2>2 DEF Unchanged
    <3>2. SetUp = {}
      BY <1>0, <2>2, <3>1 DEF SessionFine, JoinInv
    <3>3. HasAll(manifest[d])
      BY <3>2 DEF HasAll
    <3>4. disk' = [disk EXCEPT ![d] = disk[d]]
      BY <1>0, <3>1 DEF TypeOK
    <3> QED
      BY <1>1, <1>3, <3>1, <3>3, <3>4, JoinCompletes
  <2> QED
    BY <2>1, <2>2
<1>8. ASSUME NEW now \in Wall, NEW later \in Wall, NEW cut \in BOOLEAN, ClientJoins(x, now, later, cut)
      PROVE  DevicesFine' /\ \A e \in Device : complete[e] => complete'[e]
  <2> DEFINE taken == Taken(disk[d], manifest[d], s.reply, s.downloads)
             N == Candidate(disk[d], manifest[d], s.reply, s.downloads)
             dk == DiskAfter(disk[d], s.reply, taken, DirectorySteps(s.reply, taken))
  <2>1. /\ s.cpc = "received" /\ ~complete[d] /\ disk' = [disk EXCEPT ![d] = dk]
        /\ PendingDownloads(disk[d], manifest[d], s.reply, s.downloads) = {}
        /\ \E k, u : CompleteAndScan(d, dk, N, k, u, later, cut)
    BY <1>8 DEF ClientJoins
  <2>2. HasAll(s.reply)
    BY <1>0, <2>1 DEF SessionFine, JoinInv
  <2>3. Yields(N, dk) /\ HasAll(N)
    BY <1>1, <1>3, <2>1, <2>2, ApplyYields
  <2> HIDE DEF taken, N, dk, s
  <2> QED
    BY <1>1, <2>1, <2>3, JoinCompletes
<1> QED
  BY <1>5, <1>6, <1>7, <1>8

\* A device that stops ends its halves of all sessions.
LEMMA JoinCrashes ==
  ASSUME TypeOK, TypeOK', original' = original, SessionsFine, NEW d \in Device, Crash(d)
  PROVE  SessionsFine'
<1>1. complete' = complete
  BY DEF Crash
<1>2. ASSUME NEW x \in Session PROVE SessionFine(session'[x], complete)
  <2> DEFINE s == session[x]
             c == IF s.client = d THEN "idle" ELSE s.cpc
             e == IF s.server = d THEN "idle" ELSE s.spc
             t == [s EXCEPT !.cpc = c, !.spc = e]
  <2>1. session'[x] = Kept(t) /\ SessionFine(s, complete)
    BY DEF Crash, SessionsFine
  <2>2. c \in {s.cpc, "idle"} /\ e \in {s.spc, "idle"}
    OBVIOUS
  <2> HIDE DEF c, e
  <2>3. s \in ActiveSession \/ s = NoSession
    BY DEF TypeOK
  <2>4. CASE s \in ActiveSession
    <3>1. /\ t.out = s.out /\ t.reply = s.reply /\ t.client = s.client /\ t.server = s.server
          /\ t.cpc = c /\ t.spc = e
      BY <2>4 DEF ActiveSession
    <3> HIDE DEF t, s
    <3>2. SessionFine(t, complete)
      BY <2>1, <2>2, <3>1, MovedFine
    <3> QED
      BY <2>1, <3>2, NoSessionFine DEF Kept
  <2>5. CASE s = NoSession
    <3>1. t.cpc = "idle" /\ t.spc = "idle"
      BY <2>2, <2>5, SMTT(30) DEF NoSession
    <3> HIDE DEF t, s
    <3> QED
      BY <2>1, <3>1, NoSessionFine DEF Kept
  <2> QED
    BY <2>3, <2>4, <2>5
<1> QED
  BY <1>1, <1>2 DEF SessionsFine, SessionFine, Offers, HasAll, SetUp

-----------------------------------------------------------------------------
(* Every step                                                              *)

LEMMA MergedOthers ==
  ASSUME TypeOK, \A d \in Device : d \notin known[d], NEW e, NEW peers, MergePeers(e, peers)
  PROVE  \A d \in Device : d \notin known'[d]
BY DEF TypeOK, MergePeers

\* No device learns itself as a peer.
LEMMA KnowsOthers ==
  ASSUME JoinInv, Next
  PROVE  \A d \in Device : d \notin known'[d]
<1>1. TypeOK /\ \A d \in Device : d \notin known[d]
  BY DEF JoinInv
<1>2. CASE \E x \in Session : Answer(x) \/ Request(x)
  BY <1>1, <1>2, MergedOthers DEF Answer, Request
<1>3. CASE \E x \in Session, now \in Wall, cut \in BOOLEAN : Unchanged(x, now, cut)
  BY <1>1, <1>3, MergedOthers DEF Unchanged
<1>4. CASE known' = known
  BY <1>1, <1>4
<1>5. CASE \E x \in Session : ServerStep(x)
  BY <1>2, <1>4, <1>5 DEF ServerStep, Ready, Receive, ServerApply, ServerApplyFails
<1>6. CASE \E x \in Session : ClientStep(x)
  BY <1>2, <1>3, <1>4, <1>6
  DEF ClientStep, StartDownload, Download, ClientApply, ClientApplyFails, ClientJoins
<1>7. CASE \E x \in Session : TransferFails(x) \/ HangUp(x) \/ Drop(x)
  BY <1>4, <1>7 DEF TransferFails, HangUp, Drop
<1>8. CASE \E d \in Device : Crash(d)
  BY <1>4, <1>8 DEF Crash
<1>9. CASE \E x \in Session, c, s \in Device : Dial(x, c, s) \/ Open(x, c, s)
  BY <1>4, <1>9 DEF Dial, Open
<1>10. CASE \E d \in Device, now \in Wall : Scan(d, now) \/ ScanInterrupted(d, now)
  BY <1>4, <1>10 DEF Scan, ScanInterrupted
<1>11. CASE \E d \in Editor, p \in Path, n \in Edits : Edit(d, p, n)
  BY <1>4, <1>11 DEF Edit
<1> QED
  BY <1>5, <1>6, <1>7, <1>8, <1>9, <1>10, <1>11 DEF Next

\* A completed device stays completed, and an edit is counted.
LEMMA JoinStays ==
  ASSUME JoinInv, Next
  PROVE  /\ complete[Owner] => complete'[Owner]
         /\ edits' = edits \/ edits' # 0
<1>1. TypeOK /\ Owner \in Device
  BY OwnerAssumption DEF JoinInv
<1>2. ASSUME NEW d, NEW dk, NEW m, NEW c, NEW u, NEW now, NEW cut,
             CompleteAndScan(d, dk, m, c, u, now, cut)
      PROVE  complete[Owner] => complete'[Owner]
  BY <1>1, <1>2 DEF CompleteAndScan, TypeOK
<1>3. CASE complete' = complete /\ edits' = edits
  BY <1>3
<1>4. CASE \E x \in Session, now \in Wall, cut \in BOOLEAN : Unchanged(x, now, cut)
  BY <1>2, <1>4 DEF Unchanged
<1>5. CASE \E x \in Session, now, later \in Wall, cut \in BOOLEAN : ClientJoins(x, now, later, cut)
  BY <1>2, <1>5 DEF ClientJoins
<1>6. ASSUME NEW d, NEW remote, NEW staged, NEW now,
             \/ ApplySaved(d, remote, staged, now)
             \/ ApplyFailed(d, remote, staged, now)
             \/ ApplyInterrupted(d, remote, staged, now)
      PROVE  complete' = complete
  BY <1>6 DEF ApplySaved, ApplyFailed, ApplyInterrupted, LeftAt
<1>7. CASE \E x \in Session : ServerStep(x)
  BY <1>3, <1>6, <1>7 DEF ServerStep, Answer, Ready, Receive, ServerApply, ServerApplyFails
<1>8. CASE \E x \in Session : ClientStep(x)
  BY <1>3, <1>4, <1>5, <1>6, <1>8
  DEF ClientStep, Request, StartDownload, Download, ClientApply, ClientApplyFails
<1>9. CASE \E x \in Session : TransferFails(x) \/ HangUp(x) \/ Drop(x)
  BY <1>3, <1>9 DEF TransferFails, HangUp, Drop
<1>10. CASE \E d \in Device : Crash(d)
  BY <1>3, <1>10 DEF Crash
<1>11. CASE \E x \in Session, c, s \in Device : Dial(x, c, s) \/ Open(x, c, s)
  BY <1>3, <1>11 DEF Dial, Open
<1>12. CASE \E d \in Device, now \in Wall : Scan(d, now) \/ ScanInterrupted(d, now)
  BY <1>3, <1>12 DEF Scan, ScanInterrupted
<1>13. CASE \E d \in Editor, p \in Path, n \in Edits : Edit(d, p, n)
  <2>1. complete' = complete /\ edits' = edits + 1 /\ edits \in Nat
    BY <1>1, <1>13 DEF Edit, TypeOK
  <2>2. edits' # 0
    BY <2>1, SMTT(30)
  <2> QED
    BY <2>1, <2>2
<1> QED
  BY <1>7, <1>8, <1>9, <1>10, <1>11, <1>12, <1>13 DEF Next

LEMMA JoinStep ==
  ASSUME \A d, e \in Device \ {Owner} : d = e
  PROVE  JoinInv /\ [SetupNext]_<<vars, original>> => JoinInv'
<1> SUFFICES ASSUME JoinInv, [SetupNext]_<<vars, original>> PROVE JoinInv'
  OBVIOUS
<1>0. [Next]_vars /\ original' = original
  BY DEF SetupNext, vars
<1>1. TypeOK'
  BY <1>0, TypeStep DEF JoinInv
<1>2. CASE UNCHANGED vars
  BY <1>0, <1>1, <1>2 DEF vars, JoinInv, SetUp, DevicesFine, SessionsFine, SessionFine, Yields,
                          Offers, HasAll
<1>3. CASE Next
  <2>1. /\ original' \in Manifests /\ \A p \in SetUp' : Live(original'[p].node)
        /\ complete'[Owner] /\ \A d \in Device : d \notin known'[d]
    BY <1>0, <1>3, KnowsOthers, JoinStays DEF JoinInv, SetUp
  <2>2. ASSUME edits' = 0 PROVE DevicesFine' /\ SessionsFine'
    <3>0. TypeOK /\ edits = 0 /\ DevicesFine /\ SessionsFine
      BY <1>3, <2>2, JoinStays DEF JoinInv
    <3>1. ASSUME UNCHANGED <<manifest, disk, complete>> PROVE DevicesFine'
      BY <1>0, <3>0, <3>1, NoDevice
    <3>2. ASSUME session' = session, \A e \in Device : complete[e] => complete'[e] PROVE SessionsFine'
      BY <1>0, <1>1, <3>0, <3>2, FineLater
      DEF SessionsFine, SessionFine, Offers, HasAll, SetUp
    <3>3. CASE \E d \in Editor, p \in Path, n \in Edits : Edit(d, p, n)
      <4>1. edits' = edits + 1 /\ edits \in Nat
        BY <3>0, <3>3 DEF Edit, TypeOK
      <4> QED
        BY <2>2, <4>1, SMTT(30)
    <3>4. CASE \E d \in Device, now \in Wall : Scan(d, now) \/ ScanInterrupted(d, now)
      <4>1. session' = session
        BY <3>4 DEF Scan, ScanInterrupted
      <4> QED
        BY <1>0, <3>0, <3>2, <3>4, <4>1, JoinScans
    <3>5. CASE \E x \in Session, c, s \in Device : Dial(x, c, s) \/ Open(x, c, s)
      <4>1. UNCHANGED <<manifest, disk, complete>>
        BY <3>5 DEF Dial, Open
      <4> QED
        BY <1>0, <1>1, <3>0, <3>1, <3>5, <4>1, JoinStarts
    <3>6. CASE \E x \in Session : Answer(x)
      BY <1>0, <1>1, <3>0, <3>1, <3>6, JoinAnswers DEF Answer
    <3>7. CASE \E x \in Session : Request(x)
      BY <1>0, <1>1, <3>0, <3>1, <3>7, JoinRequests DEF Request
    <3>8. CASE \E x \in Session : Moves(x)
      <4>1. UNCHANGED <<manifest, disk, complete>>
        BY <3>8 DEF Moves, Ready, Receive, StartDownload, Download, Drop, TransferFails, HangUp
      <4> QED
        BY <1>0, <1>1, <3>0, <3>1, <3>8, <4>1, JoinMoves
    <3>9. CASE \E x \in Session, now \in Wall : ServerApply(x, now) \/ ServerApplyFails(x, now)
      BY <1>0, <1>1, <3>0, <3>9, JoinServes, JoinServerFails
    <3>10. CASE \E x \in Session : \/ \E now \in Wall : ClientApply(x, now) \/ ClientApplyFails(x, now)
                                   \/ \E now \in Wall, cut \in BOOLEAN : Unchanged(x, now, cut)
                                   \/ \E now, later \in Wall, cut \in BOOLEAN :
                                        ClientJoins(x, now, later, cut)
      BY <1>0, <1>1, <3>0, <3>10, JoinTakes
    <3>11. CASE \E d \in Device : Crash(d)
      BY <1>0, <1>1, <3>0, <3>1, <3>11, JoinCrashes DEF Crash
    <3> QED
      BY <1>3, <3>3, <3>4, <3>5, <3>6, <3>7, <3>8, <3>9, <3>10, <3>11
      DEF Next, ServerStep, ClientStep, Moves
  <2> QED
    BY <1>1, <2>1, <2>2 DEF JoinInv
<1> QED
  BY <1>0, <1>2, <1>3

\* The scan of init records every file and directory as it is, and nothing else.
LEMMA JoinInit == SetupInit => JoinInv
<1> SUFFICES ASSUME Init, original = manifest[Owner] PROVE JoinInv
  BY DEF SetupInit
<1>0. TypeOK /\ Owner \in Device
  BY TypeInit, OwnerAssumption
<1>1. PICK now \in Wall :
        manifest = [d \in Device |->
          IF d = Owner THEN scan_manifest(Empty, disk[d], NewClock, d, now) ELSE Empty]
  BY DEF Init
<1> DEFINE N == scan_manifest(Empty, disk[Owner], NewClock, Owner, now)
<1>2. original = N /\ manifest[Owner] = N /\ N \in Manifests
  BY <1>0, <1>1 DEF TypeOK
<1>3. ASSUME NEW p \in SetUp PROVE Live(N[p].node) /\ disk[Owner][p] = N[p].node
  <2>1. p \in Path /\ N[p] # NoRecord
    BY <1>2 DEF SetUp
  <2>2. ~Live(NoRecord.node) /\ Empty[p] = NoRecord
    BY <2>1 DEF Live, NoRecord, NoNode, Empty
  <2>3. p \in Changed(Empty, disk[Owner])
    BY <2>1, <2>2 DEF scan_manifest
  <2>4. Live(disk[Owner][p])
    BY <2>2, <2>3 DEF Changed
  <2>5. N[p].node = disk[Owner][p]
    BY <2>1, <2>3, <2>4 DEF scan_manifest, ScannedNode
  <2> QED
    BY <2>4, <2>5
<1> HIDE DEF N
<1>4. complete = [d \in Device |-> d = Owner] /\ known = [d \in Device |-> {Owner} \ {d}]
  BY DEF Init
<1>5. ASSUME NEW d \in Device
      PROVE  Yields(manifest[d], disk[d]) /\ (complete[d] => HasAll(manifest[d]))
  <2>1. CASE d = Owner
    BY <1>2, <1>3, <2>1 DEF Yields, Offers, HasAll
  <2>2. CASE d # Owner
    <3>1. manifest[d] = Empty /\ ~complete[d]
      BY <1>1, <1>4, <2>2
    <3>2. \A p \in SetUp : manifest[d][p] = NoRecord /\ original[p] # NoRecord
      BY <3>1 DEF SetUp, Empty
    <3> QED
      BY <3>1, <3>2 DEF Yields, Offers
  <2> QED
    BY <2>1, <2>2
<1>6. SessionsFine
  BY NoSessionFine DEF Init, SessionsFine
<1> QED
  BY <1>0, <1>2, <1>3, <1>4, <1>5, <1>6 DEF JoinInv, DevicesFine

\* With one device that joins, whatever fails or stops on either side, no file that was
\* in its directory before is ever recorded at a path that init recorded on the owner,
\* and the owner keeps what it has there, until a user changes something.
THEOREM JoinKeepsOwner ==
  ASSUME \A d, e \in Device \ {Owner} : d = e
  PROVE  SetupSpec => []JoinYieldsToOwner
<1>1. JoinInv => JoinYieldsToOwner
  <2> SUFFICES ASSUME JoinInv, edits = 0, NEW p \in SetUp
               PROVE  /\ \A d \in Device : manifest[d][p] \in {NoRecord, original[p]}
                      /\ disk[Owner][p] = original[p].node
    BY DEF JoinYieldsToOwner
  <2> QED
    BY OwnerAssumption DEF JoinInv, DevicesFine, Yields, Offers, HasAll
<1>2. JoinInv /\ [SetupNext]_<<vars, original>> => JoinInv'
  BY JoinStep
<1> QED
  BY <1>1, <1>2, JoinInit, PTL DEF SetupSpec

\* The device counts its initial sync as complete only with everything that init
\* recorded on the owner, in its directory and in its manifest.
THEOREM JoinIsWhole ==
  ASSUME \A d, e \in Device \ {Owner} : d = e
  PROVE  SetupSpec => []JoinedHasAll
<1>1. JoinInv => JoinedHasAll
  BY DEF JoinedHasAll, JoinInv, DevicesFine, Yields, HasAll
<1>2. JoinInv /\ [SetupNext]_<<vars, original>> => JoinInv'
  BY JoinStep
<1> QED
  BY <1>1, <1>2, JoinInit, PTL DEF SetupSpec
=============================================================================
