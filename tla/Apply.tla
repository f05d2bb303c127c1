------------------------------- MODULE Apply -------------------------------
(***************************************************************************)
(* apply_remote_transfer_impl: brings the shared directory and the         *)
(* manifest up to the records of a remote manifest that win.  It works     *)
(* path by path: deletions deepest first, then directories, symbolic       *)
(* links and files by path, then directory permissions; a step that fails  *)
(* ends it with the steps before it done and nothing saved.                *)
(* local and remote are manifests, staged the paths whose received and     *)
(* verified content waits beside the share, disk the shared directory.     *)
(***************************************************************************)
EXTENDS Scan

CONSTANT DefaultMode   \* of a directory made before its mode is applied

ASSUME DefaultModeAssumption == DefaultMode \in Mode

WinningPaths(local, remote) ==
  {p \in Path : remote_record_wins(local[p], remote[p])}

\* Variant of Steps: directory records are passed over.
StepsWithoutDirectories(local, remote, staged) ==
  {p \in WinningPaths(local, remote) : remote[p].node.kind \in {"tomb", "link"} \/ p \in staged}

\* A winning file that was not received is looked at on disk only when the
\* local record already has its content.
Steps(local, remote, staged) ==
  {p \in WinningPaths(local, remote) :
     remote[p].node.kind = "file" => p \in staged \/ SameContent(local[p], remote[p])}

\* local_file_matches_entry: the content is there, so its record can be taken.
MatchesEntry(disk, remote, p) ==
  disk[p].kind = "file" /\ disk[p].data = remote[p].node.data

\* The steps that change the disk and take the remote record.
Taken(disk, local, remote, staged) ==
  {p \in Steps(local, remote, staged) :
     remote[p].node.kind = "file" /\ p \notin staged => MatchesEntry(disk, remote, p)}

\* Variant of PendingDownloads: nothing counts as pending.
NoPendingDownloads(disk, local, remote, staged) == {}

PendingDownloads(disk, local, remote, staged) ==
  WinningPaths(local, remote) \ Taken(disk, local, remote, staged)

StepGroup(remote, p) ==
  CASE remote[p].node.kind = "tomb" -> 1
    [] remote[p].node.kind = "dir"  -> 2
    [] remote[p].node.kind = "link" -> 3
    [] OTHER -> 4

StepBefore(remote, p, q) ==
  LET g == StepGroup(remote, p)
      h == StepGroup(remote, q)
      deeper == manifest_path_depth(p) - manifest_path_depth(q)
  IN  \/ g < h
      \/ g = 1 /\ h = 1 /\ (deeper > 0 \/ (deeper = 0 /\ p > q))
      \/ g = h /\ g # 1 /\ p < q

\* Leaves a directory alone and puts a new one in the place of anything else.
ensure_local_directory(disk, p) == IF disk[p].kind = "dir" THEN disk[p] ELSE Dir(DefaultMode)

\* The disk once the steps in done have run, and the permission steps in
\* chmods.  Parents that are missing when something is written are created.
DiskAfter(disk, remote, done, chmods) ==
  [p \in Path |->
     IF p \in done
     THEN IF remote[p].node.kind = "dir" /\ p \notin chmods
          THEN ensure_local_directory(disk, p)
          ELSE NodeOf(remote[p])
     ELSE IF ~Live(disk[p]) /\ \E q \in done : p \in Ancestors[q] /\ Live(remote[q].node)
          THEN Dir(DefaultMode)
          ELSE disk[p]]

\* Every step refuses a parent that is not a directory.
safe_local_path_fails(disk, p) == \E a \in Ancestors[p] : disk[a].kind \in {"file", "link"}

\* remove_dir removes an empty directory only.
remove_dir_fails(disk, p) ==
  disk[p].kind = "dir" /\ \E q \in Path : p \in Ancestors[q] /\ Live(disk[q])

remove_local_path_fails(disk, remote, p) ==
  remote[p].node.kind = "tomb" /\ remove_dir_fails(disk, p)

write_local_symlink_fails(disk, remote, p) ==
  remote[p].node.kind = "link" /\ remove_dir_fails(disk, p)

write_local_staged_file_fails(disk, remote, staged, p) ==
  remote[p].node.kind = "file" /\ p \in staged /\ remove_dir_fails(disk, p)

local_file_matches_entry_fails(disk, remote, staged, p) ==
  remote[p].node.kind = "file" /\ p \notin staged /\ disk[p].kind = "link"

StepFails(disk, remote, staged, p) ==
  \/ safe_local_path_fails(disk, p)
  \/ remove_local_path_fails(disk, remote, p)
  \/ write_local_symlink_fails(disk, remote, p)
  \/ write_local_staged_file_fails(disk, remote, staged, p)
  \/ local_file_matches_entry_fails(disk, remote, staged, p)

\* The steps up to the first that fails, all of them if none does.
Before(disk, local, remote, staged, p) ==
  {q \in Taken(disk, local, remote, staged) : StepBefore(remote, q, p)}

Fails(disk, local, remote, staged, p) ==
  StepFails(DiskAfter(disk, remote, Before(disk, local, remote, staged, p), {}),
            remote, staged, p)

FailingSteps(disk, local, remote, staged) ==
  {p \in Steps(local, remote, staged) : Fails(disk, local, remote, staged, p)}

Reached(disk, local, remote, staged) ==
  {p \in Taken(disk, local, remote, staged) :
     \A q \in FailingSteps(disk, local, remote, staged) : StepBefore(remote, p, q)}

\* The prefixes of the steps an apply can have run when it is cut short.
Prefixes(disk, local, remote, staged) ==
  LET R == Reached(disk, local, remote, staged)
  IN  {R} \cup {{q \in R : StepBefore(remote, q, p)} : p \in R}

\* Variant of Candidate: every winning record is taken, its content there or not.
CandidateEager(disk, local, remote, staged) ==
  [p \in Path |-> IF p \in WinningPaths(local, remote) THEN remote[p] ELSE local[p]]

Candidate(disk, local, remote, staged) ==
  [p \in Path |-> IF p \in Taken(disk, local, remote, staged)
                  THEN remote[p] ELSE local[p]]

\* The step at p first removes what is in its way.
RemovesFirst(disk, remote, p) ==
  \/ remote[p].node.kind = "dir" /\ disk[p].kind \in {"file", "link"}
  \/ remote[p].node.kind = "link" /\ Live(disk[p])
  \/ remote[p].node.kind = "file" /\ disk[p].kind \in {"dir", "link"}

\* What the step at p can have left there when it is cut short: what was there,
\* nothing, or a received file that has been renamed but has not got its mode.
TornNodes(disk, remote, staged, p) ==
  {disk[p]} \cup (IF RemovesFirst(disk, remote, p) THEN {NoNode} ELSE {})
    \cup (IF remote[p].node.kind = "file" /\ p \in staged
          THEN {File(remote[p].node.data, DefaultMode)} ELSE {})

\* Missing parents of what is written have been created by then.
Torn(disk, remote, p, n) ==
  [q \in Path |-> IF q = p THEN n
                  ELSE IF q \in Ancestors[p] /\ Live(remote[p].node) /\ ~Live(disk[q])
                  THEN Dir(DefaultMode) ELSE disk[q]]

\* The permission steps run last, over the directories taken.
DirectorySteps(remote, done) == {p \in done : remote[p].node.kind = "dir"}

ApplySucceeds(disk, local, remote, staged) ==
  /\ FailingSteps(disk, local, remote, staged) = {}
  /\ validate(Candidate(disk, local, remote, staged))

-----------------------------------------------------------------------------
\* observe_manifest_clock passes the files, then the directories, then the
\* tombstones of the manifest about to be saved to observe.
Observed(m) == {p \in Path : m[p].node.kind \in {"file", "dir", "tomb"}}

ObserveGroup(m, p) ==
  CASE m[p].node.kind = "file" -> 1 [] m[p].node.kind = "dir" -> 2 [] OTHER -> 3

ObservedBefore(m, p, q) ==
  LET g == ObserveGroup(m, p)
      h == ObserveGroup(m, q)
  IN  g < h \/ (g = h /\ p < q)

\* The clock once the records of S, the first ones in that order, are observed.
ObservedClocks(c, m, S, now) ==
  LET left(p) == Cardinality({q \in S : ~ObservedBefore(m, q, p)})
  IN  ObserveAll(c, now, {<<m[p].version, left(p)>> : p \in S}, Cardinality(S))

\* A counter that overflows on the way is an error, so there is no result.
observe_manifest_clock(c, m, now) ==
  LET upTo(p) == {q \in Observed(m) : q = p \/ ObservedBefore(m, q, p)}
  IN  IF \A S \in {Observed(m)} \cup {upTo(p) : p \in Observed(m)} :
           ObservedClocks(c, m, S, now) \subseteq Clock
      THEN ObservedClocks(c, m, Observed(m), now)
      ELSE {}

\* Variant of AppliedClocks: the clock is left as it was.
AppliedClocksUnobserved(c, local, candidate, now) == {c}

\* The clocks after an apply: it is saved only when the manifest changes.
AppliedClocks(c, local, candidate, now) ==
  IF candidate = local THEN {c} ELSE observe_manifest_clock(c, candidate, now)
=============================================================================
