----------------------------- MODULE ShareSync -----------------------------
(***************************************************************************)
(* One share on several devices: users change the shared directories, scan *)
(* workers version the changes, and peer sessions exchange manifests and   *)
(* files.  A session has a client half (sync_with_peer) and a server half  *)
(* (handle_sync_stream); they advance, fail and are killed independently.  *)
(* A step is what one half does between two points where another task can  *)
(* run: a read from the network or a lock.  operation_lock makes each      *)
(* apply and each scan one step; receive_lock is held over several steps.  *)
(* The wall clock each step reads is arbitrary: clocks of devices are not  *)
(* synchronised and may be set back.                                       *)
(***************************************************************************)
EXTENDS Apply

CONSTANTS Owner,             \* the device that ran init; the others join
          Editor,            \* the devices whose users change files, before and after sharing
          Session,           \* slots for concurrent sessions
          Edits,             \* what a user may put at a path
          MaxTransferFiles,  \* MAX_TRANSFER_FILES
          MaxWall,           \* wall clock readings are 0..MaxWall
          MaxEdits,          \* how many changes users make
          MaxFaults          \* how many connections, writes and processes fail

ASSUME OwnerAssumption == Owner \in Device /\ Editor \subseteq Device
ASSUME EditsAssumption == Edits \subseteq Node \cup {NoNode}
ASSUME BoundsAssumption ==
  /\ MaxTransferFiles \in Nat /\ MaxWall \in Nat /\ MaxEdits \in Nat /\ MaxFaults \in Nat

VARIABLES disk,       \* the shared directory of each device
          manifest,   \* the saved manifest, equal to the cached snapshot
          clock,      \* the saved clock
          complete,   \* initial_sync_complete of the saved configuration
          known,      \* the saved known peers
          session,    \* the sessions and the messages in flight
          unscanned,  \* paths changed since the last scan other than by an apply that was saved
          edits, faults

vars == <<disk, manifest, clock, complete, known, session, unscanned, edits, faults>>

Wall == 0..MaxWall
Below(p) == {q \in Path : p \in Ancestors[q]}

\* client and server are the two devices; cpc and spc say how far each half is.
\* out is the client's manifest, reply the server's: the one of its first answer,
\* then the one it sends back after applying out.  uploads and downloads are the
\* files requested, gossip the known peers of the last SyncRequest or SyncResponse.
NoSession ==
  [client |-> 0, server |-> 0, cpc |-> "idle", spc |-> "idle", out |-> Empty,
   reply |-> Empty, uploads |-> {}, downloads |-> {}, gossip |-> {}]

ClientPc == {"idle", "dialing", "asked", "requested", "receiving", "received"}
ServerPc == {"idle", "asked", "same", "answered", "requested", "ready", "received", "sending"}

ActiveSession ==
  [client : Device, server : Device, cpc : ClientPc, spc : ServerPc,
   out : Manifests, reply : Manifests, uploads : SUBSET Path, downloads : SUBSET Path,
   gossip : SUBSET Device]

\* A session that both halves have left is forgotten.
Kept(s) == IF s.cpc = "idle" /\ s.spc = "idle" THEN NoSession ELSE s

Put(x, s) == session' = [session EXCEPT ![x] = Kept(s)]

\* The session whose half on device d holds d's receive_lock.
ReceiveLockHeld(d) ==
  \E x \in Session : \/ session[x].server = d /\ session[x].spc \in {"ready", "received"}
                     \/ session[x].client = d /\ session[x].cpc \in {"receiving", "received"}

\* What a directory can look like: whatever is there is below directories only.
IsTree(dk) == \A p \in Path : Live(dk[p]) => \A a \in Ancestors[p] : dk[a].kind = "dir"

\* init has scanned its directory with a new clock; join registers an empty
\* manifest over whatever the directory holds, and knows the ticket's peers.
Init ==
  /\ disk \in [Device -> {dk \in [Path -> Edits \cup {NoNode}] : IsTree(dk)}]
  /\ \A d \in Device \ Editor : disk[d] = [p \in Path |-> NoNode]
  /\ \E now \in Wall :
       /\ ScanSucceeds(Empty, disk[Owner], NewClock, Owner, now)
       /\ manifest = [d \in Device |->
            IF d = Owner THEN scan_manifest(Empty, disk[d], NewClock, d, now) ELSE Empty]
       /\ clock = [d \in Device |->
            IF d = Owner THEN ScannedClock(Empty, disk[d], NewClock, now) ELSE NewClock]
  /\ complete = [d \in Device |-> d = Owner]
  /\ known = [d \in Device |-> {Owner} \ {d}]
  /\ session = [x \in Session |-> NoSession]
  /\ unscanned = [d \in Device |-> IF d = Owner THEN {} ELSE {p \in Path : Live(disk[d][p])}]
  /\ edits = 0
  /\ faults = 0

-----------------------------------------------------------------------------
(* The user and the scan worker                                            *)

\* The user writes, replaces, chmods or removes p; what was below p is removed
\* with it unless p stays a directory.
Edit(d, p, n) ==
  /\ edits < MaxEdits
  /\ disk[d][p] # n
  /\ Live(n) => \A a \in Ancestors[p] : disk[d][a].kind = "dir"
  /\ LET swept == IF n.kind = "dir" /\ disk[d][p].kind = "dir" THEN {} ELSE Below(p)
     IN  /\ disk' = [disk EXCEPT ![d] = [q \in Path |->
                       IF q = p THEN n ELSE IF q \in swept THEN NoNode ELSE @[q]]]
         /\ unscanned' = [unscanned EXCEPT ![d] = @ \cup {p} \cup swept]
  /\ edits' = edits + 1
  /\ UNCHANGED <<manifest, clock, complete, known, session, faults>>

\* scan_and_save: the clock is saved before the manifest.
Scan(d, now) ==
  /\ complete[d]
  /\ ScanSucceeds(manifest[d], disk[d], clock[d], d, now)
  /\ clock' = [clock EXCEPT ![d] = ScannedClock(manifest[d], disk[d], @, now)]
  /\ manifest' = [manifest EXCEPT ![d] = scan_manifest(@, disk[d], clock[d], d, now)]
  /\ unscanned' = [unscanned EXCEPT ![d] = {}]
  /\ UNCHANGED <<disk, complete, known, session, edits, faults>>

\* Variant of ScanInterrupted: the manifest is saved first, and the clock is lost.
ScanInterruptedManifestFirst(d, now) ==
  /\ complete[d]
  /\ faults < MaxFaults
  /\ ScanSucceeds(manifest[d], disk[d], clock[d], d, now)
  /\ manifest' = [manifest EXCEPT ![d] = scan_manifest(@, disk[d], clock[d], d, now)]
  /\ unscanned' = [unscanned EXCEPT ![d] = {}]
  /\ faults' = faults + 1
  /\ UNCHANGED <<disk, clock, complete, known, session, edits>>

\* The manifest is not written: a write error, or the process ends in between.
ScanInterrupted(d, now) ==
  /\ complete[d]
  /\ faults < MaxFaults
  /\ ScanSucceeds(manifest[d], disk[d], clock[d], d, now)
  /\ clock' = [clock EXCEPT ![d] = ScannedClock(manifest[d], disk[d], @, now)]
  /\ faults' = faults + 1
  /\ UNCHANGED <<disk, manifest, complete, known, session, unscanned, edits>>

-----------------------------------------------------------------------------
(* The exchange of digests and manifests                                   *)

\* c may start a session with s: it knows s and has no session with it.
Free(x, c, s) ==
  /\ session[x] = NoSession
  /\ s \in known[c]
  /\ \A y \in Session : session[y].cpc # "idle" => <<session[y].client, session[y].server>> # <<c, s>>

\* The configuration is read before the connection is made.  A session that finds
\* the initial sync incomplete remembers it, although another session may complete
\* it meanwhile; complete stays so, and need not be remembered.
Dial(x, c, s) ==
  /\ Free(x, c, s) /\ ~complete[c]
  /\ session' = [session EXCEPT ![x] =
       [NoSession EXCEPT !.client = c, !.server = s, !.cpc = "dialing"]]
  /\ UNCHANGED <<disk, manifest, clock, complete, known, unscanned, edits, faults>>

\* The connection is up and the client sends its request.  A device that had not
\* completed its initial sync sends an empty manifest.
Open(x, c, s) ==
  LET dialed == session[x].cpc = "dialing" /\ session[x].client = c /\ session[x].server = s
  IN  /\ dialed \/ (Free(x, c, s) /\ complete[c])
      /\ session' = [session EXCEPT ![x] =
           [NoSession EXCEPT !.client = c, !.server = s, !.cpc = "asked", !.spc = "asked",
                             !.out = IF dialed THEN Empty ELSE manifest[c],
                             !.gossip = known[c] \ {s}]]
      /\ UNCHANGED <<disk, manifest, clock, complete, known, unscanned, edits, faults>>

\* merge_remote_peers
MergePeers(d, peers) == known' = [known EXCEPT ![d] = @ \cup (peers \ {d})]

\* The server merges the client's peers and answers with its manifest's digest;
\* equal digests end its half.
Answer(x) ==
  LET s == session[x]
  IN  /\ s.spc = "asked"
      /\ MergePeers(s.server, s.gossip \cup {s.client})
      /\ Put(x, [s EXCEPT !.spc = IF s.cpc = "idle" THEN "idle"
                                  ELSE IF sync_digest(s.out) = sync_digest(manifest[s.server])
                                  THEN "same" ELSE "answered",
                          !.reply = manifest[s.server],
                          !.gossip = known'[s.server] \ {s.client}])
      /\ UNCHANGED <<disk, manifest, clock, complete, unscanned, edits, faults>>

\* Marks the initial sync of d complete, then scans its directory dk against
\* manifest m and clock c; u is what was unscanned.  A failure in between (cut)
\* leaves the share complete and unscanned.
CompleteAndScan(d, dk, m, c, u, now, cut) ==
  LET scans == ~cut /\ ScanSucceeds(m, dk, c, d, now)
  IN  /\ complete' = [complete EXCEPT ![d] = TRUE]
      /\ clock' = [clock EXCEPT ![d] = IF scans THEN ScannedClock(m, dk, c, now) ELSE c]
      /\ manifest' = [manifest EXCEPT ![d] = IF scans THEN scan_manifest(m, dk, c, d, now) ELSE m]
      /\ unscanned' = [unscanned EXCEPT ![d] = IF scans THEN {} ELSE u]
      /\ cut => faults < MaxFaults
      /\ faults' = IF cut THEN faults + 1 ELSE faults

\* Equal digests.  A joining device counts its initial sync as complete and scans.
Unchanged(x, now, cut) ==
  LET s == session[x]
      d == s.client
  IN  /\ s.cpc = "asked" /\ s.spc = "same"
      /\ MergePeers(d, s.gossip \cup {s.server})
      /\ IF complete[d]
         THEN ~cut /\ UNCHANGED <<manifest, clock, complete, unscanned, faults>>
         ELSE CompleteAndScan(d, disk[d], manifest[d], clock[d], unscanned[d], now, cut)
      /\ session' = [session EXCEPT ![x] = NoSession]
      /\ UNCHANGED <<disk, edits>>

\* make_transfer_request, from the manifests exchanged.
Downloads(out, reply) ==
  FirstPaths({p \in Path : /\ reply[p].node.kind = "file"
                           /\ LET winner == select_record(out[p], reply[p])
                              IN  winner.version = reply[p].version /\ ~IsTombstone(winner)
                           /\ ~SameContent(out[p], reply[p])}, MaxTransferFiles)

Uploads(out, reply) ==
  FirstPaths({p \in Path : /\ out[p].node.kind = "file"
                           /\ LET winner == select_record(out[p], reply[p])
                              IN  winner.version = out[p].version /\ ~IsTombstone(winner)
                           /\ ~SameContent(out[p], reply[p])}, MaxTransferFiles)

Request(x) ==
  LET s == session[x]
  IN  /\ s.cpc = "asked" /\ s.spc = "answered"
      /\ MergePeers(s.client, s.gossip \cup {s.server})
      /\ Put(x, [s EXCEPT !.cpc = "requested", !.spc = "requested", !.reply = Empty, !.gossip = {},
                          !.uploads = Uploads(s.out, s.reply),
                          !.downloads = Downloads(s.out, s.reply)])
      /\ UNCHANGED <<disk, manifest, clock, complete, unscanned, edits, faults>>

-----------------------------------------------------------------------------
(* Applying a remote manifest                                              *)

\* The apply runs to its end and saves the clock, then the manifest.
ApplySaved(d, remote, staged, now) ==
  LET taken == Taken(disk[d], manifest[d], remote, staged)
      candidate == Candidate(disk[d], manifest[d], remote, staged)
  IN  /\ ApplySucceeds(disk[d], manifest[d], remote, staged)
      /\ \E k \in AppliedClocks(clock[d], manifest[d], candidate, now) :
           clock' = [clock EXCEPT ![d] = k]
      /\ disk' = [disk EXCEPT ![d] = DiskAfter(@, remote, taken, DirectorySteps(remote, taken))]
      /\ manifest' = [manifest EXCEPT ![d] = candidate]
      /\ unscanned' = [unscanned EXCEPT ![d] = @ \ taken]
      /\ UNCHANGED <<complete, faults>>

\* d's directory is left as dk and its manifest as it was.
LeftAt(d, dk) ==
  /\ disk' = [disk EXCEPT ![d] = dk]
  /\ unscanned' = [unscanned EXCEPT ![d] = @ \cup {p \in Path : dk[p] # disk[d][p]}]
  /\ UNCHANGED <<manifest, complete>>

\* A step fails, or the candidate does not validate, or the clock overflows: the
\* steps before it stay done.
ApplyFailed(d, remote, staged, now) ==
  LET reached == Reached(disk[d], manifest[d], remote, staged)
      failing == FailingSteps(disk[d], manifest[d], remote, staged)
      candidate == Candidate(disk[d], manifest[d], remote, staged)
  IN  /\ \/ ~ApplySucceeds(disk[d], manifest[d], remote, staged)
         \/ AppliedClocks(clock[d], manifest[d], candidate, now) = {}
      /\ LeftAt(d, DiskAfter(disk[d], remote, reached,
                             IF failing = {} THEN DirectorySteps(remote, reached) ELSE {}))
      /\ UNCHANGED <<clock, faults>>

\* The process ends, or a write fails, after some of the steps and perhaps in the
\* middle of the next one.
ApplyInterrupted(d, remote, staged, now) ==
  LET taken == Taken(disk[d], manifest[d], remote, staged)
      candidate == Candidate(disk[d], manifest[d], remote, staged)
  IN  /\ faults < MaxFaults
      /\ faults' = faults + 1
      /\ \E done \in Prefixes(disk[d], manifest[d], remote, staged) :
         \E chmods \in SUBSET (IF done = taken THEN DirectorySteps(remote, done) ELSE {}) :
           LET dk == DiskAfter(disk[d], remote, done, chmods)
               next == {p \in Reached(disk[d], manifest[d], remote, staged) \ done :
                          \A q \in taken : StepBefore(remote, q, p) => q \in done}
           IN  \/ LeftAt(d, dk) /\ UNCHANGED clock
               \/ \E p \in next : \E n \in TornNodes(dk, remote, staged, p) :
                    LeftAt(d, Torn(dk, remote, p, n)) /\ UNCHANGED clock
               \/ /\ ApplySucceeds(disk[d], manifest[d], remote, staged)
                  /\ done = taken /\ chmods = DirectorySteps(remote, taken)
                  /\ LeftAt(d, dk)
                  /\ \E k \in AppliedClocks(clock[d], manifest[d], candidate, now) :
                       clock' = [clock EXCEPT ![d] = k]

-----------------------------------------------------------------------------
(* The transfer: the server receives and applies, then the client          *)

\* The files named are on device d's disk with the content the manifest records.
Sendable(d, files, m) ==
  \A p \in files : disk[d][p].kind = "file" /\ disk[d][p].data = m[p].node.data

\* The server takes its receive_lock and says it is ready for the uploads, whether
\* or not the client is still there.
Ready(x) ==
  LET s == session[x]
  IN  /\ s.spc = "requested"
      /\ ~ReceiveLockHeld(s.server)
      /\ Put(x, [s EXCEPT !.spc = "ready"])
      /\ UNCHANGED <<disk, manifest, clock, complete, known, unscanned, edits, faults>>

\* Every upload arrives and matches its SHA-256; there may be none to wait for.
Receive(x) ==
  LET s == session[x]
  IN  /\ s.spc = "ready"
      /\ s.cpc = "requested" \/ s.uploads = {}
      /\ Sendable(s.client, s.uploads, s.out)
      /\ Put(x, [s EXCEPT !.spc = "received"])
      /\ UNCHANGED <<disk, manifest, clock, complete, known, unscanned, edits, faults>>

\* The server applies the client's manifest, releases its locks and sends its own
\* manifest back with the requested files it then has.
ServerApply(x, now) ==
  LET s == session[x]
      final == manifest'[s.server]
  IN  /\ s.spc = "received"
      /\ ApplySaved(s.server, s.out, s.uploads, now)
      /\ Put(x, [s EXCEPT !.spc = IF s.cpc = "idle" THEN "idle" ELSE "sending",
                          !.out = Empty, !.uploads = {}, !.reply = final,
                          !.downloads = {p \in s.downloads : final[p].node.kind = "file"}])
      /\ UNCHANGED <<known, edits>>

ServerApplyFails(x, now) ==
  LET s == session[x]
  IN  /\ s.spc = "received"
      /\ ApplyFailed(s.server, s.out, s.uploads, now) \/ ApplyInterrupted(s.server, s.out, s.uploads, now)
      /\ Put(x, [s EXCEPT !.spc = "idle"])
      /\ UNCHANGED <<known, edits>>

\* The client takes its receive_lock once the response is there.
StartDownload(x) ==
  LET s == session[x]
  IN  /\ s.cpc = "requested" /\ s.spc = "sending"
      /\ ~ReceiveLockHeld(s.client)
      /\ Put(x, [s EXCEPT !.cpc = "receiving"])
      /\ UNCHANGED <<disk, manifest, clock, complete, known, unscanned, edits, faults>>

\* Every download arrives and matches its SHA-256; the server is done.
Download(x) ==
  LET s == session[x]
  IN  /\ s.cpc = "receiving" /\ s.spc = "sending"
      /\ Sendable(s.server, s.downloads, s.reply)
      /\ Put(x, [s EXCEPT !.cpc = "received", !.spc = "idle"])
      /\ UNCHANGED <<disk, manifest, clock, complete, known, unscanned, edits, faults>>

\* A file changed on disk since its sender's manifest was saved: the size check or
\* the hash check ends both halves.
TransferFails(x) ==
  LET s == session[x]
  IN  /\ \/ s.cpc = "requested" /\ s.spc = "ready" /\ ~Sendable(s.client, s.uploads, s.out)
         \/ s.cpc = "receiving" /\ s.spc = "sending" /\ ~Sendable(s.server, s.downloads, s.reply)
      /\ session' = [session EXCEPT ![x] = NoSession]
      /\ UNCHANGED <<disk, manifest, clock, complete, known, unscanned, edits, faults>>

\* The client applies the server's manifest.
ClientApply(x, now) ==
  LET s == session[x]
      d == s.client
  IN  /\ s.cpc = "received"
      /\ complete[d] \/ PendingDownloads(disk[d], manifest[d], s.reply, s.downloads) # {}
      /\ ApplySaved(d, s.reply, s.downloads, now)
      /\ session' = [session EXCEPT ![x] = NoSession]
      /\ UNCHANGED <<known, edits>>

\* A joining device that has all of the server's files completes and scans.
ClientJoins(x, now, later, cut) ==
  LET s == session[x]
      d == s.client
      taken == Taken(disk[d], manifest[d], s.reply, s.downloads)
      candidate == Candidate(disk[d], manifest[d], s.reply, s.downloads)
      dk == DiskAfter(disk[d], s.reply, taken, DirectorySteps(s.reply, taken))
  IN  /\ s.cpc = "received" /\ ~complete[d]
      /\ PendingDownloads(disk[d], manifest[d], s.reply, s.downloads) = {}
      /\ ApplySucceeds(disk[d], manifest[d], s.reply, s.downloads)
      /\ \E k \in AppliedClocks(clock[d], manifest[d], candidate, now) :
           CompleteAndScan(d, dk, candidate, k, unscanned[d] \ taken, later, cut)
      /\ disk' = [disk EXCEPT ![d] = dk]
      /\ session' = [session EXCEPT ![x] = NoSession]
      /\ UNCHANGED <<known, edits>>

ClientApplyFails(x, now) ==
  LET s == session[x]
  IN  /\ s.cpc = "received"
      /\ ApplyFailed(s.client, s.reply, s.downloads, now)
           \/ ApplyInterrupted(s.client, s.reply, s.downloads, now)
      /\ session' = [session EXCEPT ![x] = NoSession]
      /\ UNCHANGED <<known, edits>>

-----------------------------------------------------------------------------
(* Failures                                                                *)

\* Variant of HangUp: a server waits for uploads without a timeout.
HangUpPatiently(x) ==
  LET s == session[x]
  IN  /\ \/ s.cpc = "idle" /\ s.spc \in {"answered", "same", "requested", "sending"}
         \/ s.spc = "idle" /\ s.cpc \in {"asked", "requested", "receiving"}
      /\ session' = [session EXCEPT ![x] = NoSession]
      /\ UNCHANGED <<disk, manifest, clock, complete, known, unscanned, edits, faults>>

\* A half notices that the other is gone; a server that has all uploads applies
\* them first.
HangUp(x) ==
  LET s == session[x]
  IN  /\ \/ s.cpc = "idle" /\ s.spc \in {"answered", "same", "requested", "ready", "sending"}
         \/ s.spc = "idle" /\ s.cpc \in {"asked", "requested", "receiving"}
      /\ session' = [session EXCEPT ![x] = NoSession]
      /\ UNCHANGED <<disk, manifest, clock, complete, known, unscanned, edits, faults>>

\* One half ends: a lost connection, a timeout, a protocol or I/O error.
Drop(x) ==
  /\ faults < MaxFaults
  /\ \/ session[x].cpc # "idle" /\ Put(x, [session[x] EXCEPT !.cpc = "idle"])
     \/ session[x].spc # "idle" /\ Put(x, [session[x] EXCEPT !.spc = "idle"])
  /\ faults' = faults + 1
  /\ UNCHANGED <<disk, manifest, clock, complete, known, unscanned, edits>>

\* The process on d ends and is started again; everything saved is still there.
Crash(d) ==
  /\ faults < MaxFaults
  /\ session' = [x \in Session |->
       Kept([session[x] EXCEPT !.cpc = IF session[x].client = d THEN "idle" ELSE @,
                               !.spc = IF session[x].server = d THEN "idle" ELSE @])]
  /\ session' # session
  /\ faults' = faults + 1
  /\ UNCHANGED <<disk, manifest, clock, complete, known, unscanned, edits>>

ServerStep(x) ==
  \/ Answer(x) \/ Ready(x) \/ Receive(x)
  \/ \E now \in Wall : ServerApply(x, now) \/ ServerApplyFails(x, now)

ClientStep(x) ==
  \/ Request(x) \/ StartDownload(x) \/ Download(x)
  \/ \E now \in Wall : ClientApply(x, now) \/ ClientApplyFails(x, now)
  \/ \E now \in Wall, cut \in BOOLEAN : Unchanged(x, now, cut)
  \/ \E now, later \in Wall, cut \in BOOLEAN : ClientJoins(x, now, later, cut)

Next ==
  \/ \E d \in Editor, p \in Path, n \in Edits : Edit(d, p, n)
  \/ \E d \in Device, now \in Wall : Scan(d, now) \/ ScanInterrupted(d, now)
  \/ \E x \in Session, c, s \in Device : Dial(x, c, s) \/ Open(x, c, s)
  \/ \E x \in Session : ServerStep(x) \/ ClientStep(x)
  \/ \E x \in Session : TransferFails(x) \/ HangUp(x) \/ Drop(x)
  \/ \E d \in Device : Crash(d)

Spec == Init /\ [][Next]_vars

\* A connection that is up delivers, the waits for one that is not have a timeout,
\* and a mutex is granted to whoever waits for it.
SessionFairness ==
  \A x \in Session :
    SF_vars(\/ session[x].cpc = "dialing" /\ Open(x, session[x].client, session[x].server)
            \/ ServerStep(x) \/ ClientStep(x) \/ TransferFails(x) \/ HangUp(x))

\* Workers scan and dial their known peers again and again.
Fairness ==
  /\ SessionFairness
  /\ \A d \in Device : WF_vars(\E now \in Wall : Scan(d, now))
  /\ \A c \in Device : \A s \in Device \ {c} :
       SF_vars(\E x \in Session : Dial(x, c, s) \/ Open(x, c, s))

SessionSpec == Spec /\ SessionFairness
FairSpec == Spec /\ Fairness

-----------------------------------------------------------------------------
\* The type of every variable.
TypeOK ==
  /\ disk \in [Device -> [Path -> Node \cup {NoNode}]]
  /\ manifest \in [Device -> Manifests]
  /\ clock \in [Device -> Clock]
  /\ complete \in [Device -> BOOLEAN]
  /\ known \in [Device -> SUBSET Device]
  /\ session \in [Session -> ActiveSession \cup {NoSession}]
  /\ unscanned \in [Device -> SUBSET Path]
  /\ edits \in Nat /\ faults \in Nat

\* The manifests held by a half of a session, and those saved on a device too.
Transit == {session[x].out : x \in Session} \cup {session[x].reply : x \in Session}
Copies == {manifest[d] : d \in Device} \cup Transit

\* A version names one record of one path in a set of manifests.
Identified(S) ==
  \A m, n \in S : \A p, q \in Path :
    m[p] # NoRecord /\ n[q] # NoRecord /\ m[p].version = n[q].version
      => p = q /\ m[p] = n[q]

\* A version names one record of one path, wherever it is saved or in flight:
\* last-writer-wins never has to choose between two contents of the same version.
\* scan_and_save keeps this over a crash by saving the clock before the manifest.
VersionIdentity == Identified(Copies)

NotAfter(v, c) ==
  \/ v.wall_ms < c.last_wall_ms
  \/ v.wall_ms = c.last_wall_ms /\ v.counter <= c.last_counter

Authored(S, clk) ==
  \A m \in S : \A p \in Path :
    m[p] # NoRecord => NotAfter(m[p].version, clk[m[p].version.author])

\* No record that exists anywhere is later than the saved clock of the device
\* that made it, so that device never gives the same version out again.
AuthorBound == Authored(Copies, clock)

\* The saved clock of a device is not behind a record it has, whoever made it,
\* so its next change is later than what it replaces.  observe_manifest_clock
\* passes over symbolic links, and they are the exception.
ReplicaBound ==
  \A d \in Device : \A p \in Observed(manifest[d]) :
    NotAfter(manifest[d][p].version, clock[d])

\* What a manifest records of a path is what the directory holds there, unless
\* the path changed since the last scan other than by an apply that was saved:
\* neither an apply (pending, failed or half done) nor a scan of its own makes
\* the manifest promise content that the device cannot send.
ManifestMatchesDisk ==
  \A d \in Device : \A p \in Path \ unscanned[d] :
    disk[d][p] = NodeOf(manifest[d][p])

\* Every live record has its parent directories recorded too, in the manifest of
\* every device: records of a tree that arrive piecemeal still form a tree.
ParentsRecorded ==
  \A d \in Device : \A p \in Path : Live(manifest[d][p].node) =>
    \A a \in Ancestors[p] : manifest[d][a].node.kind = "dir"

\* The record a device has of a path is replaced only by a later one: neither a
\* scan after the wall clock was set back nor an exchange built on old snapshots
\* undoes a change.  Symbolic links are the exception, see LinkVersionsAdvance.
VersionsAdvance ==
  [][\A d \in Device : \A p \in Path :
       \/ manifest[d][p].node.kind \in {"none", "link"}
       \/ manifest'[d][p] = manifest[d][p]
       \/ VersionLess(manifest[d][p].version, manifest'[d][p].version)]_vars

\* Whatever two manifests meet in an exchange, both devices pick the same record
\* of every path, the client with select_record when it makes its request and the
\* other side with remote_record_wins when it applies.
BothSidesAgree ==
  \A m, n \in Copies :
    /\ merge_manifests(m, n) = merge_manifests(n, m)
    /\ \A p \in Path : remote_record_wins(m[p], n[p])
                        <=> n[p] # NoRecord /\ merge_manifests(m, n)[p] = n[p] /\ n[p] # m[p]

\* All devices have completed their initial sync and have the same manifest and
\* directory.
Converged ==
  \A c, d \in Device : complete[c] /\ manifest[c] = manifest[d] /\ disk[c] = disk[d]

\* Once users stop changing files and faults stop, the scans and exchanges that
\* the workers keep running bring every device to the same manifest and directory,
\* although an exchange moves a bounded number of files and may build on old
\* snapshots of either side, and a joining device counts as one of them only when
\* an exchange of its own has left nothing pending and that has been saved.
Convergence == <>[]Converged

\* Every session ends, so every receive_lock is released: two devices that dial
\* each other at once never wait for each other's locks for ever, and the lock of a
\* half whose peer is gone is not lost.
SessionsEnd == \A x \in Session : []<>(session[x] = NoSession)

\* A change of a symbolic link, like one of a file, gets a later version than the
\* record it replaces, so the other devices take it: scan_manifest versions it
\* with a clock that has seen the link it received.
LinkVersionsAdvance ==
  [][\A d \in Device : \A p \in Path :
       \/ manifest'[d][p] = manifest[d][p]
       \/ VersionLess(manifest[d][p].version, manifest'[d][p].version)]_vars

\* A record of its own that a device puts in the place of old is later, but for
\* symbolic links.
Follows(old, new) ==
  old.node.kind \in {"none", "link"} \/ VersionLess(old.version, new.version)

Abstract == INSTANCE Replicas WITH
  replica <- manifest, transit <- Transit, Wins <- remote_record_wins

\* To the manifests, all of scans, applies, sessions, faults and restarts is a
\* last-writer-wins map: a device gets a record from another device only while it
\* wins, from a manifest that device had, and every record it makes has a version
\* of its own that nothing else has.
ImplementsReplicas == Abstract!Spec
=============================================================================
