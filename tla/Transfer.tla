------------------------------ MODULE Transfer ------------------------------
(***************************************************************************)
(* How the contents of files travel: in chunks, into partial files beside  *)
(* the share that a later session resumes, checked against the hash of     *)
(* their record and moved into the shared directory by the apply.  The     *)
(* sessions of a device share its partial files.  ShareSync takes a        *)
(* transfer for one step that delivers the content of a record or fails.   *)
(* A content is a sequence of Size chunks.  Version v of a file has v in   *)
(* every chunk, Hole is a chunk of zero bytes, and a hash stands for the   *)
(* version it is the hash of.  Each file changes on one device only.       *)
(***************************************************************************)
EXTENDS Integers, Sequences, FiniteSets

CONSTANTS Device,
          Session, Client, Server,  \* the sessions and the devices they connect
          File, Editor,             \* files, in the order of paths, and whose each is
          Edited,                   \* the files that change
          Size,                     \* of every version of a file, in chunks
          MaxVersion,               \* how many versions of a file there are
          NoPartial,                \* there is no partial file
          MaxFaults                 \* how many sessions, applies and devices fail

ASSUME SessionAssumption ==
  /\ Client \in [Session -> Device] /\ Server \in [Session -> Device]
  /\ \A x \in Session : Client[x] # Server[x]
ASSUME FileAssumption == File \subseteq Nat /\ Editor \in [File -> Device] /\ Edited \subseteq File
ASSUME SizeAssumption == Size \in Nat \ {0} /\ MaxVersion \in Nat \ {0} /\ MaxFaults \in Nat
ASSUME NoPartialAssumption == \A n \in 0..Size : NoPartial \notin [1..n -> 0..MaxVersion]

VARIABLES disk,      \* the content of every file in the shared directories
          record,    \* the version every manifest names, 0 for none
          partial,   \* the partial file of every version of a file
          session,
          faults

vars == <<disk, record, partial, session, faults>>

Hole == 0
Chunk == 0..MaxVersion

Contents(n) == [1..n -> Chunk]
Partial == UNION {Contents(n) : n \in 0..Size}

Whole(v) == [i \in 1..Size |-> v]
Missing == <<>>

Nothing == [f \in File |-> 0]

\* sent and remote are the manifests of client and server as the other side has
\* them, offset where the content of a file continues, left the files of the
\* transfer under way still to come, writing whether the first of them is open.
Idle == [pc |-> "idle", sent |-> Nothing, remote |-> Nothing, downloads |-> {},
         offset |-> Nothing, left |-> {}, writing |-> FALSE]

Init ==
  /\ disk = [d \in Device |-> [f \in File |-> IF d = Editor[f] THEN Whole(1) ELSE Missing]]
  /\ record = [d \in Device |-> [f \in File |-> IF d = Editor[f] THEN 1 ELSE 0]]
  /\ partial = [d \in Device |-> [f \in File |-> [v \in 1..MaxVersion |-> NoPartial]]]
  /\ session = [x \in Session |-> Idle]
  /\ faults = 0

-----------------------------------------------------------------------------
(* Partial files                                                           *)

\* Variant of partial_size: the chunk after the last is taken for begun.
partial_sizeBegun(d, f, v) ==
  IF partial[d][f][v] = NoPartial THEN 0 ELSE Len(partial[d][f][v]) + 1

\* The length of a partial file; TypeOK rules out one that is too long.
partial_size(d, f, v) == IF partial[d][f][v] = NoPartial THEN 0 ELSE Len(partial[d][f][v])

\* The file is created where it is missing, and cut or extended to the offset.
ensure_partial_file(p, offset) ==
  [i \in 1..offset |-> IF p # NoPartial /\ i <= Len(p) THEN p[i] ELSE Hole]

\* A chunk is written where the file handle stands, past the end or not; to a
\* file that has been removed it is lost.
write_all(p, offset, chunk) ==
  IF p = NoPartial THEN NoPartial
  ELSE [i \in 1..(IF Len(p) > offset THEN Len(p) ELSE offset + 1) |->
          IF i = offset + 1 THEN chunk ELSE IF i <= Len(p) THEN p[i] ELSE Hole]

\* Variant of verify_partial: only the size is compared.
verify_partialSize(p, v) == p # NoPartial /\ Len(p) = Size

verify_partial(p, v) == p = Whole(v)

\* Variant of Rejected: the file stays, to be resumed.
RejectedKept(p) == p

\* verify_partial removes a file with the right size and the wrong hash.
Rejected(p) == IF p # NoPartial /\ Len(p) = Size THEN NoPartial ELSE p

-----------------------------------------------------------------------------
(* The two transfers of a session                                          *)

uploads(s) == {f \in File : s.sent[f] > s.remote[f]}

\* The session holds the receive_lock of the share on device d.
Receives(x, d) ==
  \/ session[x].pc = "uploading" /\ d = Server[x]
  \/ session[x].pc = "downloading" /\ d = Client[x]

receive_lock_free(d) == \A x \in Session : ~Receives(x, d)

Receiver(x) == IF session[x].pc = "uploading" THEN Server[x] ELSE Client[x]
Sender(x) == IF session[x].pc = "uploading" THEN Client[x] ELSE Server[x]

\* The files of the transfer under way and the version of each.
Listed(x) == IF session[x].pc = "uploading" THEN uploads(session[x]) ELSE session[x].downloads
Wanted(x, f) == IF session[x].pc = "uploading" THEN session[x].sent[f] ELSE session[x].remote[f]

Receiving(x) == session[x].pc \in {"uploading", "downloading"}
Current(x, f) == f \in session[x].left /\ \A g \in session[x].left : f <= g

Open(x) ==
  /\ session[x].pc = "idle"
  /\ session' = [session EXCEPT ![x] = [Idle EXCEPT !.pc = "opened", !.sent = record[Client[x]]]]
  /\ UNCHANGED <<disk, record, partial, faults>>

\* The server answers with its manifest; if the two are equal that is all.
Answer(x) ==
  /\ session[x].pc = "opened"
  /\ session' = [session EXCEPT ![x] =
       IF record[Server[x]] = @.sent THEN Idle
       ELSE [@ EXCEPT !.pc = "answered", !.remote = record[Server[x]]]]
  /\ UNCHANGED <<disk, record, partial, faults>>

\* make_transfer_request: the client reads how much of each file it has, without
\* the receive lock.
Request(x) ==
  LET s == session[x]
      wants == {f \in File : s.remote[f] > s.sent[f]}
  IN  /\ s.pc = "answered"
      /\ session' = [session EXCEPT ![x].pc = "requested", ![x].downloads = wants,
           ![x].offset = [f \in File |->
              IF f \in wants THEN partial_size(Client[x], f, s.remote[f]) ELSE 0]]
      /\ UNCHANGED <<disk, record, partial, faults>>

\* Variant of Ready: without the receive lock.
ReadyUnlocked(x) ==
  LET s == session[x]
  IN  /\ s.pc = "requested"
      /\ session' = [session EXCEPT ![x].pc = "uploading", ![x].left = uploads(s),
           ![x].offset = [f \in File |->
              IF f \in uploads(s) THEN partial_size(Server[x], f, s.sent[f]) ELSE @[f]]]
      /\ UNCHANGED <<disk, record, partial, faults>>

\* The server takes the receive lock and then reads how much of each file it has.
Ready(x) ==
  LET s == session[x]
  IN  /\ s.pc = "requested" /\ receive_lock_free(Server[x])
      /\ session' = [session EXCEPT ![x].pc = "uploading", ![x].left = uploads(s),
           ![x].offset = [f \in File |->
              IF f \in uploads(s) THEN partial_size(Server[x], f, s.sent[f]) ELSE @[f]]]
      /\ UNCHANGED <<disk, record, partial, faults>>

\* receive_file_chunks opens the partial file of the next file.
Prepare(x, f) ==
  LET v == Wanted(x, f)
  IN  /\ Receiving(x) /\ ~session[x].writing /\ Current(x, f)
      /\ partial' = [partial EXCEPT ![Receiver(x)][f][v] =
                       ensure_partial_file(@, session[x].offset[f])]
      /\ session' = [session EXCEPT ![x].writing = TRUE]
      /\ UNCHANGED <<disk, record, faults>>

\* The sender reads a chunk of what its file holds by now, the receiver writes it.
Transmit(x, f) ==
  LET offset == session[x].offset[f]
  IN  /\ Receiving(x) /\ session[x].writing /\ Current(x, f)
      /\ offset < Size
      /\ partial' = [partial EXCEPT ![Receiver(x)][f][Wanted(x, f)] =
                       write_all(@, offset, disk[Sender(x)][f][offset + 1])]
      /\ session' = [session EXCEPT ![x].offset[f] = @ + 1]
      /\ UNCHANGED <<disk, record, faults>>

\* Variant of Verify: after a mismatch the session asks for the file again.
VerifyAgain(x, f) ==
  LET d == Receiver(x)
      v == Wanted(x, f)
      verified == verify_partial(partial[d][f][v], v)
  IN  /\ Receiving(x) /\ session[x].writing /\ Current(x, f)
      /\ session[x].offset[f] = Size
      /\ session' = [session EXCEPT ![x] =
           IF verified THEN [@ EXCEPT !.left = session[x].left \ {f}, !.writing = FALSE]
           ELSE [@ EXCEPT !.offset[f] = 0, !.writing = FALSE]]
      /\ partial' = IF verified THEN partial ELSE [partial EXCEPT ![d][f][v] = Rejected(@)]
      /\ UNCHANGED <<disk, record, faults>>

\* The partial file is flushed and hashed; a mismatch ends the session.
Verify(x, f) ==
  LET d == Receiver(x)
      v == Wanted(x, f)
      verified == verify_partial(partial[d][f][v], v)
  IN  /\ Receiving(x) /\ session[x].writing /\ Current(x, f)
      /\ session[x].offset[f] = Size
      /\ session' = [session EXCEPT ![x] =
           IF verified THEN [@ EXCEPT !.left = session[x].left \ {f}, !.writing = FALSE] ELSE Idle]
      /\ partial' = IF verified THEN partial ELSE [partial EXCEPT ![d][f][v] = Rejected(@)]
      /\ UNCHANGED <<disk, record, faults>>

\* The files received whose records win, which the apply takes in the order of paths.
Wins(x, d) == {f \in Listed(x) : Wanted(x, f) > record[d][f]}

\* Files of S are moved into the shared directory.
write_local_staged_file(x, d, S) ==
  disk' = [disk EXCEPT ![d] =
             [f \in File |-> IF f \in S THEN partial[d][f][Wanted(x, f)] ELSE @[f]]]

RemovePartials(x, d, S) ==
  partial' = [partial EXCEPT ![d] =
    [f \in File |-> IF f \in S THEN [@[f] EXCEPT ![Wanted(x, f)] = NoPartial] ELSE @[f]]]

\* The apply saves the records that win; it leaves no partial file of what was received.
Install(x, d) ==
  /\ write_local_staged_file(x, d, Wins(x, d))
  /\ record' = [record EXCEPT ![d] =
                  [f \in File |-> IF f \in Wins(x, d) THEN Wanted(x, f) ELSE @[f]]]
  /\ RemovePartials(x, d, Listed(x))

\* The server applies the upload, unlocks, and lists the files to send back with
\* the versions it has by now; an offset counts for the version it was read for.
ServerApply(x) ==
  LET s == session[x]
  IN  /\ s.pc = "uploading" /\ s.left = {}
      /\ Install(x, Server[x])
      /\ session' = [session EXCEPT ![x].pc = "responding", ![x].remote = record'[Server[x]],
           ![x].offset = [f \in File |->
              IF f \in s.downloads /\ record'[Server[x]][f] = s.remote[f] THEN @[f] ELSE 0]]
      /\ UNCHANGED faults

\* The client takes its receive lock; its offsets are as old as its request.
TakeResponse(x) ==
  /\ session[x].pc = "responding" /\ receive_lock_free(Client[x])
  /\ session' = [session EXCEPT ![x].pc = "downloading", ![x].left = session[x].downloads]
  /\ UNCHANGED <<disk, record, partial, faults>>

ClientApply(x) ==
  /\ session[x].pc = "downloading" /\ session[x].left = {}
  /\ Install(x, Client[x])
  /\ session' = [session EXCEPT ![x] = Idle]
  /\ UNCHANGED faults

-----------------------------------------------------------------------------
(* Failures and the user                                                   *)

\* A session fails at any point, by a lost connection, an error or a timeout.
Fail(x) ==
  /\ session[x].pc # "idle"
  /\ faults < MaxFaults /\ faults' = faults + 1
  /\ session' = [session EXCEPT ![x] = Idle]
  /\ UNCHANGED <<disk, record, partial>>

\* An apply fails, or is cut short, after it has moved some of the files; their
\* records are not saved.
ApplyFails(x, d) ==
  /\ Receives(x, d) /\ session[x].left = {}
  /\ faults < MaxFaults /\ faults' = faults + 1
  /\ \E last \in Wins(x, d) :
       LET moved == {f \in Wins(x, d) : f <= last}
       IN  write_local_staged_file(x, d, moved) /\ RemovePartials(x, d, moved)
  /\ session' = [session EXCEPT ![x] = Idle]
  /\ UNCHANGED record

\* A device goes down: its sessions end, and of a partial file that has not been
\* flushed the end may be lost or hold zero bytes.
Crash(d) ==
  /\ faults < MaxFaults /\ faults' = faults + 1
  /\ session' = [x \in Session |-> IF d \in {Client[x], Server[x]} THEN Idle ELSE session[x]]
  /\ \/ UNCHANGED partial
     \/ \E x \in Session, f \in File : \E n \in 0..session[x].offset[f] : \E m \in 0..n :
          /\ Receives(x, d) /\ session[x].writing /\ Current(x, f)
          /\ partial' = [partial EXCEPT ![d][f][Wanted(x, f)] =
                           ensure_partial_file(ensure_partial_file(@, m), n)]
  /\ UNCHANGED <<disk, record>>

\* The user changes a file, perhaps while it is being sent, keeping its size.
Edit(f) ==
  LET d == Editor[f]
  IN  /\ disk[d][f][1] < MaxVersion
      /\ disk' = [disk EXCEPT ![d][f] = Whole(@[1] + 1)]
      /\ UNCHANGED <<record, partial, session, faults>>

\* A scan records the contents it finds, changed by the user or by an apply that
\* failed.  Records are as new as their contents here; ShareSync has their clocks.
Scan(d) ==
  /\ record' = [record EXCEPT ![d] =
                  [f \in File |-> IF disk[d][f] = Missing THEN @[f] ELSE disk[d][f][1]]]
  /\ record' # record
  /\ UNCHANGED <<disk, partial, session, faults>>

Receive(x) == \E f \in File : Prepare(x, f) \/ Transmit(x, f) \/ Verify(x, f)

\* The steps of a session that wait for no lock, and those that do.
Proceed(x) ==
  Open(x) \/ Answer(x) \/ Request(x) \/ Receive(x) \/ ServerApply(x) \/ ClientApply(x)
TakeLock(x) == Ready(x) \/ TakeResponse(x)

Next ==
  \/ \E x \in Session : Proceed(x) \/ TakeLock(x) \/ Fail(x)
  \/ \E x \in Session, d \in Device : ApplyFails(x, d)
  \/ \E d \in Device : Crash(d) \/ Scan(d)
  \/ \E f \in Edited : Edit(f)

Spec == Init /\ [][Next]_vars

\* Peers are tried again and again, both ends of a session run, a scan follows a
\* change, and the lock is granted in the order in which it was asked for.
Fairness ==
  /\ \A x \in Session : WF_vars(Proceed(x)) /\ SF_vars(TakeLock(x))
  /\ \A d \in Device : WF_vars(Scan(d))

FairSpec == Spec /\ Fairness

-----------------------------------------------------------------------------
\* The type of every variable; a partial file never grows past the size of its file.
TypeOK ==
  /\ disk \in [Device -> [File -> {Missing} \cup Contents(Size)]]
  /\ record \in [Device -> [File -> 0..MaxVersion]]
  /\ partial \in [Device -> [File -> [1..MaxVersion -> Partial \cup {NoPartial}]]]
  /\ session \in [Session ->
       [pc : {"idle", "opened", "answered", "requested", "uploading", "responding", "downloading"},
        sent : [File -> 0..MaxVersion], remote : [File -> 0..MaxVersion], downloads : SUBSET File,
        offset : [File -> 0..Size], left : SUBSET File, writing : BOOLEAN]]
  /\ faults \in 0..MaxFaults

\* A file in a shared directory is whole, and no older than its record, although
\* sessions resume, cut and remove the same partial files, applies stop half-way and
\* files change on the device that sends them.
InstalledWhole ==
  \A d \in Device, f \in File :
    \/ disk[d][f] = Missing /\ record[d][f] = 0
    \/ \E v \in 1..MaxVersion : disk[d][f] = Whole(v) /\ record[d][f] <= v

\* The partial file a session is writing reaches exactly as far as the session has
\* come, and a file it has checked stays as it was until it is applied: no other
\* session comes between, not even one that reads lengths without the lock.
PartialsUndisturbed ==
  \A x \in Session : Receiving(x) => \A f \in Listed(x) :
    LET p == partial[Receiver(x)][f][Wanted(x, f)]
    IN  /\ f \notin session[x].left => p = Whole(Wanted(x, f))
        /\ session[x].writing /\ Current(x, f) => p # NoPartial /\ Len(p) = session[x].offset[f]

\* Every session ends, with files that change under it too; and sessions in both
\* directions between two devices never wait for each other's receive locks.
TransfersEnd == \A x \in Session : []<>(session[x].pc = "idle")

\* Once files no longer change, every device has the last version of each,
\* whatever partial files failed sessions, stale offsets and changed files left.
VersionsArrive ==
  <>[](\A d \in Device, f \in File : record[d][f] = record[Editor[f]][f])
=============================================================================
