--------------------------- MODULE TransferProofs ---------------------------
(***************************************************************************)
(* The safety of Transfer for every number of devices, sessions, files,    *)
(* chunks and versions.                                                    *)
(***************************************************************************)
EXTENDS Transfer, TLAPS

\* Zenon proves a leaf unless the leaf cites SMT.
USE ZenonT(60)

SessionType ==
  [pc : {"idle", "opened", "answered", "requested", "uploading", "responding", "downloading"},
   sent : [File -> 0..MaxVersion], remote : [File -> 0..MaxVersion], downloads : SUBSET File,
   offset : [File -> 0..Size], left : SUBSET File, writing : BOOLEAN]

PartialType == [Device -> [File -> [1..MaxVersion -> Partial \cup {NoPartial}]]]

\* Session record s of x holds the receive lock of device d.
At(s, x, d) ==
  \/ s.pc = "uploading" /\ d = Server[x]
  \/ s.pc = "downloading" /\ d = Client[x]

\* The partial files pd of the receiver, for the files listed: those that have come
\* are whole, and the one that is open reaches as far as the session.
Held(s, listed, version, pd) ==
  /\ s.left \subseteq listed
  /\ \A f \in listed : version[f] \in 1..MaxVersion
  /\ \A f \in listed \ s.left : pd[f][version[f]] = Whole(version[f])
  /\ s.writing => \A f \in s.left : (\A g \in s.left : f <= g) =>
       pd[f][version[f]] # NoPartial /\ Len(pd[f][version[f]]) = s.offset[f]

\* What holds of session record s of x while the records are rc, the partial files pa.
Fits(s, x, rc, pa) ==
  /\ s \in SessionType
  /\ \A f \in File : s.sent[f] > 0 => rc[Client[x]][f] > 0
  /\ \A f \in File : s.remote[f] > 0 => rc[Server[x]][f] > 0
  /\ s.writing => s.pc \in {"uploading", "downloading"} /\ s.left # {}
  /\ s.pc \in {"requested", "uploading", "responding", "downloading"} =>
       \A f \in s.downloads : s.remote[f] > 0
  /\ s.pc = "uploading" => Held(s, uploads(s), s.sent, pa[Server[x]])
  /\ s.pc = "downloading" => Held(s, s.downloads, s.remote, pa[Client[x]])

\* Files are whole, and the ones users change are there.
DisksWhole == InstalledWhole /\ \A f \in File : disk[Editor[f]][f] # Missing

OneReceiver ==
  \A x, y \in Session, d \in Device : At(session[x], x, d) /\ At(session[y], y, d) => x = y

TransferInv ==
  /\ disk \in [Device -> [File -> {Missing} \cup Contents(Size)]]
  /\ record \in [Device -> [File -> 0..MaxVersion]]
  /\ partial \in PartialType
  /\ session \in [Session -> SessionType]
  /\ faults \in 0..MaxFaults
  /\ DisksWhole /\ OneReceiver
  /\ \A x \in Session : Fits(session[x], x, record, partial)

-----------------------------------------------------------------------------
(* Contents and partial files                                              *)

\* The length of a content.
LEMMA ContentsLength ==
  ASSUME NEW n \in Nat, NEW p \in Contents(n)
  PROVE  Len(p) = n /\ p \in [1..n -> Chunk]
<1>1. p \in Seq(Chunk)
  BY SMTT(30) DEF Contents
<1>2. DOMAIN p = 1..n /\ DOMAIN p = 1..Len(p)
  BY <1>1, SMTT(30) DEF Contents
<1> QED
  BY <1>1, <1>2, SMTT(30) DEF Contents

\* A whole version is a content, and never the missing one.
LEMMA WholeContent ==
  ASSUME NEW v \in 1..MaxVersion
  PROVE  Whole(v) \in Contents(Size) /\ Whole(v)[1] = v /\ Whole(v) # Missing
<1>1. Whole(v) \in Contents(Size) /\ Whole(v)[1] = v
  BY SizeAssumption, SMTT(30) DEF Whole, Contents, Chunk
<1>2. Len(Whole(v)) = Size
  BY <1>1, ContentsLength, SizeAssumption
<1> QED
  BY <1>1, <1>2, SizeAssumption DEF Missing

\* A partial file is there or not, and then it has a length up to Size.
LEMMA PartialLength ==
  ASSUME NEW p \in Partial \cup {NoPartial}
  PROVE  /\ p # NoPartial => Len(p) \in 0..Size /\ p \in [1..Len(p) -> Chunk]
         /\ p \in Partial => p # NoPartial
<1>1. ASSUME NEW n \in 0..Size, p \in Contents(n)
      PROVE  p # NoPartial /\ Len(p) = n /\ p \in [1..n -> Chunk]
  BY <1>1, NoPartialAssumption, ContentsLength, SizeAssumption, SMTT(30) DEF Contents, Chunk
<1> QED
  BY <1>1 DEF Partial

\* ensure_partial_file leaves a file that ends at the offset.
LEMMA EnsuredPartial ==
  ASSUME NEW p \in Partial \cup {NoPartial}, NEW n \in 0..Size
  PROVE  LET q == ensure_partial_file(p, n)
         IN  q \in Partial /\ q # NoPartial /\ Len(q) = n
<1> DEFINE q == ensure_partial_file(p, n)
<1>1. q \in Contents(n)
  BY PartialLength, SizeAssumption, SMTT(30) DEF ensure_partial_file, Contents, Chunk, Hole
<1>2. q \in Partial
  BY <1>1 DEF Partial
<1> QED
  BY <1>1, <1>2, ContentsLength, PartialLength, SizeAssumption, SMTT(30)

\* A chunk written at the end of a partial file extends it by one.
LEMMA WrittenPartial ==
  ASSUME NEW p \in Partial \cup {NoPartial}, p # NoPartial, Len(p) < Size, NEW u \in Chunk
  PROVE  LET q == write_all(p, Len(p), u)
         IN  q \in Partial /\ q # NoPartial /\ Len(q) = Len(p) + 1
<1> DEFINE q == write_all(p, Len(p), u)
           n == Len(p)
<1>1. n \in 0..Size /\ p \in [1..n -> Chunk] /\ n < Size
  BY PartialLength
<1>2. q = [i \in 1..(n + 1) |-> IF i = n + 1 THEN u ELSE IF i <= n THEN p[i] ELSE Hole]
  BY <1>1, SizeAssumption, SMTT(30) DEF write_all
<1>3. q \in Contents(n + 1)
  BY <1>1, <1>2, SizeAssumption, SMTT(30) DEF Contents, Chunk, Hole
<1>4. n + 1 \in 0..Size
  BY <1>1, SizeAssumption, SMTT(30)
<1>5. q \in Partial
  BY <1>3, <1>4 DEF Partial
<1> QED
  BY <1>3, <1>4, <1>5, ContentsLength, PartialLength, SizeAssumption, SMTT(30)

-----------------------------------------------------------------------------
(* Steps of one session                                                    *)

\* Records that are there stay.
RecordsStay == \A d \in Device, f \in File : record[d][f] > 0 => record'[d][f] > 0

\* What a session asks of the partial files of other devices than its own receiver
\* does not matter to it.
LEMMA FitsStill ==
  ASSUME NEW y \in Session, NEW s, Fits(s, y, record, partial), RecordsStay,
         \A d \in Device : At(s, y, d) => partial'[d] = partial[d]
  PROVE  Fits(s, y, record', partial')
<1>1. Client[y] \in Device /\ Server[y] \in Device
  BY SessionAssumption
<1>2. /\ s.pc = "uploading" => partial'[Server[y]] = partial[Server[y]]
      /\ s.pc = "downloading" => partial'[Client[y]] = partial[Client[y]]
  BY <1>1 DEF At
<1>3. \A f \in File : s.sent[f] > 0 => record'[Client[y]][f] > 0
  BY <1>1 DEF Fits, RecordsStay
<1>4. \A f \in File : s.remote[f] > 0 => record'[Server[y]][f] > 0
  BY <1>1 DEF Fits, RecordsStay
<1> QED
  BY <1>2, <1>3, <1>4 DEF Fits

\* Only session x moves, to record s: it keeps to its receiver's partial files, and
\* the locks it holds are its own.
Moves(x, s) ==
  /\ session' = [session EXCEPT ![x] = s]
  /\ Fits(s, x, record', partial')
  /\ RecordsStay
  /\ \A d \in Device : At(s, x, d) =>
       At(session[x], x, d) \/ \A y \in Session : ~At(session[y], y, d)
  /\ \A d \in Device : partial'[d] = partial[d] \/ At(session[x], x, d)

\* Such a step keeps the sessions in order.
LEMMA SessionsMove ==
  ASSUME TransferInv, NEW x \in Session, NEW s, Moves(x, s)
  PROVE  /\ session' \in [Session -> SessionType]
         /\ OneReceiver'
         /\ \A y \in Session : Fits(session'[y], y, record', partial')
<1>1. s \in SessionType /\ session' = [session EXCEPT ![x] = s]
  BY DEF Moves, Fits
<1>2. session' \in [Session -> SessionType]
  BY <1>1 DEF TransferInv
<1>3. session'[x] = s /\ \A y \in Session \ {x} : session'[y] = session[y]
  BY <1>1 DEF TransferInv
<1>4. ASSUME NEW y \in Session, NEW z \in Session, NEW d \in Device,
             At(session'[y], y, d), At(session'[z], z, d)
      PROVE  y = z
  <2>1. CASE y # x /\ z # x
    BY <1>3, <1>4, <2>1 DEF TransferInv, OneReceiver
  <2>2. ASSUME NEW w \in Session, w # x, At(session'[w], w, d), At(session'[x], x, d)
        PROVE  FALSE
    <3>1. At(session[w], w, d) /\ At(s, x, d)
      BY <1>3, <2>2
    <3>2. At(session[x], x, d)
      BY <3>1 DEF Moves
    <3> QED
      BY <2>2, <3>1, <3>2 DEF TransferInv, OneReceiver
  <2> QED
    BY <1>4, <2>1, <2>2
<1>5. ASSUME NEW y \in Session
      PROVE  Fits(session'[y], y, record', partial')
  <2>1. CASE y = x
    BY <1>3, <2>1 DEF Moves
  <2>2. CASE y # x
    <3>1. session'[y] = session[y] /\ Fits(session[y], y, record, partial) /\ RecordsStay
      BY <1>3, <2>2 DEF TransferInv, Moves
    <3>2. ASSUME NEW d \in Device, At(session[y], y, d)
          PROVE  partial'[d] = partial[d]
      BY <2>2, <3>2 DEF TransferInv, OneReceiver, Moves
    <3> QED
      BY <3>1, <3>2, FitsStill
  <2> QED
    BY <2>1, <2>2
<1> QED
  BY <1>2, <1>4, <1>5 DEF OneReceiver, At

\* A step of one session that leaves the disks alone.
LEMMA QuietMove ==
  ASSUME TransferInv, NEW x \in Session, NEW s, Moves(x, s), UNCHANGED <<disk, record>>,
         partial' \in PartialType, faults' \in 0..MaxFaults
  PROVE  TransferInv'
<1>1. /\ session' \in [Session -> SessionType]
      /\ OneReceiver'
      /\ \A y \in Session : Fits(session'[y], y, record', partial')
  BY SessionsMove
<1>2. DisksWhole'
  BY DEF TransferInv, DisksWhole, InstalledWhole
<1> QED
  BY <1>1, <1>2 DEF TransferInv

\* A step of one session that moves to a state in which it receives nothing.
LEMMA OutsideMove ==
  ASSUME TransferInv, NEW x \in Session, NEW s,
         session' = [session EXCEPT ![x] = s], UNCHANGED <<disk, record, partial, faults>>,
         s \in SessionType, s.pc \notin {"uploading", "downloading"}, ~s.writing,
         \A f \in File : s.sent[f] > 0 => record[Client[x]][f] > 0,
         \A f \in File : s.remote[f] > 0 => record[Server[x]][f] > 0,
         s.pc \in {"requested", "responding"} => \A f \in s.downloads : s.remote[f] > 0
  PROVE  TransferInv'
<1>1. Fits(s, x, record, partial)
  BY DEF Fits
<1>2. RecordsStay /\ \A d \in Device : ~At(s, x, d)
  BY DEF RecordsStay, At
<1>3. Fits(s, x, record', partial')
  BY <1>1
<1>4. Moves(x, s)
  BY <1>2, <1>3 DEF Moves
<1> QED
  BY <1>4, QuietMove DEF TransferInv

LEMMA IdleSession ==
  /\ Idle \in SessionType /\ Idle.pc = "idle" /\ ~Idle.writing
  /\ \A f \in File : Idle.sent[f] = 0 /\ Idle.remote[f] = 0
BY SizeAssumption, SMTT(30) DEF Idle, Nothing, SessionType

LEMMA IdleFits ==
  ASSUME NEW x, NEW rc, NEW pa
  PROVE  Fits(Idle, x, rc, pa) /\ \A d : ~At(Idle, x, d)
BY IdleSession, SMTT(30) DEF Fits, At

LEMMA OpenKeeps ==
  ASSUME TransferInv, NEW x \in Session, Open(x)
  PROVE  TransferInv'
<1> DEFINE s == [Idle EXCEPT !.pc = "opened", !.sent = record[Client[x]]]
<1>1. record[Client[x]] \in [File -> 0..MaxVersion]
  BY SessionAssumption DEF TransferInv
<1>2. s \in SessionType
  BY <1>1, IdleSession DEF SessionType
<1>3. /\ s.pc = "opened" /\ ~s.writing /\ s.sent = record[Client[x]]
      /\ \A f \in File : s.remote[f] = 0
  BY IdleSession DEF SessionType
<1>4. session' = [session EXCEPT ![x] = s] /\ UNCHANGED <<disk, record, partial, faults>>
  BY DEF Open
<1> HIDE DEF s
<1>5. \A f \in File : s.remote[f] > 0 => record[Server[x]][f] > 0
  BY <1>3, SMTT(30)
<1> QED
  BY <1>2, <1>3, <1>4, <1>5, OutsideMove

LEMMA AnswerKeeps ==
  ASSUME TransferInv, NEW x \in Session, Answer(x)
  PROVE  TransferInv'
<1> DEFINE o == session[x]
           s == IF record[Server[x]] = o.sent THEN Idle
                ELSE [o EXCEPT !.pc = "answered", !.remote = record[Server[x]]]
<1>1. record[Server[x]] \in [File -> 0..MaxVersion]
  BY SessionAssumption DEF TransferInv
<1>2. o \in SessionType /\ Fits(o, x, record, partial) /\ o.pc = "opened"
  BY DEF TransferInv, Answer
<1>3. session' = [session EXCEPT ![x] = s] /\ UNCHANGED <<disk, record, partial, faults>>
  BY DEF Answer
<1>4. CASE record[Server[x]] = o.sent
  <2>1. s = Idle
    BY <1>4
  <2>2. \A f \in File : ~(Idle.sent[f] > 0) /\ ~(Idle.remote[f] > 0)
    BY IdleSession, SMTT(30)
  <2> QED
    BY <1>3, <2>1, <2>2, IdleSession, OutsideMove
<1>5. CASE record[Server[x]] # o.sent
  <2>1. /\ s \in SessionType /\ s.pc = "answered" /\ s.writing = o.writing
        /\ s.sent = o.sent /\ s.remote = record[Server[x]]
    BY <1>1, <1>2, <1>5 DEF SessionType
  <2>2. ~s.writing /\ \A f \in File : s.sent[f] > 0 => record[Client[x]][f] > 0
    BY <1>2, <2>1 DEF Fits
  <2> HIDE DEF s
  <2> QED
    BY <1>3, <2>1, <2>2, OutsideMove
<1> QED
  BY <1>4, <1>5

\* Every partial file there can be has its type.
LEMMA PartialOf ==
  ASSUME TransferInv, NEW d \in Device, NEW f \in File, NEW v \in 1..MaxVersion
  PROVE  partial[d][f][v] \in Partial \cup {NoPartial}
<1> DEFINE Q == Partial \cup {NoPartial}
           P == [1..MaxVersion -> Q]
<1>1. partial \in [Device -> [File -> P]]
  BY DEF TransferInv, PartialType
<1> HIDE DEF P
<1>2. partial[d][f] \in P
  BY <1>1
<1> HIDE DEF Q
<1>3. partial[d][f][v] \in Q
  BY <1>2 DEF P
<1> QED
  BY <1>3 DEF Q

\* The length of a partial file is an offset.
LEMMA PartialSize ==
  ASSUME TransferInv, NEW d \in Device, NEW f \in File, NEW v \in 1..MaxVersion
  PROVE  partial_size(d, f, v) \in 0..Size
<1>1. partial[d][f][v] \in Partial \cup {NoPartial}
  BY PartialOf
<1> QED
  BY <1>1, PartialLength, SizeAssumption, SMTT(30) DEF partial_size

LEMMA RequestKeeps ==
  ASSUME TransferInv, NEW x \in Session, Request(x)
  PROVE  TransferInv'
<1> DEFINE o == session[x]
           wants == {f \in File : o.remote[f] > o.sent[f]}
           offsets == [f \in File |->
             IF f \in wants THEN partial_size(Client[x], f, o.remote[f]) ELSE 0]
           s == [o EXCEPT !.pc = "requested", !.downloads = wants, !.offset = offsets]
<1>1. o \in SessionType /\ Fits(o, x, record, partial) /\ o.pc = "answered"
  BY DEF TransferInv, Request
<1>2. ASSUME NEW f \in wants
      PROVE  o.remote[f] \in 1..MaxVersion
  BY <1>1, SizeAssumption, SMTT(30) DEF SessionType
<1>3. offsets \in [File -> 0..Size]
  <2>1. \A f \in wants : partial_size(Client[x], f, o.remote[f]) \in 0..Size
    BY <1>2, PartialSize, SessionAssumption
  <2> QED
    BY <2>1, SizeAssumption, SMTT(30)
<1>4. session' = [session EXCEPT ![x] = s] /\ UNCHANGED <<disk, record, partial, faults>>
  BY <1>1 DEF TransferInv, Request
<1> HIDE DEF offsets
<1>5. /\ s \in SessionType /\ s.pc = "requested" /\ s.writing = o.writing
      /\ s.sent = o.sent /\ s.remote = o.remote /\ s.downloads = wants
  BY <1>1, <1>3 DEF SessionType
<1> HIDE DEF s
<1>6. /\ ~s.writing
      /\ \A f \in File : s.sent[f] > 0 => record[Client[x]][f] > 0
      /\ \A f \in File : s.remote[f] > 0 => record[Server[x]][f] > 0
  BY <1>1, <1>5 DEF Fits
<1>7. \A f \in s.downloads : s.remote[f] > 0
  BY <1>2, <1>5, SMTT(30)
<1> QED
  BY <1>4, <1>5, <1>6, <1>7, OutsideMove

\* A transfer begins: the session takes a lock that is free, with all files to come.
LEMMA BeginsReceiving ==
  ASSUME TransferInv, NEW x \in Session, NEW s, NEW d \in Device,
         session' = [session EXCEPT ![x] = s], UNCHANGED <<disk, record, partial, faults>>,
         receive_lock_free(d), s \in SessionType, ~s.writing,
         s.sent = session[x].sent, s.remote = session[x].remote,
         s.downloads = session[x].downloads,
         \A f \in s.downloads : s.remote[f] > 0,
         \/ s.pc = "uploading" /\ d = Server[x] /\ s.left = uploads(s)
         \/ s.pc = "downloading" /\ d = Client[x] /\ s.left = s.downloads
  PROVE  TransferInv'
<1>1. Fits(session[x], x, record, partial)
  BY DEF TransferInv
<1>2. \A f \in uploads(s) : s.sent[f] \in 1..MaxVersion
  BY SizeAssumption, SMTT(30) DEF uploads, SessionType
<1>3. \A f \in s.downloads : s.remote[f] \in 1..MaxVersion
  BY SizeAssumption, SMTT(30) DEF SessionType
<1>4. s.pc = "uploading" => Held(s, uploads(s), s.sent, partial[Server[x]])
  BY <1>2 DEF Held
<1>5. s.pc = "downloading" => Held(s, s.downloads, s.remote, partial[Client[x]])
  BY <1>3 DEF Held
<1>6. Fits(s, x, record, partial)
  BY <1>1, <1>4, <1>5 DEF Fits
<1>7. Fits(s, x, record', partial') /\ RecordsStay
  BY <1>6 DEF RecordsStay
<1>8. \A e \in Device : At(s, x, e) => e = d
  BY SMTT(30) DEF At
<1>9. \A y \in Session : ~At(session[y], y, d)
  BY DEF receive_lock_free, Receives, At
<1>10. Moves(x, s)
  BY <1>7, <1>8, <1>9 DEF Moves
<1> QED
  BY <1>10, QuietMove DEF TransferInv

LEMMA ReadyKeeps ==
  ASSUME TransferInv, NEW x \in Session, Ready(x)
  PROVE  TransferInv'
<1> DEFINE o == session[x]
           offsets == [f \in File |->
             IF f \in uploads(o) THEN partial_size(Server[x], f, o.sent[f]) ELSE o.offset[f]]
           s == [o EXCEPT !.pc = "uploading", !.left = uploads(o), !.offset = offsets]
<1>1. o \in SessionType /\ Fits(o, x, record, partial) /\ o.pc = "requested"
  BY DEF TransferInv, Ready
<1>2. ASSUME NEW f \in uploads(o)
      PROVE  o.sent[f] \in 1..MaxVersion /\ f \in File
  BY <1>1, SizeAssumption, SMTT(30) DEF SessionType, uploads
<1>3. offsets \in [File -> 0..Size]
  BY <1>1, <1>2, PartialSize, SessionAssumption, SizeAssumption DEF SessionType
<1>4. session' = [session EXCEPT ![x] = s] /\ UNCHANGED <<disk, record, partial, faults>>
  BY <1>1 DEF TransferInv, Ready
<1> HIDE DEF offsets
<1>5. uploads(o) \subseteq File
  BY DEF uploads
<1>6. /\ s \in SessionType /\ s.pc = "uploading" /\ s.writing = o.writing
      /\ s.sent = o.sent /\ s.remote = o.remote /\ s.downloads = o.downloads
      /\ s.left = uploads(o)
  BY <1>1, <1>3, <1>5 DEF SessionType
<1> HIDE DEF s
<1>7. ~s.writing /\ \A f \in s.downloads : s.remote[f] > 0
  BY <1>1, <1>6 DEF Fits
<1>8. uploads(s) = uploads(o) /\ Server[x] \in Device /\ receive_lock_free(Server[x])
  BY <1>6, SessionAssumption DEF uploads, Ready
<1> QED
  BY <1>4, <1>6, <1>7, <1>8, BeginsReceiving

LEMMA TakeResponseKeeps ==
  ASSUME TransferInv, NEW x \in Session, TakeResponse(x)
  PROVE  TransferInv'
<1> DEFINE o == session[x]
           s == [o EXCEPT !.pc = "downloading", !.left = o.downloads]
<1>1. o \in SessionType /\ Fits(o, x, record, partial) /\ o.pc = "responding"
  BY DEF TransferInv, TakeResponse
<1>2. session' = [session EXCEPT ![x] = s] /\ UNCHANGED <<disk, record, partial, faults>>
  BY <1>1 DEF TransferInv, TakeResponse
<1>3. /\ s \in SessionType /\ s.pc = "downloading" /\ s.writing = o.writing
      /\ s.sent = o.sent /\ s.remote = o.remote /\ s.downloads = o.downloads
      /\ s.left = o.downloads
  BY <1>1 DEF SessionType
<1> HIDE DEF s
<1>4. ~s.writing /\ \A f \in s.downloads : s.remote[f] > 0
  BY <1>1, <1>3 DEF Fits
<1>5. Client[x] \in Device /\ receive_lock_free(Client[x])
  BY SessionAssumption DEF TakeResponse
<1> QED
  BY <1>2, <1>3, <1>4, <1>5, BeginsReceiving

-----------------------------------------------------------------------------
(* Steps of a session that receives                                        *)

Versions(x) == IF session[x].pc = "uploading" THEN session[x].sent ELSE session[x].remote

\* A receiving session, its receiver and the files listed.
LEMMA ReceiverFacts ==
  ASSUME TransferInv, NEW x \in Session, Receiving(x)
  PROVE  /\ Receiver(x) \in Device /\ Sender(x) \in Device
         /\ At(session[x], x, Receiver(x))
         /\ Listed(x) \subseteq File
         /\ Held(session[x], Listed(x), Versions(x), partial[Receiver(x)])
         /\ \A f \in File : Wanted(x, f) = Versions(x)[f]
         /\ \A f \in Listed(x) : Wanted(x, f) \in 1..MaxVersion /\ record[Sender(x)][f] > 0
<1>1. session[x] \in SessionType /\ Fits(session[x], x, record, partial)
  BY DEF TransferInv
<1>2. CASE session[x].pc = "uploading"
  <2>1. /\ Receiver(x) = Server[x] /\ Sender(x) = Client[x] /\ Listed(x) = uploads(session[x])
        /\ Versions(x) = session[x].sent /\ \A f \in File : Wanted(x, f) = Versions(x)[f]
    BY <1>2 DEF Receiver, Sender, Listed, Versions, Wanted
  <2>2. Held(session[x], Listed(x), Versions(x), partial[Receiver(x)])
    BY <1>1, <1>2, <2>1 DEF Fits
  <2>3. \A f \in Listed(x) : f \in File /\ Versions(x)[f] \in 1..MaxVersion
    BY <2>1, <2>2 DEF Held, uploads
  <2> QED
    BY <1>1, <1>2, <2>1, <2>2, <2>3, SessionAssumption, SizeAssumption, SMTT(30) DEF At, Fits
<1>3. CASE session[x].pc = "downloading"
  <2>1. /\ Receiver(x) = Client[x] /\ Sender(x) = Server[x] /\ Listed(x) = session[x].downloads
        /\ Versions(x) = session[x].remote /\ \A f \in File : Wanted(x, f) = Versions(x)[f]
    BY <1>3 DEF Receiver, Sender, Listed, Versions, Wanted
  <2>2. Held(session[x], Listed(x), Versions(x), partial[Receiver(x)])
    BY <1>1, <1>3, <2>1 DEF Fits
  <2>3. \A f \in Listed(x) : f \in File /\ Versions(x)[f] \in 1..MaxVersion
    BY <1>1, <2>1, <2>2 DEF Held, SessionType
  <2> QED
    BY <1>1, <1>3, <2>1, <2>2, <2>3, SessionAssumption, SizeAssumption DEF At, Fits
<1> QED
  BY <1>2, <1>3 DEF Receiving

\* The partial files are q once p has taken the place of one of them.
OneChanges(q, d, f, v, p) ==
  /\ d \in Device /\ f \in File /\ v \in 1..MaxVersion /\ p \in Partial \cup {NoPartial}
  /\ q = [partial EXCEPT ![d][f][v] = p]

OthersStay(q, d, f, v, p) ==
  /\ q \in PartialType
  /\ \A e \in Device \ {d} : q[e] = partial[e]
  /\ \A g \in File \ {f} : q[d][g] = partial[d][g]
  /\ q[d][f][v] = p

LEMMA PartialChanged ==
  ASSUME TransferInv, NEW q, NEW d, NEW f, NEW v, NEW p, OneChanges(q, d, f, v, p)
  PROVE  OthersStay(q, d, f, v, p)
<1> DEFINE Q == Partial \cup {NoPartial}
           P == [1..MaxVersion -> Q]
<1>1. partial \in [Device -> [File -> P]] /\ p \in Q /\ d \in Device /\ f \in File /\ v \in 1..MaxVersion
  BY DEF TransferInv, PartialType, OneChanges
<1> HIDE DEF Q
<1>2. partial[d][f] \in P
  BY <1>1
<1>3. [partial[d][f] EXCEPT ![v] = p] \in P /\ [partial[d][f] EXCEPT ![v] = p][v] = p
  BY <1>1, <1>2
<1>4. q = [partial EXCEPT ![d] = [partial[d] EXCEPT ![f] = [partial[d][f] EXCEPT ![v] = p]]]
  BY <1>1 DEF OneChanges
<1> HIDE DEF P
<1>5. q \in [Device -> [File -> P]]
  BY <1>1, <1>3, <1>4
<1>6. /\ \A e \in Device \ {d} : q[e] = partial[e]
      /\ \A g \in File \ {f} : q[d][g] = partial[d][g]
      /\ q[d][f][v] = p
  BY <1>1, <1>3, <1>4
<1> QED
  BY <1>5, <1>6 DEF P, Q, PartialType, OthersStay

\* The receiver's partial file of one listed file changes to p, and the session
\* goes on with the same transfer.
LEMMA GoesOn ==
  ASSUME TransferInv, NEW x \in Session, Receiving(x), NEW s, NEW f \in Listed(x),
         NEW p \in Partial \cup {NoPartial},
         session' = [session EXCEPT ![x] = s], UNCHANGED <<disk, record, faults>>,
         partial' = [partial EXCEPT ![Receiver(x)][f][Wanted(x, f)] = p],
         s \in SessionType, s.pc = session[x].pc, s.sent = session[x].sent,
         s.remote = session[x].remote, s.downloads = session[x].downloads,
         s.writing => s.left # {},
         Held(s, Listed(x), Versions(x), partial'[Receiver(x)])
  PROVE  TransferInv'
<1> DEFINE d == Receiver(x)
           v == Wanted(x, f)
<1>1. /\ d \in Device /\ f \in File /\ v \in 1..MaxVersion
      /\ At(session[x], x, d) /\ Fits(session[x], x, record, partial)
  BY ReceiverFacts DEF TransferInv
<1> HIDE DEF d, v
<1>2. partial' \in PartialType /\ \A e \in Device \ {d} : partial'[e] = partial[e]
  <2>1. OneChanges(partial', d, f, v, p)
    BY <1>1 DEF d, v, OneChanges
  <2>2. OthersStay(partial', d, f, v, p)
    BY <2>1, PartialChanged
  <2> QED
    BY <2>2 DEF OthersStay
<1>3. /\ s.pc = "uploading" => d = Server[x] /\ Listed(x) = uploads(s) /\ Versions(x) = s.sent
      /\ s.pc = "downloading" => d = Client[x] /\ Listed(x) = s.downloads /\ Versions(x) = s.remote
      /\ s.pc \in {"uploading", "downloading"}
  BY DEF d, Receiver, Listed, Versions, uploads, Receiving
<1>4. Held(s, Listed(x), Versions(x), partial'[d])
  BY DEF d
<1>5. Fits(s, x, record', partial')
  BY <1>1, <1>3, <1>4 DEF Fits
<1>6. \A e \in Device : At(s, x, e) => At(session[x], x, e)
  BY DEF At
<1>7. Moves(x, s)
  BY <1>1, <1>2, <1>5, <1>6 DEF Moves, RecordsStay
<1> QED
  BY <1>2, <1>7, QuietMove DEF TransferInv

\* A receiving session ends; its receiver's partial files may have changed.
LEMMA Ends ==
  ASSUME TransferInv, NEW x \in Session, NEW d \in Device, At(session[x], x, d),
         session' = [session EXCEPT ![x] = Idle], UNCHANGED <<disk, record>>,
         faults' \in 0..MaxFaults, partial' \in PartialType,
         \A e \in Device \ {d} : partial'[e] = partial[e]
  PROVE  TransferInv'
<1>1. Fits(Idle, x, record', partial') /\ \A e \in Device : ~At(Idle, x, e)
  BY IdleFits
<1>2. RecordsStay
  BY DEF RecordsStay
<1>3. \A e \in Device : partial'[e] = partial[e] \/ At(session[x], x, e)
  OBVIOUS
<1>4. Moves(x, Idle)
  BY <1>1, <1>2, <1>3 DEF Moves
<1> QED
  BY <1>4, QuietMove

\* The file that comes next, and its partial file.
LEMMA CurrentFacts ==
  ASSUME TransferInv, NEW x \in Session, Receiving(x), NEW f, Current(x, f)
  PROVE  /\ f \in Listed(x) /\ f \in File /\ f \in session[x].left
         /\ \A g \in session[x].left : (\A h \in session[x].left : g <= h) => g = f
         /\ partial[Receiver(x)][f][Wanted(x, f)] \in Partial \cup {NoPartial}
         /\ session[x].offset[f] \in 0..Size
         /\ session[x].writing =>
              /\ partial[Receiver(x)][f][Wanted(x, f)] # NoPartial
              /\ Len(partial[Receiver(x)][f][Wanted(x, f)]) = session[x].offset[f]
<1>1. session[x] \in SessionType
  BY DEF TransferInv
<1>2. Held(session[x], Listed(x), Versions(x), partial[Receiver(x)]) /\ Listed(x) \subseteq File
  BY ReceiverFacts
<1>3. f \in session[x].left /\ f \in Listed(x) /\ f \in File /\ session[x].left \subseteq Nat
  BY <1>2, FileAssumption DEF Current, Held
<1>4. \A g \in session[x].left : (\A h \in session[x].left : g <= h) => g = f
  BY <1>3, SMTT(30) DEF Current
<1>5. Receiver(x) \in Device /\ Wanted(x, f) = Versions(x)[f] /\ Wanted(x, f) \in 1..MaxVersion
  BY <1>3, ReceiverFacts
<1>6. partial[Receiver(x)][f][Wanted(x, f)] \in Partial \cup {NoPartial}
  BY <1>3, <1>5, PartialOf
<1>7. session[x].offset[f] \in 0..Size
  BY <1>1, <1>3 DEF SessionType
<1>8. session[x].writing =>
        /\ partial[Receiver(x)][f][Wanted(x, f)] # NoPartial
        /\ Len(partial[Receiver(x)][f][Wanted(x, f)]) = session[x].offset[f]
  BY <1>2, <1>3, <1>5, SMTT(30) DEF Held, Current
<1> QED
  BY <1>3, <1>4, <1>6, <1>7, <1>8

LEMMA PrepareKeeps ==
  ASSUME TransferInv, NEW x \in Session, NEW f, Prepare(x, f)
  PROVE  TransferInv'
<1> DEFINE o == session[x]
           d == Receiver(x)
           v == Wanted(x, f)
           p == ensure_partial_file(partial[d][f][v], o.offset[f])
           s == [o EXCEPT !.writing = TRUE]
<1>1. Receiving(x) /\ Current(x, f) /\ o \in SessionType /\ UNCHANGED <<disk, record, faults>>
  BY DEF TransferInv, Prepare
<1>2. /\ d \in Device /\ f \in File /\ f \in Listed(x) /\ f \in o.left /\ Listed(x) \subseteq File
      /\ v \in 1..MaxVersion /\ v = Versions(x)[f] /\ Held(o, Listed(x), Versions(x), partial[d])
  BY <1>1, CurrentFacts, ReceiverFacts
<1>3. p \in Partial \cup {NoPartial} /\ p # NoPartial /\ Len(p) = o.offset[f]
  BY <1>1, CurrentFacts, EnsuredPartial
<1>4. session' = [session EXCEPT ![x] = s]
  BY <1>1 DEF TransferInv, Prepare
<1>5. /\ s \in SessionType /\ s.pc = o.pc /\ s.sent = o.sent /\ s.remote = o.remote
      /\ s.downloads = o.downloads /\ s.left = o.left /\ s.offset = o.offset
  BY <1>1 DEF SessionType
<1>6. partial' = [partial EXCEPT ![d][f][v] = p]
  BY <1>1, <1>2 DEF TransferInv, PartialType, Prepare
<1> HIDE DEF s, p, d, v
<1>7. OthersStay(partial', d, f, v, p)
  <2>1. OneChanges(partial', d, f, v, p)
    BY <1>2, <1>3, <1>6 DEF OneChanges
  <2> QED
    BY <2>1, PartialChanged
<1>8. \A g \in o.left : (\A h \in o.left : g <= h) => g = f
  BY <1>1, CurrentFacts
<1>9. Held(s, Listed(x), Versions(x), partial'[d])
  BY <1>2, <1>3, <1>5, <1>7, <1>8 DEF Held, OthersStay
<1> QED
  BY <1>1, <1>2, <1>3, <1>4, <1>5, <1>6, <1>9, GoesOn DEF d, v

\* A disk holds the chunks of every file that has a record.
LEMMA ChunkSent ==
  ASSUME TransferInv, NEW d \in Device, NEW f \in File, record[d][f] > 0, NEW i \in 0..(Size - 1)
  PROVE  disk[d][f][i + 1] \in Chunk
<1>1. record[d][f] \in 1..MaxVersion
  BY SizeAssumption, SMTT(30) DEF TransferInv
<1>2. disk[d][f] \in Contents(Size)
  BY <1>1, WholeContent, SMTT(30) DEF TransferInv, DisksWhole, InstalledWhole
<1> QED
  BY <1>2, SizeAssumption, SMTT(30) DEF Contents

LEMMA TransmitKeeps ==
  ASSUME TransferInv, NEW x \in Session, NEW f, Transmit(x, f)
  PROVE  TransferInv'
<1> DEFINE o == session[x]
           d == Receiver(x)
           v == Wanted(x, f)
           n == o.offset[f]
           p == write_all(partial[d][f][v], n, disk[Sender(x)][f][n + 1])
           offsets == [o.offset EXCEPT ![f] = n + 1]
           s == [o EXCEPT !.offset = offsets]
<1>1. /\ Receiving(x) /\ Current(x, f) /\ o \in SessionType /\ o.writing /\ n < Size
      /\ UNCHANGED <<disk, record, faults>>
  BY DEF TransferInv, Transmit
<1>2. /\ d \in Device /\ f \in File /\ f \in Listed(x) /\ f \in o.left /\ Listed(x) \subseteq File
      /\ v \in 1..MaxVersion /\ v = Versions(x)[f] /\ Held(o, Listed(x), Versions(x), partial[d])
      /\ Sender(x) \in Device /\ record[Sender(x)][f] > 0
  BY <1>1, CurrentFacts, ReceiverFacts
<1>3. /\ partial[d][f][v] \in Partial \cup {NoPartial} /\ partial[d][f][v] # NoPartial
      /\ Len(partial[d][f][v]) = n /\ n \in 0..Size
  BY <1>1, CurrentFacts
<1>4. disk[Sender(x)][f][n + 1] \in Chunk
  BY <1>1, <1>2, <1>3, ChunkSent, SizeAssumption, SMTT(30)
<1>5. p \in Partial \cup {NoPartial} /\ p # NoPartial /\ Len(p) = n + 1
  BY <1>1, <1>3, <1>4, WrittenPartial
<1>6. session' = [session EXCEPT ![x] = s]
  BY <1>1, <1>2 DEF TransferInv, SessionType, Transmit
<1>7. offsets \in [File -> 0..Size] /\ offsets[f] = n + 1
  BY <1>1, <1>2, <1>3, SizeAssumption, SMTT(30) DEF SessionType
<1> HIDE DEF offsets
<1>8. /\ s \in SessionType /\ s.pc = o.pc /\ s.sent = o.sent /\ s.remote = o.remote
      /\ s.downloads = o.downloads /\ s.left = o.left /\ s.offset[f] = n + 1
  BY <1>1, <1>7 DEF SessionType
<1>9. partial' = [partial EXCEPT ![d][f][v] = p]
  BY <1>1, <1>2 DEF TransferInv, PartialType, Transmit
<1> HIDE DEF s, p, d, v, n
<1>10. OthersStay(partial', d, f, v, p)
  <2>1. OneChanges(partial', d, f, v, p)
    BY <1>2, <1>5, <1>9 DEF OneChanges
  <2> QED
    BY <2>1, PartialChanged
<1>11. \A g \in o.left : (\A h \in o.left : g <= h) => g = f
  BY <1>1, CurrentFacts
<1>12. Held(s, Listed(x), Versions(x), partial'[d])
  BY <1>2, <1>5, <1>8, <1>10, <1>11 DEF Held, OthersStay
<1> QED
  BY <1>1, <1>2, <1>5, <1>6, <1>8, <1>9, <1>12, GoesOn DEF d, v

LEMMA RejectedPartial ==
  ASSUME NEW p \in Partial \cup {NoPartial}
  PROVE  Rejected(p) \in Partial \cup {NoPartial}
BY DEF Rejected

LEMMA VerifyKeeps ==
  ASSUME TransferInv, NEW x \in Session, NEW f, Verify(x, f)
  PROVE  TransferInv'
<1> DEFINE o == session[x]
           d == Receiver(x)
           v == Wanted(x, f)
           p == partial[d][f][v]
           s == [o EXCEPT !.left = o.left \ {f}, !.writing = FALSE]
<1>1. Receiving(x) /\ Current(x, f) /\ o \in SessionType /\ UNCHANGED <<disk, record, faults>>
  BY DEF TransferInv, Verify
<1>2. /\ d \in Device /\ f \in File /\ f \in Listed(x) /\ f \in o.left /\ Listed(x) \subseteq File
      /\ v \in 1..MaxVersion /\ v = Versions(x)[f] /\ Held(o, Listed(x), Versions(x), partial[d])
      /\ At(o, x, d) /\ p \in Partial \cup {NoPartial}
  BY <1>1, CurrentFacts, ReceiverFacts
<1>3. CASE verify_partial(p, v)
  <2>1. p = Whole(v) /\ partial' = partial
    BY <1>3 DEF verify_partial, Verify
  <2>2. session' = [session EXCEPT ![x] = s]
    <3>1. session' = [session EXCEPT ![x] = IF verify_partial(p, v) THEN s ELSE Idle]
      BY DEF Verify
    <3> QED
      BY <1>3, <3>1
  <2>3. /\ s \in SessionType /\ s.pc = o.pc /\ s.sent = o.sent /\ s.remote = o.remote
        /\ s.downloads = o.downloads /\ s.left = o.left \ {f} /\ ~s.writing
    BY <1>1 DEF SessionType
  <2>4. partial' = [partial EXCEPT ![d][f][v] = p]
    BY <1>2, <2>1, SMTT(30) DEF TransferInv, PartialType
  <2> HIDE DEF s
  <2>5. Held(s, Listed(x), Versions(x), partial[d])
    BY <1>2, <2>1, <2>3 DEF Held
  <2>6. Held(s, Listed(x), Versions(x), partial'[d])
    BY <2>1, <2>5
  <2> HIDE DEF p
  <2> QED
    BY <1>1, <1>2, <2>2, <2>3, <2>4, <2>6, GoesOn
<1>4. CASE ~verify_partial(p, v)
  <2> DEFINE q == Rejected(p)
  <2>1. session' = [session EXCEPT ![x] = Idle]
    BY <1>4 DEF Verify
  <2>2. q \in Partial \cup {NoPartial}
    BY <1>2, RejectedPartial
  <2>3. partial' = [partial EXCEPT ![d][f][v] = q]
    BY <1>4 DEF Verify
  <2> HIDE DEF p, d, v, q
  <2>4. OneChanges(partial', d, f, v, q)
    BY <1>2, <2>2, <2>3 DEF OneChanges
  <2>5. OthersStay(partial', d, f, v, q)
    BY <2>4, PartialChanged
  <2>6. partial' \in PartialType /\ \A e \in Device \ {d} : partial'[e] = partial[e]
    BY <2>5 DEF OthersStay
  <2>7. faults' \in 0..MaxFaults
    BY <1>1 DEF TransferInv
  <2> QED
    BY <1>1, <1>2, <2>1, <2>6, <2>7, Ends
<1> QED
  BY <1>3, <1>4

-----------------------------------------------------------------------------
(* The apply                                                               *)

\* The partial files of some files listed are gone.
Removes(q, x, d, S) ==
  /\ d \in Device /\ S \subseteq Listed(x)
  /\ q = [partial EXCEPT ![d] = [f \in File |->
           IF f \in S THEN [partial[d][f] EXCEPT ![Wanted(x, f)] = NoPartial] ELSE partial[d][f]]]

LEMMA PartialsRemoved ==
  ASSUME TransferInv, NEW x \in Session, NEW q, NEW d, NEW S, Removes(q, x, d, S)
  PROVE  q \in PartialType /\ \A e \in Device \ {d} : q[e] = partial[e]
<1> DEFINE Q == Partial \cup {NoPartial}
           P == [1..MaxVersion -> Q]
           new == [f \in File |->
             IF f \in S THEN [partial[d][f] EXCEPT ![Wanted(x, f)] = NoPartial] ELSE partial[d][f]]
<1>1. partial \in [Device -> [File -> P]] /\ NoPartial \in Q /\ d \in Device
  BY DEF TransferInv, PartialType, Removes
<1> HIDE DEF Q
<1>2. ASSUME NEW f \in File
      PROVE  new[f] \in P
  <2>1. partial[d][f] \in P
    BY <1>1
  <2>2. [partial[d][f] EXCEPT ![Wanted(x, f)] = NoPartial] \in P
    BY <1>1, <2>1
  <2> QED
    BY <2>1, <2>2
<1>3. new \in [File -> P]
  BY <1>2
<1>4. q = [partial EXCEPT ![d] = new]
  BY DEF Removes
<1> HIDE DEF P, new
<1>5. q \in [Device -> [File -> P]] /\ \A e \in Device \ {d} : q[e] = partial[e]
  BY <1>1, <1>3, <1>4
<1> QED
  BY <1>5 DEF P, Q, PartialType

\* What a finished transfer puts into a directory is whole, whichever files it moves.
LEMMA FilesMoved ==
  ASSUME TransferInv, NEW x \in Session, Receiving(x), session[x].left = {}, NEW d,
         d = Receiver(x), NEW S \in SUBSET Wins(x, d), write_local_staged_file(x, d, S)
  PROVE  /\ disk' \in [Device -> [File -> {Missing} \cup Contents(Size)]]
         /\ S \subseteq Listed(x) /\ S \subseteq File
         /\ \A f \in S : /\ Wanted(x, f) \in 1..MaxVersion /\ Wanted(x, f) > record[d][f]
                         /\ disk'[d][f] = Whole(Wanted(x, f))
         /\ \A f \in File \ S : disk'[d][f] = disk[d][f]
         /\ \A e \in Device \ {d} : disk'[e] = disk[e]
<1> DEFINE new == [f \in File |-> IF f \in S THEN partial[d][f][Wanted(x, f)] ELSE disk[d][f]]
<1>1. /\ d \in Device /\ Listed(x) \subseteq File
      /\ \A f \in Listed(x) :
           Wanted(x, f) \in 1..MaxVersion /\ partial[d][f][Wanted(x, f)] = Whole(Wanted(x, f))
  BY ReceiverFacts, SMTT(30) DEF Held
<1>2. disk \in [Device -> [File -> {Missing} \cup Contents(Size)]]
  BY DEF TransferInv
<1>3. S \subseteq Listed(x) /\ S \subseteq File /\ \A f \in S : Wanted(x, f) > record[d][f]
  BY <1>1 DEF Wins
<1>4. \A f \in S : new[f] = Whole(Wanted(x, f)) /\ new[f] \in Contents(Size)
  BY <1>1, <1>3, WholeContent
<1>5. \A f \in File \ S : new[f] = disk[d][f]
  OBVIOUS
<1>6. new \in [File -> {Missing} \cup Contents(Size)]
  <2>1. ASSUME NEW f \in File
        PROVE  new[f] \in {Missing} \cup Contents(Size)
    BY <1>1, <1>2, <1>4, <1>5
  <2> QED
    BY <2>1
<1>7. disk' = [disk EXCEPT ![d] = new]
  BY DEF write_local_staged_file
<1> HIDE DEF new
<1>8. /\ disk' \in [Device -> [File -> {Missing} \cup Contents(Size)]] /\ disk'[d] = new
      /\ \A e \in Device \ {d} : disk'[e] = disk[e]
  BY <1>1, <1>2, <1>6, <1>7
<1> QED
  BY <1>1, <1>3, <1>4, <1>5, <1>8

\* Device d has taken the files of S, whose records are saved or not.
Takes(x, d, S) ==
  /\ d \in Device /\ S \subseteq File
  /\ \A f \in S : /\ Wanted(x, f) \in 1..MaxVersion /\ Wanted(x, f) > record[d][f]
                  /\ disk'[d][f] = Whole(Wanted(x, f))
                  /\ record'[d][f] \in {record[d][f], Wanted(x, f)}
  /\ \A f \in File \ S : disk'[d][f] = disk[d][f] /\ record'[d][f] = record[d][f]
  /\ \A e \in Device \ {d} : disk'[e] = disk[e] /\ record'[e] = record[e]

\* Files stay whole then.
LEMMA StaysWhole ==
  ASSUME TransferInv, NEW x, NEW d, NEW S, Takes(x, d, S)
  PROVE  DisksWhole' /\ RecordsStay
<1>1. record \in [Device -> [File -> 0..MaxVersion]] /\ InstalledWhole
  BY DEF TransferInv, DisksWhole
<1>2. ASSUME NEW e \in Device, NEW f \in File
      PROVE  /\ \/ disk'[e][f] = Missing /\ record'[e][f] = 0
                \/ \E v \in 1..MaxVersion : disk'[e][f] = Whole(v) /\ record'[e][f] <= v
             /\ record[e][f] > 0 => record'[e][f] > 0
             /\ disk[e][f] # Missing => disk'[e][f] # Missing
  <2>1. CASE e = d /\ f \in S
    <3>1. /\ Wanted(x, f) \in 1..MaxVersion /\ disk'[e][f] = Whole(Wanted(x, f))
          /\ record'[e][f] <= Wanted(x, f)
          /\ record[e][f] > 0 => record'[e][f] > 0
      BY <1>1, <2>1, SizeAssumption, SMTT(30) DEF Takes
    <3>2. disk'[e][f] # Missing
      BY <3>1, WholeContent
    <3> QED
      BY <3>1, <3>2
  <2>2. CASE ~(e = d /\ f \in S)
    <3>1. record'[e][f] = record[e][f] /\ disk'[e][f] = disk[e][f]
      BY <2>2 DEF Takes
    <3> QED
      BY <1>1, <3>1 DEF InstalledWhole
  <2> QED
    BY <2>1, <2>2
<1>3. \A f \in File : disk'[Editor[f]][f] # Missing
  BY <1>2, FileAssumption DEF TransferInv, DisksWhole
<1> QED
  BY <1>2, <1>3 DEF DisksWhole, InstalledWhole, RecordsStay

\* What an apply puts into a directory is whole, and it takes no record back.
LEMMA Installed ==
  ASSUME TransferInv, NEW x \in Session, Receiving(x), session[x].left = {},
         Install(x, Receiver(x))
  PROVE  /\ disk' \in [Device -> [File -> {Missing} \cup Contents(Size)]]
         /\ record' \in [Device -> [File -> 0..MaxVersion]]
         /\ DisksWhole' /\ RecordsStay
         /\ partial' \in PartialType
         /\ \A e \in Device \ {Receiver(x)} : partial'[e] = partial[e]
<1> DEFINE d == Receiver(x)
           S == Wins(x, d)
           new == [f \in File |-> IF f \in S THEN Wanted(x, f) ELSE record[d][f]]
<1>1. d \in Device /\ record \in [Device -> [File -> 0..MaxVersion]]
  BY ReceiverFacts DEF TransferInv
<1>2. /\ write_local_staged_file(x, d, S) /\ record' = [record EXCEPT ![d] = new]
      /\ RemovePartials(x, d, Listed(x))
  BY DEF Install
<1> HIDE DEF S
<1>3. S \in SUBSET Wins(x, d)
  BY DEF S
<1>4. /\ disk' \in [Device -> [File -> {Missing} \cup Contents(Size)]]
      /\ S \subseteq Listed(x) /\ S \subseteq File
      /\ \A f \in S : /\ Wanted(x, f) \in 1..MaxVersion /\ Wanted(x, f) > record[d][f]
                      /\ disk'[d][f] = Whole(Wanted(x, f))
      /\ \A f \in File \ S : disk'[d][f] = disk[d][f]
      /\ \A e \in Device \ {d} : disk'[e] = disk[e]
  BY <1>2, <1>3, FilesMoved
<1>5. new \in [File -> 0..MaxVersion]
  BY <1>1, <1>4, SizeAssumption, SMTT(30)
<1>6. /\ \A f \in S : new[f] = Wanted(x, f)
      /\ \A f \in File \ S : new[f] = record[d][f]
  BY <1>4
<1> HIDE DEF new
<1>7. /\ record' \in [Device -> [File -> 0..MaxVersion]] /\ record'[d] = new
      /\ \A e \in Device \ {d} : record'[e] = record[e]
  BY <1>1, <1>2, <1>5
<1> HIDE DEF d
<1>8. DisksWhole' /\ RecordsStay
  <2>1. Takes(x, d, S)
    BY <1>1, <1>4, <1>6, <1>7 DEF Takes
  <2> QED
    BY <2>1, StaysWhole
<1>9. Removes(partial', x, d, Listed(x))
  BY <1>1, <1>2 DEF RemovePartials, Removes
<1>10. partial' \in PartialType /\ \A e \in Device \ {d} : partial'[e] = partial[e]
  BY <1>9, PartialsRemoved
<1> QED
  BY <1>4, <1>7, <1>8, <1>10 DEF d

\* The session goes on to s, in which it holds no lock.
LEMMA AppliedKeeps ==
  ASSUME TransferInv, NEW x \in Session, Receiving(x), session[x].left = {},
         Install(x, Receiver(x)), UNCHANGED faults, NEW s,
         session' = [session EXCEPT ![x] = s], Fits(s, x, record', partial'),
         s.pc \notin {"uploading", "downloading"}
  PROVE  TransferInv'
<1>1. /\ disk' \in [Device -> [File -> {Missing} \cup Contents(Size)]]
      /\ record' \in [Device -> [File -> 0..MaxVersion]]
      /\ DisksWhole' /\ RecordsStay
      /\ partial' \in PartialType
      /\ \A e \in Device \ {Receiver(x)} : partial'[e] = partial[e]
  BY Installed
<1>2. At(session[x], x, Receiver(x)) /\ \A e \in Device : ~At(s, x, e)
  BY ReceiverFacts DEF At
<1>3. Moves(x, s)
  BY <1>1, <1>2 DEF Moves
<1>4. /\ session' \in [Session -> SessionType]
      /\ OneReceiver'
      /\ \A y \in Session : Fits(session'[y], y, record', partial')
  BY <1>3, SessionsMove
<1> QED
  BY <1>1, <1>4 DEF TransferInv

LEMMA ClientApplyKeeps ==
  ASSUME TransferInv, NEW x \in Session, ClientApply(x)
  PROVE  TransferInv'
<1>1. Receiving(x) /\ session[x].left = {} /\ Receiver(x) = Client[x]
  BY DEF ClientApply, Receiving, Receiver
<1>2. /\ Install(x, Receiver(x)) /\ session' = [session EXCEPT ![x] = Idle] /\ UNCHANGED faults
  BY <1>1 DEF ClientApply
<1>3. Fits(Idle, x, record', partial') /\ Idle.pc = "idle"
  BY IdleFits, IdleSession
<1> QED
  BY <1>1, <1>2, <1>3, AppliedKeeps

LEMMA ServerApplyKeeps ==
  ASSUME TransferInv, NEW x \in Session, ServerApply(x)
  PROVE  TransferInv'
<1> DEFINE o == session[x]
           offsets == [f \in File |->
             IF f \in o.downloads /\ record'[Server[x]][f] = o.remote[f] THEN o.offset[f] ELSE 0]
           s == [o EXCEPT !.pc = "responding", !.remote = record'[Server[x]], !.offset = offsets]
<1>1. /\ Receiving(x) /\ o.pc = "uploading" /\ o.left = {} /\ Receiver(x) = Server[x]
      /\ o \in SessionType /\ Fits(o, x, record, partial)
  BY DEF ServerApply, Receiving, Receiver, TransferInv
<1>2. Install(x, Receiver(x)) /\ UNCHANGED faults
  BY <1>1 DEF ServerApply
<1>3. record' \in [Device -> [File -> 0..MaxVersion]] /\ RecordsStay
  BY <1>1, <1>2, Installed
<1>4. Server[x] \in Device /\ Client[x] \in Device /\ record'[Server[x]] \in [File -> 0..MaxVersion]
  BY <1>3, SessionAssumption
<1>5. offsets \in [File -> 0..Size]
  BY <1>1, SizeAssumption, SMTT(30) DEF SessionType
<1>6. session' = [session EXCEPT ![x] = s]
  BY <1>1 DEF TransferInv, ServerApply
<1> HIDE DEF offsets
<1>7. /\ s \in SessionType /\ s.pc = "responding" /\ s.sent = o.sent /\ s.writing = o.writing
      /\ s.remote = record'[Server[x]] /\ s.downloads = o.downloads
  BY <1>1, <1>4, <1>5 DEF SessionType
<1> HIDE DEF s
<1>8. ~s.writing /\ \A f \in File : s.sent[f] > 0 => record'[Client[x]][f] > 0
  BY <1>1, <1>3, <1>4, <1>7 DEF Fits, RecordsStay
<1>9. \A f \in s.downloads : s.remote[f] > 0
  BY <1>1, <1>3, <1>4, <1>7 DEF Fits, RecordsStay, SessionType
<1>10. Fits(s, x, record', partial')
  BY <1>7, <1>8, <1>9 DEF Fits
<1> QED
  BY <1>1, <1>2, <1>6, <1>7, <1>10, AppliedKeeps

-----------------------------------------------------------------------------
(* Failures, the user, and the theorems                                    *)

LEMMA FaultCounted ==
  ASSUME TransferInv, faults < MaxFaults, faults' = faults + 1
  PROVE  faults' \in 0..MaxFaults
BY SizeAssumption, SMTT(30) DEF TransferInv

LEMMA FailKeeps ==
  ASSUME TransferInv, NEW x \in Session, Fail(x)
  PROVE  TransferInv'
<1>1. session' = [session EXCEPT ![x] = Idle] /\ UNCHANGED <<disk, record, partial>>
  BY DEF Fail
<1>2. faults' \in 0..MaxFaults
  BY FaultCounted DEF Fail
<1>3. Fits(Idle, x, record', partial') /\ \A e \in Device : ~At(Idle, x, e)
  BY IdleFits
<1>4. Moves(x, Idle)
  BY <1>1, <1>3 DEF Moves, RecordsStay
<1>5. partial' \in PartialType
  BY <1>1 DEF TransferInv
<1> QED
  BY <1>1, <1>2, <1>4, <1>5, QuietMove

LEMMA ApplyFailsKeeps ==
  ASSUME TransferInv, NEW x \in Session, NEW d \in Device, ApplyFails(x, d)
  PROVE  TransferInv'
<1>1. /\ At(session[x], x, d) /\ session[x].left = {} /\ session' = [session EXCEPT ![x] = Idle]
      /\ record' = record
  BY DEF ApplyFails, Receives, At
<1>2. Receiving(x) /\ d = Receiver(x)
  BY <1>1, SessionAssumption DEF At, Receiving, Receiver
<1>3. faults' \in 0..MaxFaults
  BY FaultCounted DEF ApplyFails
<1>4. PICK S \in SUBSET Wins(x, d) : write_local_staged_file(x, d, S) /\ RemovePartials(x, d, S)
  BY DEF ApplyFails
<1>5. /\ disk' \in [Device -> [File -> {Missing} \cup Contents(Size)]]
      /\ S \subseteq Listed(x) /\ S \subseteq File
      /\ \A f \in S : /\ Wanted(x, f) \in 1..MaxVersion /\ Wanted(x, f) > record[d][f]
                      /\ disk'[d][f] = Whole(Wanted(x, f))
      /\ \A f \in File \ S : disk'[d][f] = disk[d][f]
      /\ \A e \in Device \ {d} : disk'[e] = disk[e]
  BY <1>1, <1>2, <1>4, FilesMoved, SMTT(30)
<1>6. DisksWhole' /\ RecordsStay
  <2>1. Takes(x, d, S)
    BY <1>1, <1>5 DEF Takes
  <2> QED
    BY <2>1, StaysWhole
<1>7. Removes(partial', x, d, S)
  BY <1>4, <1>5 DEF RemovePartials, Removes
<1>8. partial' \in PartialType /\ \A e \in Device \ {d} : partial'[e] = partial[e]
  BY <1>7, PartialsRemoved
<1>9. Fits(Idle, x, record', partial') /\ \A e \in Device : ~At(Idle, x, e)
  BY IdleFits
<1>10. Moves(x, Idle)
  BY <1>1, <1>6, <1>8, <1>9 DEF Moves
<1>11. /\ session' \in [Session -> SessionType]
       /\ OneReceiver'
       /\ \A y \in Session : Fits(session'[y], y, record', partial')
  BY <1>10, SessionsMove
<1> QED
  BY <1>1, <1>3, <1>5, <1>6, <1>8, <1>11 DEF TransferInv

LEMMA CrashKeeps ==
  ASSUME TransferInv, NEW d \in Device, Crash(d)
  PROVE  TransferInv'
<1>1. /\ session' = [x \in Session |-> IF d \in {Client[x], Server[x]} THEN Idle ELSE session[x]]
      /\ UNCHANGED <<disk, record>>
  BY DEF Crash
<1>2. faults' \in 0..MaxFaults
  BY FaultCounted DEF Crash
<1>3. partial' \in PartialType /\ \A e \in Device \ {d} : partial'[e] = partial[e]
  <2>1. CASE UNCHANGED partial
    BY <2>1 DEF TransferInv
  <2>2. ASSUME NEW x \in Session, NEW f \in File, NEW n \in 0..session[x].offset[f],
               NEW m \in 0..n, Receives(x, d), Current(x, f),
               partial' = [partial EXCEPT ![d][f][Wanted(x, f)] =
                             ensure_partial_file(ensure_partial_file(partial[d][f][Wanted(x, f)], m), n)]
        PROVE  partial' \in PartialType /\ \A e \in Device \ {d} : partial'[e] = partial[e]
    <3> DEFINE v == Wanted(x, f)
               q == ensure_partial_file(partial[d][f][v], m)
               p == ensure_partial_file(q, n)
    <3>1. Receiving(x) /\ d = Receiver(x)
      BY <2>2, SessionAssumption DEF Receives, Receiving, Receiver
    <3>2. /\ f \in Listed(x) /\ partial[d][f][v] \in Partial \cup {NoPartial}
          /\ session[x].offset[f] \in 0..Size
      BY <2>2, <3>1, CurrentFacts
    <3>3. v \in 1..MaxVersion
      BY <3>1, <3>2, ReceiverFacts
    <3>4. n \in 0..Size /\ m \in 0..Size
      BY <3>2, SizeAssumption, SMTT(30)
    <3>5. p \in Partial \cup {NoPartial}
      <4>1. q \in Partial \cup {NoPartial}
        BY <3>2, <3>4, EnsuredPartial
      <4> HIDE DEF q
      <4> QED
        BY <3>4, <4>1, EnsuredPartial
    <3>6. partial' = [partial EXCEPT ![d][f][v] = p]
      BY <2>2
    <3> HIDE DEF p, q, v
    <3>7. OneChanges(partial', d, f, v, p)
      BY <3>3, <3>5, <3>6 DEF OneChanges
    <3>8. OthersStay(partial', d, f, v, p)
      BY <3>7, PartialChanged
    <3> QED
      BY <3>8 DEF OthersStay
  <2> QED
    BY <2>1, <2>2 DEF Crash
<1>4. session' \in [Session -> SessionType]
  BY <1>1, IdleSession DEF TransferInv
<1>5. ASSUME NEW y \in Session
      PROVE  /\ session'[y] = Idle \/ (session'[y] = session[y] /\ ~At(session[y], y, d))
             /\ Fits(session'[y], y, record', partial')
  <2>1. CASE d \in {Client[y], Server[y]}
    BY <1>1, <2>1, IdleFits
  <2>2. CASE d \notin {Client[y], Server[y]}
    <3>1. session'[y] = session[y] /\ ~At(session[y], y, d) /\ RecordsStay
      BY <1>1, <2>2 DEF At, RecordsStay
    <3>2. Fits(session[y], y, record, partial)
      BY DEF TransferInv
    <3>3. \A e \in Device : At(session[y], y, e) => partial'[e] = partial[e]
      BY <1>3, <3>1
    <3> QED
      BY <3>1, <3>2, <3>3, FitsStill
  <2> QED
    BY <2>1, <2>2
<1>6. OneReceiver'
  <2>1. \A y \in Session, e \in Device : At(session'[y], y, e) => At(session[y], y, e)
    BY <1>5, IdleFits
  <2>2. OneReceiver
    BY DEF TransferInv
  <2> QED
    BY <2>1, <2>2 DEF OneReceiver, At
<1>7. DisksWhole'
  BY <1>1 DEF TransferInv, DisksWhole, InstalledWhole
<1> QED
  BY <1>1, <1>2, <1>3, <1>4, <1>5, <1>6, <1>7 DEF TransferInv

\* The editor's disk holds a whole version.
LEMMA EditorDisk ==
  ASSUME TransferInv, NEW f \in File
  PROVE  /\ Editor[f] \in Device /\ disk[Editor[f]][f][1] \in 1..MaxVersion
         /\ disk[Editor[f]][f] = Whole(disk[Editor[f]][f][1])
<1>1. Editor[f] \in Device
  BY FileAssumption
<1>2. PICK v \in 1..MaxVersion : disk[Editor[f]][f] = Whole(v)
  BY <1>1 DEF TransferInv, DisksWhole, InstalledWhole
<1> QED
  BY <1>1, <1>2, WholeContent

\* A step that only changes disks and records.
LEMMA DiskStep ==
  ASSUME TransferInv, UNCHANGED <<partial, session, faults>>,
         disk' \in [Device -> [File -> {Missing} \cup Contents(Size)]],
         record' \in [Device -> [File -> 0..MaxVersion]],
         RecordsStay, DisksWhole'
  PROVE  TransferInv'
<1>1. ASSUME NEW y \in Session
      PROVE  Fits(session'[y], y, record', partial')
  <2>1. Fits(session[y], y, record, partial)
    BY DEF TransferInv
  <2>2. Fits(session[y], y, record', partial')
    BY <2>1, FitsStill
  <2> QED
    BY <2>2
<1>2. OneReceiver'
  BY DEF TransferInv, OneReceiver, At
<1> QED
  BY <1>1, <1>2 DEF TransferInv

LEMMA EditKeeps ==
  ASSUME TransferInv, NEW f \in File, Edit(f)
  PROVE  TransferInv'
<1> DEFINE d == Editor[f]
           w == disk[d][f][1] + 1
<1>1. /\ d \in Device /\ disk[d][f][1] \in 1..MaxVersion /\ disk[d][f] = Whole(disk[d][f][1])
      /\ disk \in [Device -> [File -> {Missing} \cup Contents(Size)]]
      /\ record \in [Device -> [File -> 0..MaxVersion]]
  BY EditorDisk DEF TransferInv
<1>2. record[d][f] <= disk[d][f][1]
  <2>1. PICK v \in 1..MaxVersion : disk[d][f] = Whole(v) /\ record[d][f] <= v
    BY <1>1 DEF TransferInv, DisksWhole, InstalledWhole
  <2> QED
    BY <2>1, WholeContent
<1>3. /\ w \in 1..MaxVersion /\ disk' = [disk EXCEPT ![d][f] = Whole(w)] /\ record[d][f] <= w
      /\ UNCHANGED <<record, partial, session, faults>>
  BY <1>1, <1>2, SizeAssumption, SMTT(30) DEF Edit
<1> HIDE DEF w
<1>4. Whole(w) \in Contents(Size) /\ Whole(w) # Missing
  BY <1>3, WholeContent
<1>5. /\ disk' \in [Device -> [File -> {Missing} \cup Contents(Size)]]
      /\ disk'[d][f] = Whole(w)
      /\ \A e \in Device, g \in File : e # d \/ g # f => disk'[e][g] = disk[e][g]
  BY <1>1, <1>3, <1>4
<1>6. InstalledWhole'
  BY <1>3, <1>5, SMTT(30) DEF TransferInv, DisksWhole, InstalledWhole
<1>7. \A g \in File : disk'[Editor[g]][g] # Missing
  BY <1>4, <1>5, FileAssumption DEF TransferInv, DisksWhole
<1> QED
  BY <1>1, <1>3, <1>5, <1>6, <1>7, DiskStep DEF DisksWhole, RecordsStay

LEMMA ScanKeeps ==
  ASSUME TransferInv, NEW d \in Device, Scan(d)
  PROVE  TransferInv'
<1> DEFINE new == [f \in File |-> IF disk[d][f] = Missing THEN record[d][f] ELSE disk[d][f][1]]
<1>1. record' = [record EXCEPT ![d] = new] /\ UNCHANGED <<disk, partial, session, faults>>
  BY DEF Scan
<1>2. record \in [Device -> [File -> 0..MaxVersion]] /\ InstalledWhole
  BY DEF TransferInv, DisksWhole
<1>3. ASSUME NEW f \in File
      PROVE  \/ disk[d][f] = Missing /\ new[f] = record[d][f] /\ record[d][f] = 0
             \/ new[f] \in 1..MaxVersion /\ disk[d][f] = Whole(new[f])
  <2>1. CASE disk[d][f] = Missing
    <3>1. ~(\E v \in 1..MaxVersion : disk[d][f] = Whole(v))
      BY <2>1, WholeContent
    <3> QED
      BY <1>2, <2>1, <3>1 DEF InstalledWhole
  <2>2. CASE disk[d][f] # Missing
    <3>1. PICK v \in 1..MaxVersion : disk[d][f] = Whole(v)
      BY <1>2, <2>2 DEF InstalledWhole
    <3> QED
      BY <2>2, <3>1, WholeContent
  <2> QED
    BY <2>1, <2>2
<1>4. new \in [File -> 0..MaxVersion]
  BY <1>3, SizeAssumption, SMTT(30)
<1> HIDE DEF new
<1>5. /\ record' \in [Device -> [File -> 0..MaxVersion]] /\ record'[d] = new
      /\ \A e \in Device \ {d} : record'[e] = record[e]
  BY <1>1, <1>2, <1>4
<1>6. RecordsStay
  BY <1>3, <1>5, SizeAssumption, SMTT(30) DEF RecordsStay
<1>7. InstalledWhole'
  BY <1>1, <1>2, <1>3, <1>5, SizeAssumption, SMTT(30) DEF InstalledWhole
<1>8. DisksWhole'
  BY <1>1, <1>7 DEF TransferInv, DisksWhole
<1> QED
  BY <1>1, <1>5, <1>6, <1>8, DiskStep DEF TransferInv

LEMMA TransferInit ==
  Init => TransferInv
<1> SUFFICES ASSUME Init
             PROVE  TransferInv
  OBVIOUS
<1>1. 1 \in 1..MaxVersion /\ Whole(1) \in Contents(Size)
  BY SizeAssumption, WholeContent, SMTT(30)
<1>2. /\ disk \in [Device -> [File -> {Missing} \cup Contents(Size)]]
      /\ record \in [Device -> [File -> 0..MaxVersion]]
      /\ faults \in 0..MaxFaults
  BY <1>1, SizeAssumption, SMTT(30) DEF Init
<1>3. DisksWhole
  BY <1>1, WholeContent, FileAssumption, SMTT(30) DEF Init, DisksWhole, InstalledWhole
<1>4. partial \in PartialType
  BY DEF Init, PartialType
<1>5. session \in [Session -> SessionType]
  BY IdleSession DEF Init
<1>6. \A x \in Session : Fits(session[x], x, record, partial) /\ \A d \in Device : ~At(session[x], x, d)
  BY IdleFits DEF Init
<1> QED
  BY <1>2, <1>3, <1>4, <1>5, <1>6 DEF TransferInv, OneReceiver

\* Every step keeps the invariant.
LEMMA TransferStep ==
  TransferInv /\ [Next]_vars => TransferInv'
<1> SUFFICES ASSUME TransferInv, [Next]_vars
             PROVE  TransferInv'
  OBVIOUS
<1>1. ASSUME NEW x \in Session, Open(x) \/ Answer(x) \/ Request(x) \/ TakeLock(x)
      PROVE  TransferInv'
  BY <1>1, OpenKeeps, AnswerKeeps, RequestKeeps, ReadyKeeps, TakeResponseKeeps DEF TakeLock
<1>2. ASSUME NEW x \in Session, Receive(x)
      PROVE  TransferInv'
  BY <1>2, PrepareKeeps, TransmitKeeps, VerifyKeeps DEF Receive
<1>3. ASSUME NEW x \in Session, ServerApply(x) \/ ClientApply(x) \/ Fail(x)
      PROVE  TransferInv'
  BY <1>3, ServerApplyKeeps, ClientApplyKeeps, FailKeeps
<1>4. ASSUME NEW x \in Session, NEW d \in Device, ApplyFails(x, d)
      PROVE  TransferInv'
  BY <1>4, ApplyFailsKeeps
<1>5. ASSUME NEW d \in Device, Crash(d)
      PROVE  TransferInv'
  BY <1>5, CrashKeeps
<1>6. ASSUME NEW f \in Edited, Edit(f)
      PROVE  TransferInv'
  BY <1>6, EditKeeps, FileAssumption
<1>8. ASSUME NEW d \in Device, Scan(d)
      PROVE  TransferInv'
  BY <1>8, ScanKeeps
<1>7. CASE UNCHANGED vars
  <2>1. UNCHANGED <<disk, record, partial, session, faults>>
    BY <1>7 DEF vars
  <2>2. DisksWhole' /\ OneReceiver'
    BY <2>1 DEF TransferInv, DisksWhole, InstalledWhole, OneReceiver, At
  <2>3. \A x \in Session : Fits(session'[x], x, record', partial')
    BY <2>1 DEF TransferInv
  <2> QED
    BY <2>1, <2>2, <2>3 DEF TransferInv
<1> QED
  BY <1>1, <1>2, <1>3, <1>4, <1>5, <1>6, <1>7, <1>8 DEF Next, Proceed

LEMMA TransferInvariant ==
  Spec => []TransferInv
BY TransferInit, TransferStep, PTL DEF Spec

\* What make_transfer_request, send_file_chunks_from_root, receive_file_chunks,
\* verify_partial and the apply put into a shared directory is, for any number of
\* sessions, failures and edits, the whole content of the version recorded there.
THEOREM ContentInstalled ==
  Spec => []InstalledWhole
<1>1. TransferInv => InstalledWhole
  BY DEF TransferInv, DisksWhole
<1> QED
  BY <1>1, TransferInvariant, PTL

\* Under receive_lock the partial file being written ends where its session stands,
\* and one that verify_partial accepted stays as it is until the apply, whatever the
\* other sessions of the device do.
THEOREM PartialsStay ==
  Spec => []PartialsUndisturbed
<1>1. ASSUME TransferInv
      PROVE  PartialsUndisturbed
  <2> SUFFICES ASSUME NEW x \in Session, Receiving(x), NEW f \in Listed(x)
               PROVE  LET p == partial[Receiver(x)][f][Wanted(x, f)]
                      IN  /\ f \notin session[x].left => p = Whole(Wanted(x, f))
                          /\ session[x].writing /\ Current(x, f) =>
                               p # NoPartial /\ Len(p) = session[x].offset[f]
    BY DEF PartialsUndisturbed
  <2>1. /\ Held(session[x], Listed(x), Versions(x), partial[Receiver(x)])
        /\ f \in File /\ Wanted(x, f) = Versions(x)[f]
    BY <1>1, ReceiverFacts
  <2>2. f \notin session[x].left =>
          partial[Receiver(x)][f][Wanted(x, f)] = Whole(Wanted(x, f))
    BY <2>1 DEF Held
  <2> QED
    BY <1>1, <2>2, CurrentFacts
<1> QED
  BY <1>1, TransferInvariant, PTL

\* Partial files, offsets and versions keep their types: partial_size never finds a
\* partial file longer than the file it is for.
THEOREM TransferTypes ==
  Spec => []TypeOK
<1>1. TransferInv => TypeOK
  BY DEF TransferInv, TypeOK, PartialType, SessionType
<1> QED
  BY <1>1, TransferInvariant, PTL
=============================================================================
