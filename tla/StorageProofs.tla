--------------------------- MODULE StorageProofs ---------------------------
(***************************************************************************)
(* The safety of ShareStorage for every number of processes, shares and    *)
(* directories.                                                            *)
(***************************************************************************)
EXTENDS ShareStorage, TLAPS

\* Zenon proves a leaf unless the leaf cites SMT.
USE ZenonT(60)

ProcType == [command : Command \cup {"none"}, at : Place \cup {"none"}, shares : SUBSET Share,
             directory : Directory \cup {Nothing}, key : Process \cup {Nothing}]

\* The places of each command.
Consistent(r) ==
    CASE r.at = "none" -> r.command = "none"
      [] r.at = "registry" -> r.command \in {"init", "join", "handoff", "run", "remove"}
      [] r.at \in {"identity", "key"} -> r.command \in {"init", "join", "handoff", "run", "scan"}
      [] r.at \in {"staging", "staged"} -> r.command \in {"init", "join"}
      [] r.at \in {"start", "running"} -> r.command = "run"
      [] r.at = "removing" -> r.command = "remove"
      [] r.at \in {"share", "saving"} -> r.command = "scan"
      [] r.at = "syncing" -> r.command = "handoff"
      [] OTHER -> r.command = "status"

\* The shares that r registers are free and so is its directory, in st.
Unclaimed(r, st) ==
    /\ r.directory \in Directory
    /\ \A s \in r.shares : st[s].files = "none"
    /\ \A t \in Share : st[t].files # "none" => <<st[t].directory, r.directory>> \notin Overlaps

\* A run, a scan or a first sync has its locks.
Working(r) ==
    \/ r.command = "run" /\ r.at # "registry"
    \/ r.command = "scan" /\ r.at # "share"
    \/ r.at = "syncing"

\* The process has loaded its identity.
Identified(r) ==
    \/ r.at \in {"staging", "staged", "saving", "start", "running", "syncing"}
    \/ r.command = "handoff" /\ r.at = "registry"

\* What holds of a process at r while the shares are st and the saved key is k.
ValidProc(r, st, k) ==
    /\ r \in ProcType /\ Consistent(r)
    /\ r.command \in {"init", "join"} => r.directory \in Directory
    /\ r.command \in {"init", "join"} /\ r.at # "registry" => Unclaimed(r, st)
    /\ r.at = "staged" => \E s \in Share : r.shares = {s}
    /\ Working(r) => \A s \in r.shares : st[s].files = "all"
    /\ r.at = "key" => r.key \in Process /\ (k # Nothing => r.key = k)
    /\ Identified(r) => r.key \in Process /\ r.key = k

ProcsValid == \A p \in Process : ValidProc(proc[p], stored, key)

\* The shares are whole or absent, and apart from each other.
ValidShares(st) ==
    /\ st \in [Share -> Stored]
    /\ \A s \in Share : st[s].files # "none" => st[s].files = "all" /\ st[s].directory \in Directory
    /\ \A s, t \in Share : s # t /\ st[s].files # "none" /\ st[t].files # "none"
                             => <<st[s].directory, st[t].directory>> \notin Overlaps

\* A process that a status names runs or syncs that share.
Owned == \A s \in Share : \A p \in Process :
            stored[s].process_id = p => s \in proc[p].shares /\ proc[p].at \in {"running", "syncing"}

\* A lock has one owner.
LocksExclusive ==
    \A p, q \in Process :
        /\ HoldsRegistry(p) /\ HoldsRegistry(q) => p = q
        /\ HoldsIdentity(p) /\ HoldsIdentity(q) => p = q
        /\ \A s \in Share : HoldsShare(p, s) /\ HoldsShare(q, s) => p = q

StorageInv ==
    /\ key \in Process \cup {Nothing} /\ proc \in [Process -> ProcType]
    /\ ValidShares(stored)
    /\ ProcsValid
    /\ Owned
    /\ LocksExclusive

-----------------------------------------------------------------------------
(* Steps in general                                                        *)

\* What is left to show of a step in which process p comes to r.
LEMMA OneProcess ==
    ASSUME StorageInv, NEW p \in Process, NEW r, proc' = [proc EXCEPT ![p] = r],
           key' \in Process \cup {Nothing}, ValidShares(stored'),
           ValidProc(r, stored', key'),
           \A q \in Process \ {p} : ValidProc(proc[q], stored', key'),
           Owned',
           HoldsRegistry(p)' => \A q \in Process \ {p} : ~HoldsRegistry(q),
           HoldsIdentity(p)' => \A q \in Process \ {p} : ~HoldsIdentity(q),
           \A s \in Share : HoldsShare(p, s)' => \A q \in Process \ {p} : ~HoldsShare(q, s)
    PROVE  StorageInv'
<1>1. proc \in [Process -> ProcType] /\ r \in ProcType /\ LocksExclusive
    BY DEF StorageInv, ValidProc
<1>2. proc' \in [Process -> ProcType] /\ proc'[p] = r /\ \A q \in Process \ {p} : proc'[q] = proc[q]
    BY <1>1
<1>3. ProcsValid'
    BY <1>2 DEF ProcsValid
<1>4. \A q \in Process \ {p} : /\ HoldsRegistry(q)' <=> HoldsRegistry(q)
                               /\ HoldsIdentity(q)' <=> HoldsIdentity(q)
                               /\ \A s \in Share : HoldsShare(q, s)' <=> HoldsShare(q, s)
    BY <1>2 DEF HoldsRegistry, HoldsIdentity, HoldsShare
<1>5. LocksExclusive'
    BY <1>1, <1>4 DEF LocksExclusive
<1> QED
    BY <1>2, <1>3, <1>5 DEF StorageInv

\* A change of process identifiers alone.
LEMMA SameFiles ==
    ASSUME StorageInv, NEW st \in [Share -> Stored],
           \A s \in Share : st[s].files = stored[s].files /\ st[s].directory = stored[s].directory
    PROVE  ValidShares(st) /\ \A q \in Process : ValidProc(proc[q], st, key)
<1>1. ValidShares(st)
    BY DEF StorageInv, ValidShares
<1>2. ASSUME NEW q \in Process PROVE ValidProc(proc[q], st, key)
    <2>1. ValidProc(proc[q], stored, key) /\ proc[q].shares \in SUBSET Share
        BY DEF StorageInv, ProcsValid, ValidProc, ProcType
    <2>2. Unclaimed(proc[q], stored) => Unclaimed(proc[q], st)
        BY <2>1, SMTT(30) DEF Unclaimed
    <2> QED
        BY <2>1, <2>2 DEF ValidProc
<1> QED
    BY <1>1, <1>2

LEMMA IdleValid == Idle \in ProcType /\ \A st, k : ValidProc(Idle, st, k)
BY DEF Idle, ProcType, Command, Place, ValidProc, Consistent, Working, Identified

\* A process ends and leaves the shares as sts.
LEMMA ExitStep ==
    ASSUME StorageInv, NEW p \in Process, NEW sts \in [Share -> Stored], Exit(p, sts), key' = key,
           ValidShares(sts), \A q \in Process \ {p} : ValidProc(proc[q], sts, key),
           \A s \in Share : \A q \in Process \ {p} : sts[s].process_id = q => stored[s].process_id = q
    PROVE  StorageInv'
<1>1. /\ stored' \in [Share -> Stored]
      /\ \A s \in Share : stored'[s].files = sts[s].files /\ stored'[s].directory = sts[s].directory
      /\ \A s \in Share : stored'[s].process_id # p
      /\ \A s \in Share : stored'[s].process_id = sts[s].process_id \/ stored'[s].process_id = Ended
    <2>1. stored' = Outlived(sts, p)
        BY DEF Exit
    <2>2. Ended # p
        BY NamesAssumption
    <2> QED
        BY <2>1, <2>2 DEF Outlived, Stored
<1>2. ValidShares(stored')
    BY <1>1 DEF ValidShares
<1>3. ASSUME NEW q \in Process \ {p} PROVE ValidProc(proc[q], stored', key)
    <2>1. ValidProc(proc[q], sts, key) /\ proc[q].shares \in SUBSET Share
        BY DEF ValidProc, ProcType
    <2>2. Unclaimed(proc[q], sts) => Unclaimed(proc[q], stored')
        BY <1>1, <2>1 DEF Unclaimed
    <2> QED
        BY <1>1, <2>1, <2>2 DEF ValidProc
<1>4. proc' = [proc EXCEPT ![p] = Idle] /\ proc \in [Process -> ProcType] /\ key \in Process \cup {Nothing}
    BY DEF Exit, StorageInv
<1>5. Owned'
    <2> SUFFICES ASSUME NEW s \in Share, NEW q \in Process, stored'[s].process_id = q
                 PROVE  s \in proc'[q].shares /\ proc'[q].at \in {"running", "syncing"}
        BY DEF Owned
    <2>1. q # p /\ stored[s].process_id = q
        BY <1>1, NamesAssumption
    <2> QED
        BY <1>4, <2>1 DEF StorageInv, Owned
<1>6. ~HoldsRegistry(p)' /\ ~HoldsIdentity(p)' /\ \A s \in Share : ~HoldsShare(p, s)'
    BY <1>4 DEF HoldsRegistry, HoldsIdentity, HoldsShare, Idle
<1> QED
    BY <1>2, <1>3, <1>4, <1>5, <1>6, IdleValid, OneProcess

\* A process ends and leaves the shares as they are.
LEMMA ExitUnchanged ==
    ASSUME StorageInv, NEW p \in Process, Exit(p, stored), key' = key
    PROVE  StorageInv'
BY ExitStep DEF StorageInv, ValidShares, ProcsValid

\* Only the process itself changes.
LEMMA OnlyProcess ==
    ASSUME StorageInv, NEW p \in Process, NEW r, proc' = [proc EXCEPT ![p] = r],
           UNCHANGED <<stored, key>>, ValidProc(r, stored, key),
           \A s \in Share : stored[s].process_id # p,
           HoldsRegistry(p)' => \A q \in Process \ {p} : ~HoldsRegistry(q),
           HoldsIdentity(p)' => \A q \in Process \ {p} : ~HoldsIdentity(q),
           \A s \in Share : HoldsShare(p, s)' => \A q \in Process \ {p} : ~HoldsShare(q, s)
    PROVE  StorageInv'
<1>1. Owned'
    BY DEF StorageInv, Owned
<1>2. key \in Process \cup {Nothing} /\ ValidShares(stored) /\ \A q \in Process \ {p} : ValidProc(proc[q], stored, key)
    BY DEF StorageInv, ProcsValid
<1> QED
    BY <1>1, <1>2, OneProcess

\* A process that does not run or sync is named by no status.
LEMMA NotNamed ==
    ASSUME StorageInv, NEW p \in Process, proc[p].at \notin {"running", "syncing"}
    PROVE  \A s \in Share : stored[s].process_id # p
BY DEF StorageInv, Owned

-----------------------------------------------------------------------------
(* The beginning of a command                                              *)

LEMMA BeginSteps == ASSUME StorageInv, NEW p \in Process, Begins(p) PROVE StorageInv'
<1>1. ASSUME NEW command \in Command, NEW place \in Place, NEW shares \in SUBSET Share,
             NEW d \in Directory \cup {Nothing}, Begin(p, command, place, shares, d),
             Consistent([Idle EXCEPT !.command = command, !.at = place, !.shares = shares, !.directory = d]),
             command \in {"init", "join"} => d \in Directory,
             \/ place = "registry" /\ command \in {"init", "join", "run", "remove"}
             \/ command = "scan" /\ place = "share"
             \/ command = "status" /\ place = "probing" /\ \A s \in shares : ShareFree(s)
      PROVE  StorageInv'
    <2> DEFINE r == [Idle EXCEPT !.command = command, !.at = place, !.shares = shares, !.directory = d]
    <2>1. proc' = [proc EXCEPT ![p] = r] /\ UNCHANGED <<stored, key>> /\ proc[p] = Idle
        BY <1>1 DEF Begin
    <2>2. /\ r \in ProcType /\ r.command = command /\ r.at = place /\ r.shares = shares /\ r.directory = d
          /\ Consistent(r)
        BY <1>1 DEF ProcType, Idle, Command, Place
    <2> HIDE DEF r
    <2>3. ValidProc(r, stored, key)
        BY <1>1, <2>2 DEF ValidProc, Working, Identified
    <2>4. \A s \in Share : stored[s].process_id # p
        BY <2>1, NotNamed, SMTT(30) DEF Idle
    <2>5. proc'[p] = r
        BY <2>1 DEF StorageInv
    <2>6. ~HoldsRegistry(p)' /\ ~HoldsIdentity(p)'
        BY <1>1, <2>2, <2>5 DEF HoldsRegistry, HoldsIdentity
    <2>7. \A s \in Share : HoldsShare(p, s)' => \A q \in Process \ {p} : ~HoldsShare(q, s)
        BY <1>1, <2>2, <2>5 DEF HoldsShare, ShareFree
    <2> QED
        BY <2>1, <2>3, <2>4, <2>6, <2>7, OnlyProcess
<1>2. ASSUME NEW d \in Directory, StartInit(p, d) PROVE StorageInv'
    BY <1>2, <1>1, SMTT(30) DEF StartInit, Command, Place, Consistent, Idle
<1>3. ASSUME NEW d \in Directory, NEW s \in Share, StartJoin(p, s, d) PROVE StorageInv'
    BY <1>3, <1>1 DEF StartJoin, Command, Place, Consistent, Idle
<1>4. ASSUME NEW shares \in SUBSET Share, StartRun(p, shares) PROVE StorageInv'
    BY <1>4, <1>1, SMTT(30) DEF StartRun, Command, Place, Consistent, Idle
<1>5. ASSUME NEW s \in Share, StartRemove(p, s) PROVE StorageInv'
    BY <1>5, <1>1, SMTT(30) DEF StartRemove, Command, Place, Consistent, Idle
<1>6. ASSUME NEW s \in Share, StartScan(p, s) PROVE StorageInv'
    BY <1>6, <1>1, SMTT(30) DEF StartScan, Command, Place, Consistent, Idle
<1>7. ASSUME NEW s \in Share, Probe(p, s) PROVE StorageInv'
    BY <1>7, <1>1, SMTT(30) DEF Probe, Command, Place, Consistent, Idle
<1> QED
    BY <1>2, <1>3, <1>4, <1>5, <1>6, <1>7 DEF Begins

-----------------------------------------------------------------------------
(* The steps of a command                                                  *)

\* What is known of the process that takes a step.
LEMMA Known ==
    ASSUME StorageInv, NEW p \in Process
    PROVE  /\ proc \in [Process -> ProcType] /\ proc[p] \in ProcType /\ ValidProc(proc[p], stored, key)
           /\ stored \in [Share -> Stored] /\ key \in Process \cup {Nothing}
           /\ proc[p].shares \in SUBSET Share
BY DEF StorageInv, ProcsValid, ValidShares, ProcType

\* The steps that end the command, or move it on, with no change of a file.
LEMMA RegisterStep == ASSUME StorageInv, NEW p \in Process, Register(p) PROVE StorageInv'
<1> DEFINE r == [proc[p] EXCEPT !.at = "identity"]
<1>1. CASE Exit(p, stored)
    BY <1>1, ExitUnchanged DEF Register
<1>2. CASE ~Exit(p, stored)
    <2>1. /\ proc' = [proc EXCEPT ![p] = r] /\ UNCHANGED <<stored, key>> /\ RegistryFree
          /\ FindShareForDirectory(proc[p].directory) = {} /\ proc[p].shares \cap Registered = {}
          /\ proc[p].command \in {"init", "join"} /\ proc[p].at = "registry"
        BY <1>2 DEF Register, Goto
    <2>2. /\ r \in ProcType /\ r.command = proc[p].command /\ r.at = "identity"
          /\ r.shares = proc[p].shares /\ r.directory = proc[p].directory
        BY Known DEF ProcType, Place
    <2> HIDE DEF r
    <2>3. Unclaimed(r, stored)
        BY <2>1, <2>2, Known DEF Unclaimed, FindShareForDirectory, Registered, ValidProc
    <2>4. ValidProc(r, stored, key)
        BY <2>1, <2>2, <2>3 DEF ValidProc, Consistent, Unclaimed, Working, Identified
    <2>5. proc'[p] = r
        BY <2>1, Known
    <2>6. ~HoldsIdentity(p)' /\ \A s \in Share : ~HoldsShare(p, s)'
        BY <2>1, <2>2, <2>5 DEF HoldsIdentity, HoldsShare
    <2>7. \A q \in Process \ {p} : ~HoldsRegistry(q)
        BY <2>1 DEF RegistryFree
    <2> QED
        BY <2>1, <2>4, <2>6, <2>7, NotNamed, OnlyProcess
<1> QED
    BY <1>1, <1>2

LEMMA StageStep == ASSUME StorageInv, NEW p \in Process, Stage(p) PROVE StorageInv'
<1>1. PICK s \in IF proc[p].command = "init" THEN Share \ Registered ELSE proc[p].shares :
        proc' = [proc EXCEPT ![p].shares = {s}, ![p].at = "staged"]
    BY DEF Stage
<1> DEFINE r == [proc[p] EXCEPT !.shares = {s}, !.at = "staged"]
<1>2. proc' = [proc EXCEPT ![p] = r] /\ UNCHANGED <<stored, key>> /\ proc[p].at = "staging"
    BY <1>1, Known DEF Stage
<1>3. /\ r \in ProcType /\ r.command = proc[p].command /\ r.at = "staged" /\ r.shares = {s} /\ s \in Share
      /\ r.directory = proc[p].directory /\ r.key = proc[p].key
    BY Known DEF ProcType, Place
<1> HIDE DEF r
<1>4. ValidProc(proc[p], stored, key) /\ proc[p].command \in {"init", "join"}
    BY <1>2, Known DEF ValidProc, Consistent
<1>5. stored[s].files = "none"
    BY <1>2, <1>4 DEF ValidProc, Unclaimed, Registered
<1>6. Unclaimed(r, stored)
    BY <1>2, <1>3, <1>4, <1>5 DEF ValidProc, Unclaimed
<1>7. ValidProc(r, stored, key)
    BY <1>2, <1>3, <1>4, <1>6 DEF ValidProc, Consistent, Working, Identified
<1>8. proc'[p] = r
    BY <1>2, Known
<1>9. ~HoldsIdentity(p)' /\ \A t \in Share : ~HoldsShare(p, t)'
    BY <1>3, <1>4, <1>8 DEF HoldsIdentity, HoldsShare
<1>10. \A q \in Process \ {p} : ~HoldsRegistry(q)
    BY <1>2, <1>4 DEF StorageInv, LocksExclusive, HoldsRegistry
<1> QED
    BY <1>2, <1>7, <1>9, <1>10, NotNamed, OnlyProcess

LEMMA LoadIdentityStep == ASSUME StorageInv, NEW p \in Process, LoadIdentity(p) PROVE StorageInv'
<1> DEFINE k == IF key = Nothing THEN p ELSE key
           r == [proc[p] EXCEPT !.at = "key", !.key = k]
<1>1. proc' = [proc EXCEPT ![p] = r] /\ UNCHANGED <<stored, key>> /\ proc[p].at = "identity" /\ IdentityFree
    BY Known DEF LoadIdentity
<1>2. /\ r \in ProcType /\ r.command = proc[p].command /\ r.at = "key" /\ r.shares = proc[p].shares
      /\ r.directory = proc[p].directory /\ r.key = k /\ k \in Process /\ (key # Nothing => k = key)
    BY Known DEF ProcType, Place
<1> HIDE DEF r, k
<1>3. ValidProc(proc[p], stored, key) /\ proc[p].command \in {"init", "join", "handoff", "run", "scan"}
    BY <1>1, Known DEF ValidProc, Consistent
<1>4. Unclaimed(proc[p], stored) => Unclaimed(r, stored)
    BY <1>2 DEF Unclaimed
<1>5. ValidProc(r, stored, key)
    BY <1>1, <1>2, <1>3, <1>4 DEF ValidProc, Consistent, Working, Identified
<1>6. proc'[p] = r
    BY <1>1, Known
<1>7. HoldsRegistry(p)' => HoldsRegistry(p)
    BY <1>1, <1>2, <1>6 DEF HoldsRegistry
<1>8. \A s \in Share : HoldsShare(p, s)' => HoldsShare(p, s)
    BY <1>1, <1>2, <1>6 DEF HoldsShare
<1>9. \A q \in Process \ {p} : ~HoldsIdentity(q)
    BY <1>1 DEF IdentityFree
<1>10. \A q \in Process \ {p} : /\ HoldsRegistry(p) => ~HoldsRegistry(q)
                                /\ \A s \in Share : HoldsShare(p, s) => ~HoldsShare(q, s)
    BY DEF StorageInv, LocksExclusive
<1> QED
    BY <1>1, <1>5, <1>7, <1>8, <1>9, <1>10, NotNamed, OnlyProcess

LEMMA SaveIdentityStep == ASSUME StorageInv, NEW p \in Process, SaveIdentity(p) PROVE StorageInv'
<1> DEFINE r == [proc[p] EXCEPT !.at = AfterIdentity(proc[p].command)]
<1>1. proc' = [proc EXCEPT ![p] = r] /\ stored' = stored /\ key' = proc[p].key /\ proc[p].at = "key"
    BY DEF SaveIdentity, Goto
<1>2. /\ ValidProc(proc[p], stored, key) /\ proc[p].command \in {"init", "join", "handoff", "run", "scan"}
      /\ proc[p].key \in Process /\ (key # Nothing => proc[p].key = key)
    BY <1>1, Known DEF ValidProc, Consistent
<1>3. /\ r \in ProcType /\ r.command = proc[p].command /\ r.shares = proc[p].shares
      /\ r.directory = proc[p].directory /\ r.key = proc[p].key
      /\ r.at = AfterIdentity(proc[p].command)
    BY <1>2, Known DEF ProcType, Place, AfterIdentity
<1>4. \/ r.command \in {"init", "join"} /\ r.at = "staging"
      \/ r.command = "handoff" /\ r.at = "registry"
      \/ r.command = "run" /\ r.at = "start"
      \/ r.command = "scan" /\ r.at = "saving"
    BY <1>2, <1>3 DEF AfterIdentity
<1> HIDE DEF r
<1>5. Unclaimed(proc[p], stored) => Unclaimed(r, stored)
    BY <1>3 DEF Unclaimed
<1>6. ValidProc(r, stored', key')
    BY <1>1, <1>2, <1>3, <1>4, <1>5 DEF ValidProc, Consistent, Working, Identified
<1>7. ASSUME NEW q \in Process \ {p} PROVE ValidProc(proc[q], stored', key')
    <2>1. ValidProc(proc[q], stored, key)
        BY DEF StorageInv, ProcsValid
    <2>2. proc[q].at # "key"
        BY <1>1 DEF StorageInv, LocksExclusive, HoldsIdentity
    <2>3. Identified(proc[q]) => proc[q].key = key'
        BY <1>1, <1>2, <2>1, NamesAssumption DEF ValidProc
    <2> QED
        BY <1>1, <2>1, <2>2, <2>3 DEF ValidProc
<1>8. proc'[p] = r
    BY <1>1, Known
<1>9. /\ HoldsRegistry(p)' => HoldsRegistry(p)
      /\ ~HoldsIdentity(p)'
      /\ \A s \in Share : HoldsShare(p, s)' => HoldsShare(p, s)
    BY <1>1, <1>3, <1>4, <1>8 DEF HoldsRegistry, HoldsIdentity, HoldsShare
<1>10. \A q \in Process \ {p} : /\ HoldsRegistry(p) => ~HoldsRegistry(q)
                                /\ \A s \in Share : HoldsShare(p, s) => ~HoldsShare(q, s)
    BY DEF StorageInv, LocksExclusive
<1>11. Owned'
    BY <1>1, NotNamed DEF StorageInv, Owned
<1>12. key' \in Process \cup {Nothing} /\ ValidShares(stored')
    BY <1>1, <1>2 DEF StorageInv
<1> QED
    BY <1>1, <1>6, <1>7, <1>9, <1>10, <1>11, <1>12, OneProcess

-----------------------------------------------------------------------------
(* The steps that write the runtime status                                 *)

\* What the writes of a process make of the status of a share it works on.
LEMMA StatusWrites ==
    ASSUME NEW p \in Process, NEW st \in Stored, st.files = "all"
    PROVE  /\ Saved(st) = st
           /\ Updated(st, p) \in Stored /\ Updated(st, p).files = st.files
           /\ Updated(st, p).directory = st.directory
           /\ Updated(st, p).process_id \in {st.process_id, p}
           /\ Stopped(st) \in Stored /\ Stopped(st).files = st.files
           /\ Stopped(st).directory = st.directory /\ Stopped(st).process_id = Nothing
BY DEF Saved, Updated, Stopped, Stored

\* A step in which process p comes to r and writes its identifier to statuses.
LEMMA StatusStep ==
    ASSUME StorageInv, NEW p \in Process, NEW r, proc' = [proc EXCEPT ![p] = r], key' = key,
           stored' \in [Share -> Stored],
           \A s \in Share : /\ stored'[s].files = stored[s].files
                            /\ stored'[s].directory = stored[s].directory
                            /\ \/ stored'[s].process_id = stored[s].process_id
                               \/ stored'[s].process_id = p /\ s \in r.shares,
           r.at \in {"running", "syncing"},
           \A s \in Share : stored[s].process_id = p => s \in r.shares,
           ValidProc(r, stored, key),
           HoldsRegistry(p)' => \A q \in Process \ {p} : ~HoldsRegistry(q),
           \A s \in Share : HoldsShare(p, s)' => \A q \in Process \ {p} : ~HoldsShare(q, s)
    PROVE  StorageInv'
<1>1. ValidShares(stored') /\ \A q \in Process : ValidProc(proc[q], stored', key)
    BY SameFiles
<1>2. ValidProc(r, stored', key)
    <2>1. r.shares \in SUBSET Share
        BY DEF ValidProc, ProcType
    <2>2. Unclaimed(r, stored) => Unclaimed(r, stored')
        BY <2>1, SMTT(30) DEF Unclaimed
    <2> QED
        BY <2>1, <2>2 DEF ValidProc
<1>3. proc'[p] = r /\ (\A q \in Process \ {p} : proc'[q] = proc[q]) /\ key \in Process \cup {Nothing}
    BY Known
<1>4. Owned'
    <2> SUFFICES ASSUME NEW s \in Share, NEW q \in Process, stored'[s].process_id = q
                 PROVE  s \in proc'[q].shares /\ proc'[q].at \in {"running", "syncing"}
        BY DEF Owned
    <2>1. CASE q = p
        BY <1>3, <2>1
    <2>2. CASE q # p
        BY <1>3, <2>2 DEF StorageInv, Owned
    <2> QED
        BY <2>1, <2>2
<1>5. ~HoldsIdentity(p)'
    BY <1>3 DEF HoldsIdentity
<1> QED
    BY <1>1, <1>2, <1>3, <1>4, <1>5, OneProcess

\* A process that works on its shares ends, after writes of statuses alone.
LEMMA ExitStatus ==
    ASSUME StorageInv, NEW p \in Process, NEW sts \in [Share -> Stored], Exit(p, sts), key' = key,
           \A s \in Share : /\ sts[s].files = stored[s].files
                            /\ sts[s].directory = stored[s].directory
                            /\ sts[s].process_id \in {stored[s].process_id, p, Nothing}
    PROVE  StorageInv'
<1>1. ValidShares(sts) /\ \A q \in Process \ {p} : ValidProc(proc[q], sts, key)
    BY SameFiles
<1>2. \A s \in Share : \A q \in Process \ {p} : sts[s].process_id = q => stored[s].process_id = q
    BY NamesAssumption
<1> QED
    BY <1>1, <1>2, ExitStep

\* The writes of a process to the shares it works on.
LEMMA OnWorkedShares ==
    ASSUME StorageInv, NEW p \in Process, \A s \in proc[p].shares : stored[s].files = "all"
    PROVE  LET saved == OnShares(p, [s \in Share |-> Saved(stored[s])])
               updated == OnShares(p, [s \in Share |-> Updated(stored[s], p)])
               stopped == OnShares(p, [s \in Share |-> Stopped(stored[s])])
           IN  /\ saved \in [Share -> Stored] /\ updated \in [Share -> Stored] /\ stopped \in [Share -> Stored]
               /\ \A s \in Share :
                     /\ saved[s] = stored[s]
                     /\ updated[s].files = stored[s].files /\ stopped[s].files = stored[s].files
                     /\ updated[s].directory = stored[s].directory /\ stopped[s].directory = stored[s].directory
                     /\ stopped[s].process_id \in {stored[s].process_id, Nothing}
                     /\ \/ updated[s].process_id = stored[s].process_id
                        \/ updated[s].process_id = p /\ s \in proc[p].shares
<1>1. proc[p].shares \in SUBSET Share /\ stored \in [Share -> Stored]
    BY Known
<1>2. \A s \in proc[p].shares :
        /\ stored[s] \in Stored /\ Saved(stored[s]) = stored[s]
        /\ Updated(stored[s], p) \in Stored /\ Updated(stored[s], p).files = stored[s].files
        /\ Updated(stored[s], p).directory = stored[s].directory
        /\ Updated(stored[s], p).process_id \in {stored[s].process_id, p}
        /\ Stopped(stored[s]) \in Stored /\ Stopped(stored[s]).files = stored[s].files
        /\ Stopped(stored[s]).directory = stored[s].directory /\ Stopped(stored[s]).process_id = Nothing
    BY <1>1, StatusWrites, SMTT(30)
<1> QED
    BY <1>1, <1>2 DEF OnShares

LEMMA AttemptStep == ASSUME StorageInv, NEW p \in Process, Attempt(p) PROVE StorageInv'
<1> DEFINE r == [proc[p] EXCEPT !.at = "syncing"]
<1>1. CASE Exit(p, stored)
    BY <1>1, ExitUnchanged DEF Attempt
<1>2. CASE ~Exit(p, stored)
    <2>1. /\ proc' = [proc EXCEPT ![p] = r] /\ key' = key /\ RegistryFree
          /\ stored' = OnShares(p, [s \in Share |-> Updated(stored[s], p)])
          /\ proc[p].command = "handoff" /\ proc[p].at = "registry"
          /\ \A s \in proc[p].shares : ShareFree(s) /\ stored[s].files = "all"
        BY <1>2 DEF Attempt, Goto
    <2>2. /\ r \in ProcType /\ r.command = "handoff" /\ r.at = "syncing" /\ r.key = proc[p].key
          /\ r.shares = proc[p].shares
        BY <2>1, Known DEF ProcType, Place
    <2> HIDE DEF r
    <2>3. proc[p].key \in Process /\ proc[p].key = key
        BY <2>1, Known DEF ValidProc, Identified
    <2>4. ValidProc(r, stored, key)
        BY <2>1, <2>2, <2>3 DEF ValidProc, Consistent, Working, Identified
    <2>5. \A q \in Process \ {p} : ~HoldsRegistry(q)
        BY <2>1 DEF RegistryFree
    <2>6. \A s \in Share : HoldsShare(p, s)' => \A q \in Process \ {p} : ~HoldsShare(q, s)
        BY <2>1, <2>2, Known DEF HoldsShare, ShareFree
    <2>7. \A s \in Share : stored[s].process_id # p
        BY <2>1, NotNamed
    <2>8. /\ stored' \in [Share -> Stored]
          /\ \A s \in Share : /\ stored'[s].files = stored[s].files
                              /\ stored'[s].directory = stored[s].directory
                              /\ \/ stored'[s].process_id = stored[s].process_id
                                 \/ stored'[s].process_id = p /\ s \in r.shares
        BY <2>1, <2>2, OnWorkedShares
    <2> QED
        BY <2>1, <2>2, <2>4, <2>5, <2>6, <2>7, <2>8, StatusStep
<1> QED
    BY <1>1, <1>2

LEMMA StartStep == ASSUME StorageInv, NEW p \in Process, Start(p) PROVE StorageInv'
<1> DEFINE starting == OnShares(p, [s \in Share |-> Updated(stored[s], p)])
           r == [proc[p] EXCEPT !.at = "running"]
<1>1. /\ proc[p].at = "start" /\ proc[p].command = "run" /\ key' = key
      /\ proc[p].key \in Process /\ proc[p].key = key
      /\ \A s \in proc[p].shares : stored[s].files = "all"
    BY Known DEF Start, ValidProc, Consistent, Working, Identified
<1>2. /\ starting \in [Share -> Stored]
      /\ \A s \in Share : /\ starting[s].files = stored[s].files
                          /\ starting[s].directory = stored[s].directory
                          /\ \/ starting[s].process_id = stored[s].process_id
                             \/ starting[s].process_id = p /\ s \in proc[p].shares
    BY <1>1, OnWorkedShares
<1>3. \/ Goto(p, "running") /\ stored' = starting
      \/ Exit(p, starting)
    BY <1>1 DEF Start
<1> HIDE DEF starting
<1>4. CASE Exit(p, starting)
    BY <1>1, <1>2, <1>4, ExitStatus, SMTT(30)
<1>5. CASE Goto(p, "running") /\ stored' = starting
    <2>1. proc' = [proc EXCEPT ![p] = r]
        BY <1>5 DEF Goto
    <2>2. /\ r \in ProcType /\ r.command = "run" /\ r.at = "running" /\ r.key = proc[p].key
          /\ r.shares = proc[p].shares
        BY <1>1, Known DEF ProcType, Place
    <2> HIDE DEF r
    <2>3. ValidProc(r, stored, key)
        BY <1>1, <2>2 DEF ValidProc, Consistent, Working, Identified
    <2>4. proc'[p] = r
        BY <2>1, Known
    <2>5. ~HoldsRegistry(p)'
        BY <2>2, <2>4 DEF HoldsRegistry
    <2>6. \A s \in Share : HoldsShare(p, s)' => HoldsShare(p, s)
        BY <1>1, <2>2, <2>4 DEF HoldsShare
    <2>7. \A s \in Share : HoldsShare(p, s)' => \A q \in Process \ {p} : ~HoldsShare(q, s)
        BY <2>6 DEF StorageInv, LocksExclusive
    <2>8. \A s \in Share : stored[s].process_id # p
        BY <1>1, NotNamed
    <2> QED
        BY <1>1, <1>2, <1>5, <2>1, <2>2, <2>3, <2>5, <2>7, <2>8, StatusStep
<1> QED
    BY <1>3, <1>4, <1>5

LEMMA WorkStep == ASSUME StorageInv, NEW p \in Process, NEW s \in Share, Work(p, s) PROVE StorageInv'
<1>1. /\ proc[p].at = "running" /\ s \in proc[p].shares /\ key' = key /\ proc' = proc
      /\ stored' = [stored EXCEPT ![s] = Updated(stored[s], p)]
      /\ stored[s].files = "all" /\ stored \in [Share -> Stored]
    BY Known DEF Work, ValidProc, Consistent, Working
<1>2. /\ stored' \in [Share -> Stored]
      /\ \A t \in Share : /\ stored'[t].files = stored[t].files
                          /\ stored'[t].directory = stored[t].directory
                          /\ \/ stored'[t].process_id = stored[t].process_id
                             \/ stored'[t].process_id = p /\ t \in proc[p].shares
    BY <1>1, StatusWrites, SMTT(30)
<1>3. proc' = [proc EXCEPT ![p] = proc[p]] /\ ValidProc(proc[p], stored, key)
    BY <1>1, Known
<1>4. \A t \in Share : stored[t].process_id = p => t \in proc[p].shares
    BY DEF StorageInv, Owned
<1>5. HoldsRegistry(p)' => \A q \in Process \ {p} : ~HoldsRegistry(q)
    BY <1>1 DEF StorageInv, LocksExclusive, HoldsRegistry
<1>6. \A t \in Share : HoldsShare(p, t)' => \A q \in Process \ {p} : ~HoldsShare(q, t)
    BY <1>1 DEF StorageInv, LocksExclusive, HoldsShare
<1> QED
    BY <1>1, <1>2, <1>3, <1>4, <1>5, <1>6, StatusStep

\* The ends of a first sync, of a run and of a scan.
LEMMA SyncedStep == ASSUME StorageInv, NEW p \in Process, Synced(p) PROVE StorageInv'
<1> DEFINE left == OnShares(p, [s \in Share |-> Stopped(stored[s])])
<1>1. key' = key /\ Exit(p, left)
    BY DEF Synced
<1>2. \A s \in proc[p].shares : stored[s].files = "all"
    BY Known DEF Synced, ValidProc, Working
<1>3. /\ left \in [Share -> Stored]
      /\ \A s \in Share : /\ left[s].files = stored[s].files /\ left[s].directory = stored[s].directory
                          /\ left[s].process_id \in {stored[s].process_id, p, Nothing}
    BY <1>2, OnWorkedShares
<1> HIDE DEF left
<1> QED
    BY <1>1, <1>3, ExitStatus

LEMMA ShutdownStep == ASSUME StorageInv, NEW p \in Process, Shutdown(p) PROVE StorageInv'
<1> DEFINE left == OnShares(p, [s \in Share |-> Stopped(stored[s])])
<1>1. key' = key /\ Exit(p, left)
    BY DEF Shutdown
<1>2. \A s \in proc[p].shares : stored[s].files = "all"
    BY Known DEF Shutdown, ValidProc, Consistent, Working
<1>3. /\ left \in [Share -> Stored]
      /\ \A s \in Share : /\ left[s].files = stored[s].files /\ left[s].directory = stored[s].directory
                          /\ left[s].process_id \in {stored[s].process_id, p, Nothing}
    BY <1>2, OnWorkedShares
<1> HIDE DEF left
<1> QED
    BY <1>1, <1>3, ExitStatus

LEMMA SaveScannedStep == ASSUME StorageInv, NEW p \in Process, SaveScanned(p) PROVE StorageInv'
<1> DEFINE left == OnShares(p, [s \in Share |-> Saved(stored[s])])
<1>1. key' = key /\ Exit(p, left)
    BY DEF SaveScanned
<1>2. \A s \in proc[p].shares : stored[s].files = "all"
    BY Known DEF SaveScanned, ValidProc, Consistent, Working
<1>3. /\ left \in [Share -> Stored]
      /\ \A s \in Share : /\ left[s].files = stored[s].files /\ left[s].directory = stored[s].directory
                          /\ left[s].process_id \in {stored[s].process_id, p, Nothing}
    BY <1>2, OnWorkedShares
<1> HIDE DEF left
<1> QED
    BY <1>1, <1>3, ExitStatus

-----------------------------------------------------------------------------
(* The steps that register, lock and remove a share                        *)

LEMMA PublishStep == ASSUME StorageInv, NEW p \in Process, Publish(p) PROVE StorageInv'
<1> DEFINE whole == [NoShare EXCEPT !.files = "all", !.directory = proc[p].directory]
           r == [proc[p] EXCEPT !.command = "handoff", !.at = "identity", !.key = Nothing]
<1>1. /\ proc[p].at = "staged" /\ proc[p].command \in {"init", "join"} /\ key' = key
      /\ Unclaimed(proc[p], stored)
    BY Known DEF Publish, ValidProc, Consistent
<1>2. PICK s \in proc[p].shares :
        IF proc[p].command = "init"
        THEN Exit(p, [stored EXCEPT ![s] = whole])
        ELSE stored' = [stored EXCEPT ![s] = whole] /\ proc' = [proc EXCEPT ![p] = r]
    BY Known DEF Publish
<1> DEFINE published == [stored EXCEPT ![s] = whole]
<1>3. /\ whole \in Stored /\ whole.files = "all" /\ whole.directory = proc[p].directory
      /\ whole.process_id = Nothing /\ whole.directory \in Directory
    BY <1>1 DEF NoShare, Stored, Unclaimed
<1> HIDE DEF whole
<1>4. /\ s \in Share /\ published \in [Share -> Stored] /\ published[s] = whole
      /\ \A t \in Share \ {s} : published[t] = stored[t]
      /\ stored[s].files = "none"
    BY <1>1, <1>3, Known DEF Unclaimed
<1> HIDE DEF published
<1>5. ValidShares(published)
    <2>1. \A t \in Share \ {s} : published[t].files # "none" =>
            /\ published[t].files = "all" /\ published[t].directory \in Directory
            /\ <<published[t].directory, whole.directory>> \notin Overlaps
        BY <1>1, <1>3, <1>4 DEF StorageInv, ValidShares, Unclaimed
    <2>2. \A t, u \in Share \ {s} : t # u /\ published[t].files # "none" /\ published[u].files # "none"
            => <<published[t].directory, published[u].directory>> \notin Overlaps
        BY <1>4 DEF StorageInv, ValidShares
    <2>3. \A t \in Share \ {s} : published[t].files # "none" =>
            <<whole.directory, published[t].directory>> \notin Overlaps
        BY <1>3, <2>1, OverlapsAssumption
    <2> QED
        BY <1>3, <1>4, <2>1, <2>2, <2>3 DEF ValidShares
<1>6. ASSUME NEW q \in Process \ {p} PROVE ValidProc(proc[q], published, key)
    <2>1. ValidProc(proc[q], stored, key) /\ proc[q].shares \in SUBSET Share
        BY Known
    <2>2. ~(proc[q].command \in {"init", "join"} /\ proc[q].at # "registry")
        <3>1. HoldsRegistry(p)
            BY <1>1 DEF HoldsRegistry
        <3>2. ~HoldsRegistry(q)
            BY <3>1 DEF StorageInv, LocksExclusive
        <3> QED
            BY <2>1, <3>2 DEF HoldsRegistry, ValidProc, Consistent, ProcType, Place
    <2>3. \A t \in proc[q].shares : stored[t].files = "all" => published[t].files = "all"
        BY <1>3, <1>4, <2>1
    <2> QED
        BY <2>1, <2>2, <2>3 DEF ValidProc
<1>7. \A t \in Share : \A q \in Process : published[t].process_id = q => stored[t].process_id = q
    BY <1>3, <1>4, NamesAssumption
<1>8. CASE proc[p].command = "init"
    BY <1>1, <1>2, <1>4, <1>5, <1>6, <1>7, <1>8, ExitStep DEF published
<1>9. CASE proc[p].command # "init"
    <2>1. stored' = published /\ proc' = [proc EXCEPT ![p] = r]
        BY <1>2, <1>9 DEF published
    <2>2. r \in ProcType /\ r.command = "handoff" /\ r.at = "identity"
        BY Known DEF ProcType, Place, Command
    <2> HIDE DEF r
    <2>3. ValidProc(r, published, key)
        BY <2>2 DEF ValidProc, Consistent, Working, Identified
    <2>4. proc'[p] = r /\ \A q \in Process \ {p} : proc'[q] = proc[q]
        BY <2>1, Known
    <2>5. ~HoldsRegistry(p)' /\ ~HoldsIdentity(p)' /\ \A t \in Share : ~HoldsShare(p, t)'
        BY <2>2, <2>4 DEF HoldsRegistry, HoldsIdentity, HoldsShare
    <2>6. \A t \in Share : stored[t].process_id # p
        BY <1>1, NotNamed
    <2>7. Owned'
        BY <1>7, <2>1, <2>4, <2>6, SMTT(30) DEF StorageInv, Owned
    <2> QED
        BY <1>1, <1>5, <1>6, <2>1, <2>3, <2>5, <2>7, Known, OneProcess
<1> QED
    BY <1>8, <1>9

LEMMA AcquireStep == ASSUME StorageInv, NEW p \in Process, Acquire(p) PROVE StorageInv'
<1> DEFINE shares == IF proc[p].shares = {} THEN Registered ELSE proc[p].shares
           r == [proc[p] EXCEPT !.at = "identity", !.shares = shares]
<1>1. CASE Exit(p, stored)
    BY <1>1, ExitUnchanged DEF Acquire
<1>2. CASE ~Exit(p, stored)
    <2>1. /\ proc' = [proc EXCEPT ![p] = r] /\ UNCHANGED <<stored, key>>
          /\ proc[p].command = "run" /\ proc[p].at = "registry"
          /\ \A s \in shares : ShareFree(s) /\ stored[s].files = "all"
        BY <1>2, Known DEF Acquire
    <2>2. shares \in SUBSET Share
        BY Known DEF Registered
    <2> HIDE DEF shares
    <2>3. r \in ProcType /\ r.command = "run" /\ r.at = "identity" /\ r.shares = shares
        BY <2>1, <2>2, Known DEF ProcType, Place
    <2> HIDE DEF r
    <2>4. ValidProc(r, stored, key)
        BY <2>1, <2>3 DEF ValidProc, Consistent, Working, Identified
    <2>5. proc'[p] = r
        BY <2>1, Known
    <2>6. ~HoldsIdentity(p)' /\ ~HoldsRegistry(p)'
        BY <2>3, <2>5 DEF HoldsIdentity, HoldsRegistry
    <2>7. \A s \in Share : HoldsShare(p, s)' => \A q \in Process \ {p} : ~HoldsShare(q, s)
        BY <2>1, <2>3, <2>5 DEF HoldsShare, ShareFree
    <2> QED
        BY <2>1, <2>4, <2>6, <2>7, NotNamed, OnlyProcess
<1> QED
    BY <1>1, <1>2

LEMMA LockRemovedStep == ASSUME StorageInv, NEW p \in Process, LockRemoved(p) PROVE StorageInv'
<1> DEFINE r == [proc[p] EXCEPT !.at = "removing"]
<1>1. CASE Exit(p, stored)
    BY <1>1, ExitUnchanged DEF LockRemoved
<1>2. CASE ~Exit(p, stored)
    <2>1. /\ proc' = [proc EXCEPT ![p] = r] /\ UNCHANGED <<stored, key>> /\ RegistryFree
          /\ proc[p].command = "remove" /\ proc[p].at = "registry"
          /\ \A s \in proc[p].shares : ShareFree(s)
        BY <1>2 DEF LockRemoved, Goto
    <2>2. r \in ProcType /\ r.command = "remove" /\ r.at = "removing" /\ r.shares = proc[p].shares
        BY <2>1, Known DEF ProcType, Place
    <2> HIDE DEF r
    <2>3. ValidProc(r, stored, key)
        BY <2>2 DEF ValidProc, Consistent, Working, Identified
    <2>4. proc'[p] = r
        BY <2>1, Known
    <2>5. ~HoldsIdentity(p)' /\ \A q \in Process \ {p} : ~HoldsRegistry(q)
        BY <2>1, <2>2, <2>4 DEF HoldsIdentity, RegistryFree
    <2>6. \A s \in Share : HoldsShare(p, s)' => \A q \in Process \ {p} : ~HoldsShare(q, s)
        BY <2>1, <2>2, <2>4 DEF HoldsShare, ShareFree
    <2> QED
        BY <2>1, <2>3, <2>5, <2>6, NotNamed, OnlyProcess
<1> QED
    BY <1>1, <1>2

LEMMA RemoveStep == ASSUME StorageInv, NEW p \in Process, Remove(p) PROVE StorageInv'
<1> DEFINE left == OnShares(p, [s \in Share |-> NoShare])
<1>1. key' = key /\ Exit(p, left) /\ proc[p].at = "removing"
    BY DEF Remove
<1>2. /\ left \in [Share -> Stored]
      /\ \A s \in Share : left[s] = IF s \in proc[p].shares THEN NoShare ELSE stored[s]
    BY Known DEF OnShares, NoShare, Stored
<1> HIDE DEF left
<1>3. NoShare.files = "none" /\ NoShare.process_id = Nothing
    BY DEF NoShare
<1>4. \A s \in Share : left[s].files # "none" => left[s] = stored[s]
    BY <1>2, <1>3
<1>5. ValidShares(left)
    BY <1>2, <1>4 DEF StorageInv, ValidShares
<1>6. ASSUME NEW q \in Process \ {p} PROVE ValidProc(proc[q], left, key)
    <2>1. ValidProc(proc[q], stored, key) /\ proc[q].shares \in SUBSET Share
        BY Known
    <2>2. Unclaimed(proc[q], stored) => Unclaimed(proc[q], left)
        BY <1>2, <1>3, <1>4, <2>1 DEF Unclaimed
    <2>3. ASSUME Working(proc[q]), NEW s \in proc[q].shares PROVE left[s].files = "all"
        <3>1. stored[s].files = "all" /\ s \in Share /\ HoldsShare(q, s)
            BY <2>1, <2>3 DEF ValidProc, Working, HoldsShare
        <3>2. s \notin proc[p].shares
            BY <1>1, <3>1 DEF StorageInv, LocksExclusive, HoldsShare
        <3> QED
            BY <1>2, <3>1, <3>2
    <2> QED
        BY <2>1, <2>2, <2>3 DEF ValidProc
<1>7. \A s \in Share : \A q \in Process \ {p} : left[s].process_id = q => stored[s].process_id = q
    BY <1>2, <1>3, NamesAssumption
<1> QED
    BY <1>1, <1>2, <1>5, <1>6, <1>7, ExitStep

LEMMA LockScannedStep == ASSUME StorageInv, NEW p \in Process, LockScanned(p) PROVE StorageInv'
<1> DEFINE r == [proc[p] EXCEPT !.at = "identity"]
<1>1. CASE Exit(p, stored)
    BY <1>1, ExitUnchanged DEF LockScanned
<1>2. CASE ~Exit(p, stored)
    <2>1. /\ proc' = [proc EXCEPT ![p] = r] /\ UNCHANGED <<stored, key>>
          /\ proc[p].command = "scan" /\ proc[p].at = "share"
          /\ \A s \in proc[p].shares : ShareFree(s) /\ stored[s].files = "all"
        BY <1>2 DEF LockScanned, Goto
    <2>2. r \in ProcType /\ r.command = "scan" /\ r.at = "identity" /\ r.shares = proc[p].shares
        BY <2>1, Known DEF ProcType, Place
    <2> HIDE DEF r
    <2>3. ValidProc(r, stored, key)
        BY <2>1, <2>2 DEF ValidProc, Consistent, Working, Identified
    <2>4. proc'[p] = r
        BY <2>1, Known
    <2>5. ~HoldsIdentity(p)' /\ ~HoldsRegistry(p)'
        BY <2>2, <2>4 DEF HoldsIdentity, HoldsRegistry
    <2>6. \A s \in Share : HoldsShare(p, s)' => \A q \in Process \ {p} : ~HoldsShare(q, s)
        BY <2>1, <2>2, <2>4 DEF HoldsShare, ShareFree
    <2> QED
        BY <2>1, <2>3, <2>5, <2>6, NotNamed, OnlyProcess
<1> QED
    BY <1>1, <1>2

-----------------------------------------------------------------------------
(* The invariant                                                           *)

LEMMA StorageInit == Init => StorageInv
<1> SUFFICES ASSUME Init PROVE StorageInv
    OBVIOUS
<1>1. stored \in [Share -> Stored] /\ \A s \in Share : stored[s].files = "none" /\ stored[s].process_id = Nothing
    BY DEF Init, NoShare, Stored
<1>2. key = Nothing /\ proc \in [Process -> ProcType] /\ \A p \in Process : proc[p] = Idle
    BY IdleValid DEF Init
<1>3. ValidShares(stored) /\ Owned
    BY <1>1, NamesAssumption DEF ValidShares, Owned
<1>4. ProcsValid
    BY <1>2, IdleValid DEF ProcsValid
<1>5. LocksExclusive
    BY <1>2, SMTT(30) DEF LocksExclusive, HoldsRegistry, HoldsIdentity, HoldsShare, Idle
<1> QED
    BY <1>2, <1>3, <1>4, <1>5 DEF StorageInv

LEMMA StorageStep == StorageInv /\ [Next]_vars => StorageInv'
<1> SUFFICES ASSUME StorageInv, [Next]_vars PROVE StorageInv'
    OBVIOUS
<1>1. ASSUME NEW p \in Process, Proceed(p) PROVE StorageInv'
    <2>1. CASE Probed(p)
        BY <2>1, ExitUnchanged DEF Probed
    <2> QED
        BY <1>1, <2>1, RegisterStep, StageStep, PublishStep, AttemptStep, SyncedStep, LoadIdentityStep,
           SaveIdentityStep, AcquireStep, StartStep, LockRemovedStep, RemoveStep, LockScannedStep,
           SaveScannedStep DEF Proceed
<1>2. ASSUME NEW p \in Process, Fail(p) PROVE StorageInv'
    BY <1>2, ExitUnchanged DEF Fail
<1>3. CASE UNCHANGED vars
    BY <1>3, SMTT(30) DEF vars, StorageInv, ValidShares, ProcsValid, Owned, LocksExclusive,
                HoldsRegistry, HoldsIdentity, HoldsShare
<1> QED
    BY <1>1, <1>2, <1>3, BeginSteps, ShutdownStep, WorkStep DEF Next

LEMMA StorageInvariant == Spec => []StorageInv
BY StorageInit, StorageStep, PTL DEF Spec

-----------------------------------------------------------------------------
(* The theorems                                                            *)

\* A share that a listing shows has all of its state files, whichever processes are
\* killed at whichever steps: create_share_state publishes by a rename.
THEOREM SharesRegistered == Spec => []RegisteredWhole
<1>1. StorageInv => RegisteredWhole
    BY DEF StorageInv, ValidShares, RegisteredWhole, Registered
<1> QED
    BY <1>1, StorageInvariant, PTL

\* Two registered shares never have overlapping directories, although the search
\* for an overlapping share and the publication are steps apart and the process may
\* be killed between them: the registry lock covers both.
THEOREM SharesApart == Spec => []SharesDisjoint
<1>1. StorageInv => SharesDisjoint
    BY DEF StorageInv, ValidShares, SharesDisjoint, Registered
<1> QED
    BY <1>1, StorageInvariant, PTL

\* remove takes no share from under a run, a scan or a first sync, although a run
\* drops the registry lock before it loads its shares and a scan never takes it.
THEOREM SharesStay == Spec => []WorkedOnStays
<1>1. StorageInv => WorkedOnStays
    <2> SUFFICES ASSUME StorageInv, NEW p \in Process, InUse(p), NEW s \in proc[p].shares
                 PROVE  s \in Registered
        BY DEF WorkedOnStays
    <2>1. Working(proc[p])
        BY DEF InUse, Working
    <2>2. stored[s].files = "all" /\ s \in Share
        BY <2>1, Known DEF ValidProc
    <2> QED
        BY <2>2 DEF Registered
<1> QED
    BY <1>1, StorageInvariant, PTL

\* load_or_create gives every process of a device the same identity, the saved one.
THEOREM IdentityShared == Spec => []OneIdentity
<1>1. StorageInv => OneIdentity
    BY DEF StorageInv, ProcsValid, ValidProc, Identified, OneIdentity
<1> QED
    BY <1>1, StorageInvariant, PTL

\* assess_runtime shows a share as active only while the process that its status
\* names holds its lock and runs or syncs it.
THEOREM ActiveOwned == Spec => []ActiveIsOwned
<1>1. StorageInv => ActiveIsOwned
    <2> SUFFICES ASSUME StorageInv, NEW s \in Share, Active(s)
                 PROVE  \E p \in Process : /\ stored[s].process_id = p /\ HoldsShare(p, s)
                                           /\ proc[p].at \in {"running", "syncing"}
        BY DEF ActiveIsOwned
    <2>1. stored[s].process_id \in Process
        BY DEF Active, StorageInv, ValidShares, Stored
    <2> DEFINE p == stored[s].process_id
    <2>2. s \in proc[p].shares /\ proc[p].at \in {"running", "syncing"} /\ Consistent(proc[p])
        BY <2>1 DEF StorageInv, Owned, ProcsValid, ValidProc
    <2>3. HoldsShare(p, s)
        BY <2>2 DEF HoldsShare, Consistent
    <2> QED
        BY <2>1, <2>2, <2>3
<1> QED
    BY <1>1, StorageInvariant, PTL
=============================================================================
