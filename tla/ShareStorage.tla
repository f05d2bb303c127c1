---------------------------- MODULE ShareStorage ----------------------------
(***************************************************************************)
(* The commands of the syncbox program on one device, run by several       *)
(* processes over one data directory: init, join, run, remove, scan and    *)
(* status (app/mod.rs) with the registration of shares (storage/mod.rs),   *)
(* the lock files they take, the device identity and the runtime status    *)
(* that status reports.  What run does between its start and its end is    *)
(* PeerSessions; the files of a share are ShareSync's.                     *)
(*                                                                         *)
(* A process may be killed at any step.  The operating system then drops   *)
(* its locks, so a lock is held exactly while its owner is at certain      *)
(* places of its command; what it has written stays.  A step ends where    *)
(* another process could see a difference: at a wait for a lock and at the *)
(* rename or write that changes what is visible.                           *)
(***************************************************************************)
EXTENDS Naturals

CONSTANTS
    Process,    \* processes that may run at the same time
    Share,      \* share identifiers
    Directory,  \* local directories
    Overlaps    \* pairs of directories of which one contains the other

ASSUME OverlapsAssumption ==
    /\ Overlaps \subseteq Directory \X Directory
    /\ \A d, e \in Directory : <<d, e>> \in Overlaps => <<e, d>> \in Overlaps
    /\ \A d \in Directory : <<d, d>> \in Overlaps

Nothing == "nothing"   \* no directory, no share, no identity, no process identifier
Ended == "ended"       \* the process identifier of a process that is gone

ASSUME NamesAssumption == {Nothing, Ended} \cap Process = {} /\ Nothing \notin Directory

VARIABLES
    stored,   \* the directory of each share under shares/
    key,      \* the saved device identity
    proc      \* the command of each process and how far it is

vars == <<stored, key, proc>>

NoShare == [files |-> "none", directory |-> Nothing, process_id |-> Nothing]

\* files: how many of the state files are there; directory is in the configuration,
\* process_id in the runtime status.
Stored == [files : {"none", "some", "all"}, directory : Directory \cup {Nothing},
           process_id : Process \cup {Nothing, Ended}]

Idle == [command |-> "none", at |-> "none", shares |-> {}, directory |-> Nothing, key |-> Nothing]

Command == {"init", "join", "handoff", "run", "remove", "scan", "status"}

Place == {"registry", "identity", "key", "staging", "staged", "share", "start",
          "running", "removing", "saving", "syncing", "probing"}

\* list_share_ids: the share directories that exist.
Registered == {s \in Share : stored[s].files # "none"}

-----------------------------------------------------------------------------
(* Locks                                                                   *)

\* Variant of HoldsRegistry: run keeps the lock while it runs.
HoldsRegistryWhileRunning(p) ==
    \/ proc[p].command \in {"init", "join"} /\ proc[p].at \in {"identity", "key", "staging", "staged"}
    \/ proc[p].command = "run" /\ proc[p].at # "registry"
    \/ proc[p].at \in {"removing", "syncing"}

HoldsRegistry(p) ==
    \/ proc[p].command \in {"init", "join"} /\ proc[p].at \in {"identity", "key", "staging", "staged"}
    \/ proc[p].at \in {"removing", "syncing"}

HoldsDevice(p) ==
    \/ proc[p].command = "run" /\ proc[p].at # "registry"
    \/ proc[p].at = "syncing"

HoldsShare(p, s) ==
    /\ s \in proc[p].shares
    /\ \/ proc[p].command = "run" /\ proc[p].at # "registry"
       \/ proc[p].command = "scan" /\ proc[p].at # "share"
       \/ proc[p].at \in {"removing", "syncing", "probing"}

HoldsIdentity(p) == proc[p].at = "key"

RegistryFree == \A p \in Process : ~HoldsRegistry(p)
DeviceFree == \A p \in Process : ~HoldsDevice(p)
ShareFree(s) == \A p \in Process : ~HoldsShare(p, s)
IdentityFree == \A p \in Process : ~HoldsIdentity(p)

-----------------------------------------------------------------------------
(* Writing state files                                                     *)

\* A write creates the directory of a share that is not there.
Saved(st) == IF st.files = "none" THEN [st EXCEPT !.files = "some"] ELSE st

\* RuntimeStatusCache::update by process p: only a status without a process gets
\* one.  The cached status is the saved one, since only the holder of the share's
\* lock writes it.
Updated(st, p) == [Saved(st) EXCEPT !.process_id = IF @ = Nothing THEN p ELSE @]

\* set_stopped
Stopped(st) == [Saved(st) EXCEPT !.process_id = Nothing]

\* A process is gone: its identifier names no process any more.
Outlived(sts, p) ==
    [s \in Share |-> IF sts[s].process_id = p THEN [sts[s] EXCEPT !.process_id = Ended] ELSE sts[s]]

\* The shares of p's command become what `to` says, the others stay.
OnShares(p, to) == [s \in Share |-> IF s \in proc[p].shares THEN to[s] ELSE stored[s]]

\* Process p ends and leaves the shares as sts.
Exit(p, sts) ==
    /\ proc' = [proc EXCEPT ![p] = Idle]
    /\ stored' = Outlived(sts, p)

Goto(p, place) == proc' = [proc EXCEPT ![p].at = place]

Init ==
    /\ stored = [s \in Share |-> NoShare]
    /\ key = Nothing
    /\ proc = [p \in Process |-> Idle]

-----------------------------------------------------------------------------
(* init and join                                                           *)

Begin(p, command, place, shares, d) ==
    /\ proc[p] = Idle
    /\ proc' = [proc EXCEPT ![p] = [Idle EXCEPT !.command = command, !.at = place,
                                                !.shares = shares, !.directory = d]]
    /\ UNCHANGED <<stored, key>>

\* The share of an init is drawn later; of a join it is the ticket's.
StartInit(p, d) == Begin(p, "init", "registry", {}, d)
StartJoin(p, s, d) == Begin(p, "join", "registry", {s}, d)

\* find_share_for_directory
FindShareForDirectory(d) == {s \in Registered : <<stored[s].directory, d>> \in Overlaps}

\* Variant of Register: without the registry lock.
RegisterUnlocked(p) ==
    /\ proc[p].command \in {"init", "join"} /\ proc[p].at = "registry"
    /\ IF FindShareForDirectory(proc[p].directory) # {} \/ proc[p].shares \cap Registered # {}
       THEN Exit(p, stored)
       ELSE Goto(p, "identity") /\ UNCHANGED stored
    /\ UNCHANGED key

\* The registry lock is granted.  A directory that overlaps a registered one, and
\* a share that is registered already, is an error.
Register(p) ==
    /\ proc[p].command \in {"init", "join"} /\ proc[p].at = "registry"
    /\ RegistryFree
    /\ IF FindShareForDirectory(proc[p].directory) # {} \/ proc[p].shares \cap Registered # {}
       THEN Exit(p, stored)
       ELSE Goto(p, "identity") /\ UNCHANGED stored
    /\ UNCHANGED key

\* Variant of Stage: the state files are written in place.
StageInPlace(p) ==
    /\ proc[p].at = "staging"
    /\ \E s \in IF proc[p].command = "init" THEN Share \ Registered ELSE proc[p].shares :
        /\ proc' = [proc EXCEPT ![p].shares = {s}, ![p].at = "staged"]
        /\ stored' = [stored EXCEPT ![s].files = "some"]
    /\ UNCHANGED key

\* The share of an init is new_unused_share_identity.  create_share_state writes
\* the state files to a staging directory, which no listing shows.
Stage(p) ==
    /\ proc[p].at = "staging"
    /\ \E s \in IF proc[p].command = "init" THEN Share \ Registered ELSE proc[p].shares :
        proc' = [proc EXCEPT ![p].shares = {s}, ![p].at = "staged"]
    /\ UNCHANGED <<stored, key>>

\* create_share_state renames the staging directory.  init ends there;
\* join goes on to the first sync.
Publish(p) ==
    /\ proc[p].at = "staged"
    /\ \E s \in proc[p].shares :
        LET published == [stored EXCEPT ![s] = [NoShare EXCEPT !.files = "all",
                                                               !.directory = proc[p].directory]]
        IN  IF proc[p].command = "init"
            THEN Exit(p, published)
            ELSE /\ stored' = published
                 /\ proc' = [proc EXCEPT ![p].command = "handoff", ![p].at = "identity",
                                         ![p].key = Nothing]
    /\ UNCHANGED key

\* attempt_initial_sync: the registry lock is granted.  It ends well, without a
\* sync, when another process holds the lock of the device or the share, and with
\* an error when the share is not there any more.
Attempt(p) ==
    /\ proc[p].command = "handoff" /\ proc[p].at = "registry"
    /\ RegistryFree
    /\ IF DeviceFree /\ \A s \in proc[p].shares : ShareFree(s) /\ stored[s].files = "all"
       THEN /\ Goto(p, "syncing")
            /\ stored' = OnShares(p, [s \in Share |-> Updated(stored[s], p)])
       ELSE Exit(p, stored)
    /\ UNCHANGED key

\* The first sync is over, with or without having completed, or it failed.
Synced(p) ==
    /\ proc[p].at = "syncing"
    /\ Exit(p, OnShares(p, [s \in Share |-> Stopped(stored[s])]))
    /\ UNCHANGED key

-----------------------------------------------------------------------------
(* The device identity                                                     *)

\* load_or_create: the identity lock is granted, and the key is read, or made.  A
\* key that a process makes is named after it.
LoadIdentity(p) ==
    /\ proc[p].at = "identity"
    /\ IdentityFree
    /\ proc' = [proc EXCEPT ![p].at = "key", ![p].key = IF key = Nothing THEN p ELSE key]
    /\ UNCHANGED <<stored, key>>

AfterIdentity(command) ==
    CASE command \in {"init", "join"} -> "staging"
      [] command = "handoff" -> "registry"
      [] command = "run" -> "start"
      [] OTHER -> "saving"

\* Variant of SaveIdentity: a new key is not saved.
SaveIdentityLost(p) ==
    /\ proc[p].at = "key"
    /\ Goto(p, AfterIdentity(proc[p].command))
    /\ UNCHANGED <<stored, key>>

\* A new key is saved and the identity lock is dropped.
SaveIdentity(p) ==
    /\ proc[p].at = "key"
    /\ key' = proc[p].key
    /\ Goto(p, AfterIdentity(proc[p].command))
    /\ UNCHANGED stored

-----------------------------------------------------------------------------
(* run                                                                     *)

\* For one share or for all of them.
StartRun(p, shares) == Begin(p, "run", "registry", shares, Nothing)

\* The registry lock is granted and dropped again once the locks of the device
\* and of the shares are taken.  A lock that is taken is an error, as is a share
\* that is not there; with no share there is nothing to do.
Acquire(p) ==
    LET shares == IF proc[p].shares = {} THEN Registered ELSE proc[p].shares
    IN  /\ proc[p].command = "run" /\ proc[p].at = "registry"
        /\ RegistryFree
        /\ IF /\ DeviceFree /\ shares # {}
              /\ \A s \in shares : ShareFree(s) /\ stored[s].files = "all"
           THEN proc' = [proc EXCEPT ![p].at = "identity", ![p].shares = shares] /\ UNCHANGED stored
           ELSE Exit(p, stored)
        /\ UNCHANGED key

\* network::run loads the shares, says that they are starting, and binds the
\* endpoint.  When that fails the status keeps the process identifier.
Start(p) ==
    LET starting == OnShares(p, [s \in Share |-> Updated(stored[s], p)])
    IN  /\ proc[p].at = "start"
        /\ IF \A s \in proc[p].shares : stored[s].files = "all"
           THEN \/ Goto(p, "running") /\ stored' = starting
                \/ Exit(p, starting)
           ELSE Exit(p, stored)
        /\ UNCHANGED key

\* A heartbeat, or a save of the manifest, the clock or the configuration.
Work(p, s) ==
    /\ proc[p].at = "running" /\ s \in proc[p].shares
    /\ stored' = [stored EXCEPT ![s] = Updated(@, p)]
    /\ UNCHANGED <<key, proc>>

\* run ends after a signal or a failure of its cycles.
Shutdown(p) ==
    /\ proc[p].at = "running"
    /\ Exit(p, OnShares(p, [s \in Share |-> Stopped(stored[s])]))
    /\ UNCHANGED key

-----------------------------------------------------------------------------
(* remove, scan and status                                                 *)

StartRemove(p, s) == Begin(p, "remove", "registry", {s}, Nothing)

\* Variant of LockRemoved: the lock of the share is not looked at.
LockRemovedRegardless(p) ==
    /\ proc[p].command = "remove" /\ proc[p].at = "registry"
    /\ RegistryFree
    /\ IF proc[p].shares \subseteq Registered
       THEN Goto(p, "removing") /\ UNCHANGED stored
       ELSE Exit(p, stored)
    /\ UNCHANGED key

\* The registry lock is granted; a share that is not there or in use is an error.
LockRemoved(p) ==
    /\ proc[p].command = "remove" /\ proc[p].at = "registry"
    /\ RegistryFree
    /\ IF proc[p].shares \subseteq Registered /\ \A s \in proc[p].shares : ShareFree(s)
       THEN Goto(p, "removing") /\ UNCHANGED stored
       ELSE Exit(p, stored)
    /\ UNCHANGED key

\* remove_share_state renames the share directory to a name that no listing shows
\* before it deletes it.
Remove(p) ==
    /\ proc[p].at = "removing"
    /\ Exit(p, OnShares(p, [s \in Share |-> NoShare]))
    /\ UNCHANGED key

\* scan finds the share without the registry lock.
StartScan(p, s) == s \in Registered /\ Begin(p, "scan", "share", {s}, Nothing)

\* The lock of the share is taken and its configuration loaded.  A lock that is
\* taken is an error, as is a share that is not there, or, as Fail has it, one that
\* has not completed its first sync.
LockScanned(p) ==
    /\ proc[p].command = "scan" /\ proc[p].at = "share"
    /\ IF \A s \in proc[p].shares : ShareFree(s) /\ stored[s].files = "all"
       THEN Goto(p, "identity") /\ UNCHANGED stored
       ELSE Exit(p, stored)
    /\ UNCHANGED key

\* The clock, the manifest and the runtime status are saved.
SaveScanned(p) ==
    /\ proc[p].at = "saving"
    /\ Exit(p, OnShares(p, [s \in Share |-> Saved(stored[s])]))
    /\ UNCHANGED key

\* status asks whether the lock of a share is held by taking it for a moment.
Probe(p, s) == s \in Registered /\ ShareFree(s) /\ Begin(p, "status", "probing", {s}, Nothing)

Probed(p) ==
    /\ proc[p].at = "probing"
    /\ Exit(p, stored)
    /\ UNCHANGED key

-----------------------------------------------------------------------------
\* The process is killed, or a read or write fails: what it has written stays.
\* What it wrote to a staging directory is ignored or removed.
Fail(p) ==
    /\ proc[p] # Idle
    /\ Exit(p, stored)
    /\ UNCHANGED key

Begins(p) ==
    \/ \E d \in Directory : StartInit(p, d) \/ \E s \in Share : StartJoin(p, s, d)
    \/ StartRun(p, {}) \/ \E s \in Share : StartRun(p, {s})
    \/ \E s \in Share : StartRemove(p, s) \/ StartScan(p, s) \/ Probe(p, s)

\* The steps of a command that has begun, but for the end of a run.
Proceed(p) ==
    \/ Register(p) \/ Stage(p) \/ Publish(p) \/ Attempt(p) \/ Synced(p)
    \/ LoadIdentity(p) \/ SaveIdentity(p)
    \/ Acquire(p) \/ Start(p)
    \/ LockRemoved(p) \/ Remove(p) \/ LockScanned(p) \/ SaveScanned(p) \/ Probed(p)

Next ==
    \/ \E p \in Process : Begins(p) \/ Proceed(p) \/ Shutdown(p) \/ Fail(p)
    \/ \E p \in Process, s \in Share : Work(p, s)

Spec == Init /\ [][Next]_vars

\* Processes run, and the operating system does not pass over one waiter for a
\* lock file for ever.  A run need not end.
Fairness == \A p \in Process : SF_vars(Proceed(p))

FairSpec == Spec /\ Fairness

-----------------------------------------------------------------------------
(* Properties                                                              *)

\* The type of every variable.
TypeOK ==
    /\ stored \in [Share -> Stored]
    /\ key \in Process \cup {Nothing}
    /\ proc \in [Process -> [command : Command \cup {"none"}, at : Place \cup {"none"},
                             shares : SUBSET Share, directory : Directory \cup {Nothing},
                             key : Process \cup {Nothing}]]

\* A share that a listing shows has all of its state files, whatever process was
\* killed while it registered, removed, scanned or ran it: create_share_state
\* publishes by a rename, and no write of a run or a scan comes after a removal.
RegisteredWhole == \A s \in Registered : stored[s].files = "all"

\* Two registered shares never have directories of which one contains the other:
\* no init or join comes between the search of another one and its publication.
SharesDisjoint ==
    \A s, t \in Registered : s # t => <<stored[s].directory, stored[t].directory>> \notin Overlaps

\* The share that a run, a scan or a first sync works on stays registered until it
\* is done, although a scan finds it without the registry lock and a run drops that
\* lock before it loads it.
InUse(p) == \/ proc[p].command = "run" /\ proc[p].at # "registry"
            \/ proc[p].command = "scan" /\ proc[p].at # "share"
            \/ proc[p].at = "syncing"

WorkedOnStays == \A p \in Process : InUse(p) => proc[p].shares \subseteq Registered

\* Every process that has its identity has the one that is saved: two that start
\* on a new device never make one each.
OneIdentity ==
    \A p \in Process : proc[p].at \in {"staging", "staged", "saving", "start", "running", "syncing"}
                          => proc[p].key = key

\* Variant of Active: the process is not looked for.
ActiveUnlessStopped(s) == ~ShareFree(s) /\ stored[s].process_id # Nothing

\* assess_runtime, for a status with a recent heartbeat.
Active(s) == ~ShareFree(s) /\ stored[s].process_id \notin {Nothing, Ended}

\* A share that status shows as active is owned by a process that runs or syncs it,
\* the one in its status: a killed run is not taken for a live one, also while a
\* scan or another status has the lock of the share.
ActiveIsOwned ==
    \A s \in Share : Active(s) =>
        \E p \in Process : /\ stored[s].process_id = p /\ HoldsShare(p, s)
                           /\ proc[p].at \in {"running", "syncing"}

\* Every command comes to its end, or to the running state of run: the locks of
\* the registry, the identity, the device and the shares never wait for each other.
CommandsEnd == \A p \in Process : []<>(proc[p].at \in {"none", "running"})
=============================================================================
