---------------------------- MODULE ScanTrigger ----------------------------
(***************************************************************************)
(* What makes the worker of a share scan: the file watcher marks the share *)
(* dirty and wakes it, an interval wakes it anyway, and a scan is due some *)
(* time after the last one, later if the watcher can be relied on.  A scan *)
(* reads the directory while the user goes on changing it.                 *)
(* Time passes in units of which SyncInterval is a small number; an        *)
(* instant is kept as the time left until it or since it.                  *)
(***************************************************************************)
EXTENDS Integers

CONSTANTS SyncInterval, FullScanInterval,   \* SYNC_INTERVAL, FULL_SCAN_INTERVAL
          MaxEdits,            \* how often a user changes the directory
          MaxFaults            \* how many scans and file events fail

ASSUME IntervalsAssumption ==
  SyncInterval \in Nat \ {0} /\ FullScanInterval \in Nat /\ SyncInterval <= FullScanInterval
ASSUME BoundsAssumption == MaxEdits \in Nat /\ MaxFaults \in Nat

VARIABLES worker,      \* where the worker task is
          complete,    \* initial_sync_complete
          interval,    \* the time left until the worker's interval ticks
          last_scan,   \* the time since the last scan, FullScanInterval if longer or none
          scan_dirty, watcher_active,
          scan_notify, wakeup,   \* Notify permits: to run_share_workers, to the worker
          event,       \* a file event is on its way to the watcher
          unscanned,   \* the manifest lacks a change the user made
          late,        \* a change was made since the scan under way began
          missed,      \* an event was lost since the last scan that saw all
          edits, faults

wakeVars == <<interval, scan_notify, wakeup>>
diskVars == <<event, unscanned, late, missed, edits>>
vars == <<worker, complete, last_scan, scan_dirty, watcher_active, faults, wakeVars, diskVars>>

\* A share that has just been loaded; start_watchers may have failed.
Init ==
  /\ worker = "waiting" /\ complete \in BOOLEAN
  /\ interval = 0 /\ last_scan = FullScanInterval
  /\ scan_dirty = TRUE /\ watcher_active \in BOOLEAN
  /\ scan_notify = FALSE /\ wakeup = FALSE
  /\ event = FALSE /\ unscanned \in BOOLEAN /\ late = FALSE /\ missed = FALSE
  /\ edits = 0 /\ faults = 0

-----------------------------------------------------------------------------
(* The worker                                                              *)

\* The worker's interval ticks, or it is notified.
Wake ==
  /\ worker = "waiting"
  /\ \/ interval = 0 /\ interval' \in 1..SyncInterval /\ UNCHANGED wakeup
     \/ interval > 0 /\ wakeup /\ wakeup' = FALSE /\ UNCHANGED interval
  /\ worker' = "awake"
  /\ UNCHANGED <<complete, last_scan, scan_dirty, watcher_active, faults, scan_notify, diskVars>>

\* A session of the share ends, which wakes the worker too.
WokenBySession ==
  /\ worker = "waiting"
  /\ worker' = "awake"
  /\ UNCHANGED <<complete, last_scan, scan_dirty, watcher_active, faults, wakeVars, diskVars>>

\* Variant of scan_due: a watched directory is scanned only when it is dirty.
scan_due_if_dirty == last_scan >= SyncInterval /\ (scan_dirty \/ ~watcher_active)

scan_due ==
  \/ scan_dirty /\ last_scan >= SyncInterval
  \/ last_scan >= IF watcher_active THEN FullScanInterval ELSE SyncInterval

\* scan_active_share up to the scan.  The flag is cleared before anything is read.
\* When no scan is due the worker turns to its peers and waits again.
BeginScan ==
  /\ worker = "awake"
  /\ IF complete /\ scan_due
     THEN worker' = "scanning" /\ scan_dirty' = FALSE /\ late' = FALSE
     ELSE worker' = "waiting" /\ UNCHANGED <<scan_dirty, late>>
  /\ UNCHANGED <<complete, last_scan, watcher_active, faults, event, unscanned, missed, edits, wakeVars>>

\* What a scan saves: a change made while it runs is seen or not.
Scanned == unscanned' \in {FALSE, late} /\ missed' = (missed /\ unscanned')

\* Variant of ScanSucceeds: the flag is cleared when the scan is over.
ScanSucceedsClearing ==
  /\ worker = "scanning" /\ worker' = "waiting"
  /\ Scanned /\ scan_dirty' = FALSE
  /\ last_scan' = 0 /\ interval' = SyncInterval
  /\ UNCHANGED <<complete, watcher_active, faults, scan_notify, wakeup, event, late, edits>>

ScanSucceeds ==
  /\ worker = "scanning" /\ worker' = "waiting"
  /\ Scanned
  /\ last_scan' = 0 /\ interval' = SyncInterval
  /\ UNCHANGED <<complete, scan_dirty, watcher_active, faults, scan_notify, wakeup, event, late, edits>>

\* The scan fails before it saves anything, or after it saved the manifest.
ScanFails ==
  /\ worker = "scanning" /\ worker' = "waiting"
  /\ faults < MaxFaults /\ faults' = faults + 1
  /\ scan_dirty' = TRUE
  /\ Scanned \/ UNCHANGED <<unscanned, missed>>
  /\ UNCHANGED <<complete, last_scan, watcher_active, wakeVars, event, late, edits>>

-----------------------------------------------------------------------------
(* The user, the watcher and the other tasks                               *)

\* The user changes the directory; without a reliable watcher there may be no event.
Edit ==
  /\ edits < MaxEdits /\ edits' = edits + 1
  /\ unscanned' = TRUE /\ late' = TRUE
  /\ event' = TRUE \/ (~watcher_active /\ UNCHANGED event)
  /\ UNCHANGED <<worker, complete, last_scan, scan_dirty, watcher_active, faults, missed, wakeVars>>

\* The watcher's callback; an error or a lost batch of events makes it unreliable.
Watch(unreliable) ==
  /\ event /\ event' = FALSE
  /\ unreliable => faults < MaxFaults
  /\ faults' = IF unreliable THEN faults + 1 ELSE faults
  /\ watcher_active' = (watcher_active /\ ~unreliable)
  /\ scan_dirty' = TRUE
  /\ scan_notify' = (scan_notify \/ ~scan_dirty)
  /\ UNCHANGED <<worker, complete, last_scan, unscanned, late, missed, edits, interval, wakeup>>

\* The system drops an event without telling.
LoseEvent ==
  /\ event /\ event' = FALSE
  /\ faults < MaxFaults /\ faults' = faults + 1
  /\ missed' = TRUE
  /\ UNCHANGED <<worker, complete, last_scan, scan_dirty, watcher_active, unscanned, late, edits, wakeVars>>

\* run_share_workers passes a notification on to the workers.
Forward ==
  /\ scan_notify /\ scan_notify' = FALSE /\ wakeup' = TRUE
  /\ UNCHANGED <<worker, complete, last_scan, scan_dirty, watcher_active, faults, interval, diskVars>>

\* A session ends the initial sync of the share, with a scan of its own
\* that may fail.
CompleteJoin ==
  /\ ~complete /\ worker # "scanning"
  /\ complete' = TRUE
  /\ unscanned' \in {FALSE, unscanned}
  /\ UNCHANGED <<worker, last_scan, scan_dirty, watcher_active, faults, event, late, missed, edits, wakeVars>>

Tick ==
  /\ interval' = IF interval > 0 THEN interval - 1 ELSE 0
  /\ last_scan' = IF last_scan < FullScanInterval THEN last_scan + 1 ELSE last_scan
  /\ UNCHANGED <<worker, complete, scan_dirty, watcher_active, faults, scan_notify, wakeup, diskVars>>

Next ==
  \/ Wake \/ WokenBySession \/ BeginScan \/ ScanSucceeds \/ ScanFails
  \/ Edit \/ LoseEvent \/ \E unreliable \in BOOLEAN : Watch(unreliable)
  \/ Forward \/ CompleteJoin \/ Tick

Spec == Init /\ [][Next]_vars

\* The runtime keeps running a task that is ready, permits and locks are granted in
\* turn, scans end, and time passes.
Fairness == WF_vars(Wake) /\ WF_vars(BeginScan) /\ WF_vars(ScanSucceeds) /\ WF_vars(Tick)

FairSpec == Spec /\ Fairness

-----------------------------------------------------------------------------
\* A change whose event the watcher has got is in the manifest, or under the scan
\* that is running, or the share is marked dirty: an event during a scan, and a
\* scan that fails, do not leave it to the next full scan.
ChangesStayNoticed ==
  watcher_active /\ unscanned /\ ~event /\ ~missed => scan_dirty \/ worker = "scanning"

\* A change is scanned in the end, even if its event is lost, once the initial
\* sync is complete.
ChangesScanned == unscanned /\ complete ~> ~unscanned
=============================================================================
