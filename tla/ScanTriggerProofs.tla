------------------------- MODULE ScanTriggerProofs -------------------------
(***************************************************************************)
(* ChangesStayNoticed, proved for all intervals and any number of changes, *)
(* lost events and failures.                                               *)
(***************************************************************************)
EXTENDS ScanTrigger, TLAPS

\* Zenon proves a leaf unless the leaf cites SMT.
USE ZenonT(60)

\* A change made while a scan runs is marked too, so that a scan which has not
\* seen it leaves the share dirty: the flag is cleared before anything is read.
LateNoticed ==
  worker = "scanning" /\ late /\ watcher_active /\ ~event /\ ~missed => scan_dirty

\* The inductive invariant.
NoticedInv ==
  /\ scan_dirty \in BOOLEAN /\ watcher_active \in BOOLEAN /\ event \in BOOLEAN
  /\ unscanned \in BOOLEAN /\ late \in BOOLEAN /\ missed \in BOOLEAN
  /\ LateNoticed /\ ChangesStayNoticed

LEMMA NoticedInit == Init => NoticedInv
BY DEF Init, NoticedInv, LateNoticed, ChangesStayNoticed

LEMMA NoticedStep == NoticedInv /\ [Next]_vars => NoticedInv'
<1> SUFFICES ASSUME NoticedInv, [Next]_vars PROVE NoticedInv'
  OBVIOUS
<1> USE DEF NoticedInv, LateNoticed, ChangesStayNoticed
\* Steps that change neither the directory nor what is known of it.
<1>1. CASE Wake \/ WokenBySession \/ Forward \/ Tick \/ UNCHANGED vars
  BY <1>1, SMTT(30) DEF Wake, WokenBySession, Forward, Tick, vars, wakeVars, diskVars
<1>2. CASE BeginScan
  BY <1>2 DEF BeginScan
\* What the scan has not seen came late, and its event marked the share again.
<1>3. CASE ScanSucceeds
  <2>1. /\ worker = "scanning" /\ worker' = "waiting"
        /\ unscanned' \in {FALSE, late} /\ missed' = (missed /\ unscanned')
        /\ scan_dirty' = scan_dirty /\ watcher_active' = watcher_active /\ event' = event /\ late' = late
    BY <1>3 DEF ScanSucceeds, Scanned
  <2>2. CASE unscanned' = FALSE
    BY <2>1, <2>2
  <2>3. CASE unscanned' = late
    BY <2>1, <2>3
  <2> QED
    BY <2>1, <2>2, <2>3
<1>4. CASE ScanFails
  BY <1>4 DEF ScanFails, Scanned
<1>5. CASE Edit
  BY <1>5 DEF Edit
<1>6. CASE LoseEvent
  BY <1>6 DEF LoseEvent
<1>7. ASSUME NEW unreliable \in BOOLEAN, Watch(unreliable) PROVE NoticedInv'
  <2>1. /\ scan_dirty' = TRUE /\ event' = FALSE /\ watcher_active' = (watcher_active /\ ~unreliable)
        /\ unscanned' = unscanned /\ late' = late /\ missed' = missed
    BY <1>7 DEF Watch
  <2> QED
    BY <2>1
<1>8. CASE CompleteJoin
  <2>1. /\ worker' = worker /\ unscanned' \in {FALSE, unscanned}
        /\ scan_dirty' = scan_dirty /\ watcher_active' = watcher_active
        /\ event' = event /\ late' = late /\ missed' = missed
    BY <1>8 DEF CompleteJoin
  <2>2. CASE unscanned' = FALSE
    BY <2>1, <2>2
  <2>3. CASE unscanned' = unscanned
    BY <2>1, <2>3
  <2> QED
    BY <2>1, <2>2, <2>3
<1> HIDE DEF NoticedInv
<1> QED
  BY <1>1, <1>2, <1>3, <1>4, <1>5, <1>6, <1>7, <1>8 DEF Next

\* However edits, events, scans and failures interleave, scan_active_share leaves
\* a share dirty, or under a scan, as long as the manifest lacks a change whose
\* event the watcher has got.
THEOREM ChangesNoticed == Spec => []ChangesStayNoticed
<1>1. NoticedInv => ChangesStayNoticed
  BY DEF NoticedInv
<1> QED
  BY <1>1, NoticedInit, NoticedStep, PTL DEF Spec
=============================================================================
