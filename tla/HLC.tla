-------------------------------- MODULE HLC --------------------------------
(***************************************************************************)
(* The hybrid logical clock that versions every manifest record: the order *)
(* of HlcTimestamp and the two operations of ClockState.  A clock is       *)
(* persisted per share and per device.  A counter is a u32 and both        *)
(* operations use checked_add, so a step past MaxCounter is an error: the  *)
(* operators below give the result of a successful step, and their callers *)
(* guard on the counters staying within 0..MaxCounter.                     *)
(***************************************************************************)
EXTENDS Integers

CONSTANTS Device,      \* endpoint identifiers, ordered as the authors are
          MaxCounter   \* u32::MAX

ASSUME DeviceAssumption == Device \subseteq Nat \ {0}
ASSUME MaxCounterAssumption == MaxCounter \in Nat

Clock == [last_wall_ms : Nat, last_counter : 0..MaxCounter]
NewClock == [last_wall_ms |-> 0, last_counter |-> 0]

Version == [wall_ms : Nat, counter : 0..MaxCounter, author : Device]

\* Variant of VersionLess: authors do not break ties.
VersionLessUnsigned(a, b) ==
  a.wall_ms < b.wall_ms \/ (a.wall_ms = b.wall_ms /\ a.counter < b.counter)

\* Lexicographic on (wall_ms, counter, author), as derived for HlcTimestamp.
VersionLess(a, b) ==
  \/ a.wall_ms < b.wall_ms
  \/ a.wall_ms = b.wall_ms /\ a.counter < b.counter
  \/ a.wall_ms = b.wall_ms /\ a.counter = b.counter /\ a.author < b.author

tick(c, now) ==
  IF now > c.last_wall_ms
  THEN [last_wall_ms |-> now, last_counter |-> 0]
  ELSE [c EXCEPT !.last_counter = @ + 1]

\* Variant of VersionAt: every device signs with the same author.
VersionAtUnsigned(c, d) ==
  [wall_ms |-> c.last_wall_ms, counter |-> c.last_counter, author |-> CHOOSE e \in Device : TRUE]

VersionAt(c, d) ==
  [wall_ms |-> c.last_wall_ms, counter |-> c.last_counter, author |-> d]

observe(c, remote, now) ==
  LET wall == IF c.last_wall_ms >= remote.wall_ms /\ c.last_wall_ms >= now
              THEN c.last_wall_ms
              ELSE IF remote.wall_ms >= now THEN remote.wall_ms ELSE now
      atLocal == wall = c.last_wall_ms
      atRemote == wall = remote.wall_ms
      base == IF atLocal /\ atRemote
              THEN IF c.last_counter >= remote.counter
                   THEN c.last_counter ELSE remote.counter
              ELSE IF atLocal THEN c.last_counter
              ELSE remote.counter
  IN  [last_wall_ms |-> wall,
       last_counter |-> IF atLocal \/ atRemote THEN base + 1 ELSE 0]

-----------------------------------------------------------------------------
(* A scan ticks once per changed path and an apply observes once per       *)
(* record, all with the same reading of the wall clock.  The next two      *)
(* operators are those loops in closed form: TickLoop and ObserveLoop of   *)
(* ShareSyncProofs show that each further step of a loop is one of tick or *)
(* observe.                                                                *)

\* The clock after n ticks.
TickTimes(c, now, n) ==
  IF n = 0 THEN c
  ELSE IF now > c.last_wall_ms
       THEN [last_wall_ms |-> now, last_counter |-> n - 1]
       ELSE [c EXCEPT !.last_counter = @ + n]

Greatest(S) == {x \in S : \A y \in S : y <= x}

\* The clock after observing a finite set R of <<version, last>> pairs, where
\* last is how many observations are left when that version's turn comes, its
\* own included.  A counter seen at the final wall time grows by one with every
\* observation still to come.  The set has one member unless R is infinite.
ObserveAll(c, now, R, n) ==
  LET walls == {c.last_wall_ms, now} \cup {r[1].wall_ms : r \in R}
      counters(w) ==
        {r[1].counter + r[2] : r \in {t \in R : t[1].wall_ms = w}}
          \cup (IF c.last_wall_ms = w THEN {c.last_counter + n}
                ELSE IF now = w THEN {n - 1} ELSE {})
  IN  IF n = 0 THEN {c}
      ELSE UNION {{[last_wall_ms |-> w, last_counter |-> k] :
                     k \in Greatest(counters(w))} : w \in Greatest(walls)}
=============================================================================
