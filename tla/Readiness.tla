------------------------------- MODULE Readiness -------------------------------
(***************************************************************************)
(* What GET /health/ready says of the two loops of a process: the recovery *)
(* scan and the storage deletion batch.  Loops run at intervals, tell      *)
(* their state objects when a round starts and how it ends, and readiness  *)
(* compares those times with the clock.                                    *)
(*                                                                         *)
(* Time is counted in ticks.  The event loop is prompt: a round that is    *)
(* due begins before the next tick.  How long a round takes is open.       *)
(***************************************************************************)
EXTENDS Integers

CONSTANTS
  Interval,   \* [Loops -> job_recovery_interval_seconds, storage_deletion_interval_seconds]
  Stale,      \* [Loops -> job_recovery_scan_stale_after_seconds, storage_deletion_lease_seconds]
  ClockEnd,   \* bound on the clock
  FailureCap  \* bound: consecutive failures are counted up to here

Loops == {"recovery", "deletion"}

ASSUME PaceAssumption ==
  /\ Interval \in [Loops -> Nat \ {0}] /\ Stale \in [Loops -> Nat \ {0}]
  /\ ClockEnd \in Nat /\ FailureCap \in Nat \ {0}

VARIABLES
  clock,
  loops      \* [Loops -> the task of the loop and its state object]

readyVars == <<clock, loops>>

-----------------------------------------------------------------------------
Never == -1
Time == {Never} \cup Nat

\* alive: the task of the loop runs; waits: when its wait began; started and success:
\* scan_started_at, last_success_at; failed: the last round that claimed rows reported
\* failed ones.
LoopStates == [alive : BOOLEAN, waits : Nat, started : Time, success : Time,
               failures : 0 .. FailureCap, failed : BOOLEAN]

\* storage_deletion_queue_snapshot, and what a request finds of the database.
Backlogs == {"empty", "pending", "failed", "abandoned"}
Databases == {"ready", "saturated", "unavailable"}

Working(l) == loops[l].started # Never
Due(l) == loops[l].alive /\ ~Working(l) /\ clock - loops[l].waits >= Interval[l]
LoopBecomes(l, state) == loops' = [loops EXCEPT ![l] = state]

Tick ==
  /\ clock < ClockEnd /\ \A l \in Loops : ~Due(l)
  /\ clock' = clock + 1
  /\ UNCHANGED loops

\* The wait is over; the deletion loop waits for the next one while its batch runs, and
\* is also woken by requests.
StartRound(l) ==
  /\ loops[l].alive /\ ~Working(l)
  /\ l = "recovery" => Due(l)
  /\ LoopBecomes(l, [loops[l] EXCEPT !.started = clock, !.waits = clock])
  /\ UNCHANGED clock

\* record_success, record_result: a batch that claimed nothing keeps the counts of the
\* one before.
EndRound(l, failed) ==
  /\ Working(l)
  /\ failed = loops[l].failed \/ l = "deletion"
  /\ LoopBecomes(l, [alive |-> loops[l].alive, started |-> Never, success |-> clock,
                     waits |-> IF l = "recovery" THEN clock ELSE loops[l].waits,
                     failures |-> 0, failed |-> failed])
  /\ UNCHANGED clock

\* record_failure: the round raised.
FailRound(l) ==
  /\ Working(l)
  /\ LoopBecomes(l, [loops[l] EXCEPT !.started = Never,
                       !.failures = IF loops[l].failures < FailureCap THEN loops[l].failures + 1
                                    ELSE FailureCap,
                       !.waits = IF l = "recovery" THEN clock ELSE loops[l].waits])
  /\ UNCHANGED clock

\* The task is cancelled: at shutdown, before a scan is over or between scans.
StopTask(l) ==
  /\ loops[l].alive
  /\ LoopBecomes(l, [loops[l] EXCEPT !.alive = FALSE,
                       !.started = IF l = "recovery" THEN Never ELSE loops[l].started])
  /\ UNCHANGED clock

-----------------------------------------------------------------------------
(* readiness_check.                                                        *)

\* Mutant of Freshness: a round, or the wait for it, may take that long.
FreshnessOfOne(l) == IF Interval[l] > Stale[l] THEN Interval[l] ELSE Stale[l]
Freshness(l) == IF Interval[l] * 3 > Stale[l] * 2 THEN Interval[l] * 3 ELSE Stale[l] * 2

Overdue(l) == Working(l) /\ clock - loops[l].started > Stale[l]
SuccessStale(l) == loops[l].success # Never /\ clock - loops[l].success > Freshness(l)

\* The queue is known only when the database could be asked.
QueueTrouble(rows, database) ==
  \/ database = "ready" /\ rows \in {"failed", "abandoned"}
  \/ loops["deletion"].failed /\ (database = "ready" => rows # "empty")

LoopStatus(l, rows, database) ==
  IF ~loops[l].alive THEN "stopped"
  ELSE IF \/ Overdue(l) \/ loops[l].failures > 0 \/ loops[l].success = Never
          \/ l = "deletion" /\ QueueTrouble(rows, database)
          \/ SuccessStale(l)
       THEN "degraded"
       ELSE "ready"

ReadinessCheck(rows, database) ==
  IF database = "ready" /\ \A l \in Loops : LoopStatus(l, rows, database) = "ready"
  THEN "ready" ELSE "not_ready"

-----------------------------------------------------------------------------
\* lifespan: a scan has succeeded, and a batch is running, before requests come.
ReadyInit ==
  /\ clock = 0
  /\ loops = [l \in Loops |->
       [alive |-> TRUE, waits |-> 0, started |-> IF l = "deletion" THEN 0 ELSE Never,
        success |-> IF l = "recovery" THEN 0 ELSE Never, failures |-> 0, failed |-> FALSE]]

ReadyNext ==
  \/ Tick
  \/ \E l \in Loops : \/ StartRound(l) \/ FailRound(l) \/ StopTask(l)
                      \/ \E failed \in BOOLEAN : EndRound(l, failed)

ReadySpec == ReadyInit /\ [][ReadyNext]_readyVars

-----------------------------------------------------------------------------
(* Properties.                                                             *)

\* Types of every variable.
ReadyTypeOK ==
  clock \in Nat /\ loops \in [Loops -> LoopStates]

\* A loop without trouble: it has succeeded, not failed since, and its round, if one
\* runs, is not overdue.
Prompt(l) ==
  /\ loops[l].alive /\ loops[l].success # Never /\ loops[l].failures = 0
  /\ Working(l) => clock - loops[l].started <= Stale[l]

\* A process whose loops do well, and whose deletions do not fail, is ready, whatever the
\* intervals and limits that are configured: freshness_timeout_seconds leaves room for a
\* wait and a round that takes as long as it may.
PromptLoopsReady ==
  (\A l \in Loops : Prompt(l)) =>
    /\ ReadinessCheck("empty", "ready") = "ready"
    /\ ~loops["deletion"].failed => ReadinessCheck("pending", "ready") = "ready"

=============================================================================
