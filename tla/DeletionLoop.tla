------------------------------ MODULE DeletionLoop ------------------------------
(***************************************************************************)
(* The task that runs batches of the storage deletion outbox in the event  *)
(* loop of a process, and the requests that wake it: a request commits a   *)
(* row and then asks the event loop, from its own thread, to set an        *)
(* asyncio.Event.  Batches run in a thread, one at a time; what they do to *)
(* the rows is the module StorageOutbox.                                   *)
(*                                                                         *)
(* A step of the event loop goes from one await to the next.               *)
(***************************************************************************)
EXTENDS Naturals, FiniteSets

CONSTANTS
  Deletes,     \* requests that delete documents or accounts
  MaxFailures  \* cap of consecutive_failures in the model

ASSUME DeletionLoopBounds == MaxFailures \in Nat

VARIABLES
  deletes,   \* [Deletes -> where the request is]
  loopAt,    \* where run_storage_deletion_loop is
  event,     \* the event of StorageDeletionWakeup
  batch,     \* the task in StorageDeletionTaskRegistry and its thread
  seen,      \* whether the thread has read the outbox
  report,    \* StorageDeletionState
  missed     \* history: notified, and no batch was started since

loopVars == <<deletes, loopAt, event, batch, seen, report, missed>>

-----------------------------------------------------------------------------
\* schedule_storage_deletion_batch: nothing while a task is tracked.
Schedule ==
  IF batch = "none"
  THEN /\ batch' = "running" /\ seen' = FALSE
       /\ report' = [report EXCEPT !.started = TRUE]
       /\ missed' = {}
  ELSE UNCHANGED <<batch, seen, report, missed>>

\* delete_document or delete_account commits the rows, in a thread of its own.
CommitRows(r) ==
  /\ deletes[r] = "idle"
  /\ deletes' = [deletes EXCEPT ![r] = "committed"]
  /\ UNCHANGED <<loopAt, event, batch, seen, report, missed>>

\* notify: call_soon_threadsafe.
Notify(r) ==
  /\ deletes[r] = "committed"
  /\ deletes' = [deletes EXCEPT ![r] = "notified"]
  /\ missed' = missed \cup {r}
  /\ UNCHANGED <<loopAt, event, batch, seen, report>>

\* The event loop runs the callback, which sets the event.
SetEvent(r) ==
  /\ deletes[r] = "notified" /\ loopAt # "gone"
  /\ deletes' = [deletes EXCEPT ![r] = "idle"]
  /\ event' = TRUE
  /\ UNCHANGED <<loopAt, batch, seen, report, missed>>

\* wait returns because the event is set ...
Woken ==
  /\ loopAt = "waiting" /\ event
  /\ loopAt' = "clearing"
  /\ UNCHANGED <<deletes, event, batch, seen, report, missed>>

\* ... or because storage_deletion_interval_seconds are over.
IntervalOver ==
  /\ loopAt = "waiting"
  /\ loopAt' = "clearing"
  /\ UNCHANGED <<deletes, event, batch, seen, report, missed>>

\* The event is cleared, whatever ended the wait, and the registry is to be idle.
ClearEvent ==
  /\ loopAt = "clearing"
  /\ event' = FALSE
  /\ loopAt' = "draining"
  /\ UNCHANGED <<deletes, batch, seen, report, missed>>

\* Mutant of StartBatch: wait_until_idle is not awaited.
StartBatchAtOnce ==
  /\ loopAt = "draining"
  /\ Schedule
  /\ loopAt' = "waiting"
  /\ UNCHANGED <<deletes, event>>

StartBatch ==
  /\ loopAt = "draining" /\ batch = "none"
  /\ Schedule
  /\ loopAt' = "waiting"
  /\ UNCHANGED <<deletes, event>>

-----------------------------------------------------------------------------
(* The batch.                                                              *)

\* The thread claims what is there.
ReadOutbox ==
  /\ batch = "running" /\ ~seen
  /\ seen' = TRUE
  /\ UNCHANGED <<deletes, loopAt, event, batch, report, missed>>

\* It ends, or raises before or after it claimed.
ThreadEnds(result) ==
  /\ batch = "running"
  /\ result = "returned" => seen
  /\ batch' = result
  /\ UNCHANGED <<deletes, loopAt, event, seen, report, missed>>

\* The callbacks of the task: _consume_task_result, then _record_task_finished.
TaskDone ==
  /\ batch \in {"returned", "raised", "cancelled"}
  /\ report' = [started |-> FALSE,
                failures |-> CASE batch = "returned" -> 0
                               [] batch = "cancelled" -> report.failures
                               [] OTHER -> IF report.failures < MaxFailures
                                           THEN report.failures + 1 ELSE MaxFailures]
  /\ batch' = "none"
  /\ UNCHANGED <<deletes, loopAt, event, seen, missed>>

-----------------------------------------------------------------------------
(* The end of lifespan.                                                    *)

\* The loop task is cancelled at the await it is in.
StopLoop ==
  /\ loopAt # "gone"
  /\ loopAt' = "gone"
  /\ UNCHANGED <<deletes, event, batch, seen, report, missed>>

\* wait_for_completion gives the task up; its thread goes on without it.
ShutdownTimeout ==
  /\ loopAt = "gone" /\ batch = "running"
  /\ batch' = "cancelled"
  /\ UNCHANGED <<deletes, loopAt, event, seen, report, missed>>

-----------------------------------------------------------------------------
\* lifespan starts a batch, and then the loop.
LoopInit ==
  /\ deletes = [r \in Deletes |-> "idle"]
  /\ loopAt = "waiting" /\ event = FALSE
  /\ batch = "running" /\ seen = FALSE
  /\ report = [started |-> TRUE, failures |-> 0]
  /\ missed = {}

LoopNext ==
  \/ \E r \in Deletes : CommitRows(r) \/ Notify(r) \/ SetEvent(r)
  \/ Woken \/ IntervalOver \/ ClearEvent \/ StartBatch
  \/ ReadOutbox \/ TaskDone
  \/ \E result \in {"returned", "raised"} : ThreadEnds(result)
  \/ StopLoop \/ ShutdownTimeout

LoopSpec == LoopInit /\ [][LoopNext]_loopVars

\* The event loop runs what is ready and a thread comes to an end, since every
\* statement and storage call has a timeout.  The interval, half a minute or a day,
\* is not counted upon.
LoopFairness ==
  /\ WF_loopVars(\E r \in Deletes : SetEvent(r))
  /\ WF_loopVars(loopAt # "gone" /\ (Woken \/ ClearEvent \/ StartBatch))
  /\ WF_loopVars(ReadOutbox) /\ WF_loopVars(ThreadEnds("returned"))
  /\ WF_loopVars(TaskDone)

-----------------------------------------------------------------------------
(* Properties.                                                             *)

\* Types of every variable; readiness is told that a batch has begun exactly while one is
\* tracked.
DeletionLoopTypeOK ==
  /\ deletes \in [Deletes -> {"idle", "committed", "notified"}]
  /\ loopAt \in {"waiting", "clearing", "draining", "gone"}
  /\ event \in BOOLEAN /\ seen \in BOOLEAN
  /\ batch \in {"none", "running", "returned", "raised", "cancelled"}
  /\ report \in [started : BOOLEAN, failures : 0 .. MaxFailures]
  /\ missed \in SUBSET Deletes
  /\ report.started <=> batch # "none"

\* A request that asked for a batch gets one that starts after its rows were
\* committed, without waiting for the interval: no wake-up is lost while a batch
\* runs, while the wait times out, or between the two awaits of the loop.
WakeupsServed == \A r \in Deletes : r \in missed ~> (r \notin missed \/ loopAt = "gone")

=============================================================================
