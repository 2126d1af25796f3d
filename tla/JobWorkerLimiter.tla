--------------------------- MODULE JobWorkerLimiter ---------------------------
(***************************************************************************)
(* The worker slots of one process: the permits that background wrappers   *)
(* and the recovery scan share, the queue of waiting wrappers, the threads *)
(* of the default executor, and the count that the recovery state keeps.   *)
(*                                                                         *)
(* Two kinds of actors: the event loop, one coroutine step at a time, and  *)
(* the executor's threads, which give slots back whenever a worker ends.   *)
(* A step is one section under a lock, or what the loop does up to its     *)
(* next await.  LoopFree says that the loop is not in the middle of        *)
(* schedule_recoverable_jobs, which takes several locks without awaiting.  *)
(***************************************************************************)
EXTENDS Naturals, FiniteSets, Sequences, SequencesExt

CONSTANTS
  Background,  \* wrappers of background tasks, run_job_with_worker_limit
  Recovered,   \* wrappers of recovered jobs
  MaxActive,   \* job_recovery_max_active_workers
  Batch,       \* job_recovery_batch_size
  Threads,     \* threads of the default executor
  MaxCancels   \* bound on cancellations of wrappers

ASSUME TaskAssumption == /\ IsFiniteSet(Background) /\ IsFiniteSet(Recovered)
                         /\ Background \cap Recovered = {}
ASSUME SizeAssumption == /\ MaxActive \in Nat \ {0} /\ Batch \in Nat \ {0}
                         /\ Threads \in Nat \ {0} /\ MaxCancels \in Nat

VARIABLES
  occupied,  \* _occupied_slots
  waiters,   \* _waiters, oldest first
  waiting,   \* _waiting_tasks
  grants,    \* wrappers with a _grant_waiter callback on the loop: each carries a slot
  pc,        \* [Background \cup Recovered -> point]
  active,    \* JobRecoveryState._active_workers
  scan,      \* the local variables of schedule_recoverable_jobs
  stopping,  \* the supervisor was cancelled
  cancels    \* cancellations so far

slots == <<occupied, waiters, waiting, grants>>
vars == <<occupied, waiters, waiting, grants, pc, active, scan, stopping, cancels>>

Tasks == Background \cup Recovered

\* Where a wrapper is.  waiting: its future is pending; granted: its future holds
\* a permit it has not seen; quitting, refusing: cancelled in either of the two;
\* starting: a recovered job's task before its first step; queued: its work item
\* has no thread yet; detached: cancelled, the thread goes on; lost: cancelled
\* with its work item still queued, which takes the item off; finished: the
\* worker has returned, the wrapper has not.
Points == {"idle", "waiting", "granted", "quitting", "refusing", "starting", "queued",
           "running", "detached", "lost", "finished"}
Holding == {"granted", "refusing", "starting", "queued", "running", "detached", "lost"}
Supervised == {"starting", "queued", "running", "finished"}

Holders == {t \in Tasks : pc[t] \in Holding}
Tracked == {t \in Recovered : pc[t] \in Supervised}
InThreads == {t \in Tasks : pc[t] \in {"running", "detached"}}

NoScan == [at |-> "off", reserved |-> 0, permits |-> 0, jobs |-> 0, made |-> 0]
LoopFree == scan.at \in {"off", "submitted", "claiming", "claimed"}
ThreadFree == Cardinality(InThreads) + (IF scan.at = "claiming" THEN 1 ELSE 0) < Threads

Least(m, n) == IF m < n THEN m ELSE n
\* max(m - n, 0), as every counter of this code is decremented.
Monus(m, n) == IF m > n THEN m - n ELSE 0

Move(t, p) == pc' = [pc EXCEPT ![t] = p]

-----------------------------------------------------------------------------
(* JobWorkerLimiter.                                                       *)

\* Mutants of ReleaseSlot: only the oldest waiter is looked at; waiters are left to
\* the next arrival.
ReleaseLooksOnce(mine) ==
  LET gone == waiters = <<>> \/ pc[Head(waiters)] = "quitting" IN
  /\ waiters' = IF waiters = <<>> THEN <<>> ELSE Tail(waiters)
  /\ waiting' = Monus(waiting, 1)
  /\ occupied' = IF gone THEN occupied - 1 ELSE occupied
  /\ grants' = IF gone THEN mine ELSE mine \cup {Head(waiters)}
ReleaseForgetsWaiters(mine) ==
  /\ occupied' = occupied - 1
  /\ grants' = mine
  /\ UNCHANGED <<waiters, waiting>>

\* _release_slot: waiters that were cancelled are dropped, the first other one is
\* handed the slot through a callback on the loop.  mine: the callbacks that stay.
ReleaseSlot(mine) ==
  LET able == {i \in DOMAIN waiters : pc[waiters[i]] # "quitting"} IN
  \/ /\ able = {}
     /\ waiters' = <<>>
     /\ waiting' = Monus(waiting, Len(waiters))
     /\ occupied' = occupied - 1
     /\ grants' = mine
  \/ \E i \in able :
       /\ \A k \in able : i <= k
       /\ waiters' = SubSeq(waiters, i + 1, Len(waiters))
       /\ waiting' = Monus(waiting, i)
       /\ grants' = mine \cup {waiters[i]}
       /\ UNCHANGED occupied

\* Mutant of Arrive: one slot too many.
ArriveOneMore(t) ==
  /\ LoopFree
  /\ t \in Background /\ pc[t] = "idle" /\ t \notin grants
  /\ \/ /\ occupied <= MaxActive
        /\ occupied' = occupied + 1
        /\ Move(t, "queued")
        /\ UNCHANGED <<waiters, waiting>>
     \/ /\ occupied > MaxActive
        /\ waiters' = Append(waiters, t)
        /\ waiting' = waiting + 1
        /\ Move(t, "waiting")
        /\ UNCHANGED occupied
  /\ UNCHANGED <<grants, active, scan, stopping, cancels>>

\* acquire, and with a slot at hand also the submission to the executor: no await
\* comes between them.
Arrive(t) ==
  /\ LoopFree
  /\ t \in Background /\ pc[t] = "idle" /\ t \notin grants
  /\ \/ /\ occupied < MaxActive
        /\ occupied' = occupied + 1
        /\ Move(t, "queued")
        /\ UNCHANGED <<waiters, waiting>>
     \/ /\ occupied >= MaxActive
        /\ waiters' = Append(waiters, t)
        /\ waiting' = waiting + 1
        /\ Move(t, "waiting")
        /\ UNCHANGED occupied
  /\ UNCHANGED <<grants, active, scan, stopping, cancels>>

\* Mutant of Grant: the slot of a future that was cancelled is not given back.
GrantDropped(t) ==
  /\ LoopFree
  /\ t \in grants
  /\ IF pc[t] = "waiting" THEN Move(t, "granted") ELSE UNCHANGED pc
  /\ grants' = grants \ {t}
  /\ UNCHANGED <<occupied, waiters, waiting, active, scan, stopping, cancels>>

\* _grant_waiter, with a permit for the future or, if the wrapper was cancelled
\* meanwhile, for the next one.
Grant(t) ==
  /\ LoopFree
  /\ t \in grants
  /\ \/ /\ pc[t] = "waiting"
        /\ Move(t, "granted")
        /\ grants' = grants \ {t}
        /\ UNCHANGED <<occupied, waiters, waiting>>
     \/ /\ pc[t] # "waiting"
        /\ ReleaseSlot(grants \ {t})
        /\ UNCHANGED pc
  /\ UNCHANGED <<active, scan, stopping, cancels>>

\* The wrapper wakes up with its permit; a recovered one takes its first step.
\* Either submits its worker to the executor.
Submit(t) ==
  /\ LoopFree
  /\ pc[t] \in {"granted", "starting"}
  /\ Move(t, "queued")
  /\ UNCHANGED <<slots, active, scan, stopping, cancels>>

\* Mutant of Quit: the place in the queue stays.
QuitKeepsPlace(t) ==
  /\ LoopFree
  /\ pc[t] = "quitting"
  /\ Move(t, "idle")
  /\ UNCHANGED <<slots, active, scan, stopping, cancels>>

\* A wrapper whose wait was cancelled leaves the queue, if a release has not taken
\* it off already.
Quit(t) ==
  /\ LoopFree
  /\ pc[t] = "quitting"
  /\ \/ \E i \in DOMAIN waiters : /\ waiters[i] = t
                                  /\ waiters' = RemoveAt(waiters, i)
                                  /\ waiting' = Monus(waiting, 1)
     \/ (\A i \in DOMAIN waiters : waiters[i] # t) /\ UNCHANGED <<waiters, waiting>>
  /\ Move(t, "idle")
  /\ UNCHANGED <<occupied, grants, active, scan, stopping, cancels>>

\* ... and gives back the permit that came before the cancellation.
Refuse(t) ==
  /\ LoopFree
  /\ pc[t] = "refusing"
  /\ ReleaseSlot(grants)
  /\ Move(t, "idle")
  /\ UNCHANGED <<active, scan, stopping, cancels>>

\* A wrapper is cancelled: a background task with its request, a recovered one by
\* the registry when the shutdown timeout is over.  A running worker stays.
Cancel(t) ==
  /\ LoopFree
  /\ cancels < MaxCancels
  /\ \/ t \in Background /\ pc[t] = "waiting" /\ Move(t, "quitting")
     \/ t \in Background /\ pc[t] = "granted" /\ Move(t, "refusing")
     \/ pc[t] = "queued" /\ Move(t, "lost")
     \/ pc[t] = "running" /\ Move(t, "detached")
  /\ IF t \in Recovered
     THEN stopping /\ scan.at = "off" /\ active' = Monus(active, 1)
     ELSE UNCHANGED active
  /\ cancels' = cancels + 1
  /\ UNCHANGED <<slots, scan, stopping>>

-----------------------------------------------------------------------------
(* The executor's threads.                                                 *)

StartWorker(t) ==
  /\ pc[t] = "queued"
  /\ ThreadFree
  /\ Move(t, "running")
  /\ UNCHANGED <<slots, active, scan, stopping, cancels>>

\* execute: the worker returns or raises, and its slot is released in the thread.
EndWorker(t) ==
  /\ pc[t] \in {"running", "detached"}
  /\ ReleaseSlot(grants)
  /\ Move(t, IF pc[t] = "running" THEN "finished" ELSE "idle")
  /\ UNCHANGED <<active, scan, stopping, cancels>>

\* Mutant of EndWrapper: the wrapper releases its permit once more.
EndWrapperReleases(t) ==
  /\ LoopFree
  /\ pc[t] = "finished"
  /\ Move(t, "idle")
  /\ active' = IF t \in Recovered THEN Monus(active, 1) ELSE active
  /\ ReleaseSlot(grants)
  /\ UNCHANGED <<scan, stopping, cancels>>

\* The wrapper returns; for a recovered job record_worker_finished.
EndWrapper(t) ==
  /\ LoopFree
  /\ pc[t] = "finished"
  /\ Move(t, "idle")
  /\ active' = IF t \in Recovered THEN Monus(active, 1) ELSE active
  /\ UNCHANGED <<slots, scan, stopping, cancels>>

-----------------------------------------------------------------------------
(* schedule_recoverable_jobs.                                              *)

\* reserve_worker_slots.
ScanReserve ==
  LET n == Least(Batch, Monus(MaxActive, active)) IN
  /\ scan.at = "off" /\ ~stopping
  /\ n > 0
  /\ active' = active + n
  /\ scan' = [NoScan EXCEPT !.at = "reserving", !.reserved = n]
  /\ UNCHANGED <<slots, pc, stopping, cancels>>

\* Mutant of ScanAdmit: what the limiter did not admit stays reserved.
ScanAdmitKeeps ==
  LET p == Least(scan.reserved, Monus(MaxActive, occupied)) IN
  /\ scan.at = "reserving"
  /\ occupied' = occupied + p
  /\ scan' = IF p = 0 THEN NoScan
             ELSE [scan EXCEPT !.at = "submitted", !.reserved = p, !.permits = p]
  /\ UNCHANGED <<waiters, waiting, grants, pc, active, stopping, cancels>>

\* reserve_up_to, then release_worker_slots for what was not admitted.  With no
\* permit at all nothing is claimed.
ScanAdmit ==
  LET p == Least(scan.reserved, Monus(MaxActive, occupied)) IN
  /\ scan.at = "reserving"
  /\ occupied' = occupied + p
  /\ active' = Monus(active, scan.reserved - p)
  /\ scan' = IF p = 0 THEN NoScan
             ELSE [scan EXCEPT !.at = "submitted", !.reserved = p, !.permits = p]
  /\ UNCHANGED <<waiters, waiting, grants, pc, stopping, cancels>>

\* claim_recoverable_jobs gets a thread, and returns some jobs or fails, which
\* leaves as much to do as no job.
ScanStart ==
  /\ scan.at = "submitted"
  /\ ThreadFree
  /\ scan' = [scan EXCEPT !.at = "claiming"]
  /\ UNCHANGED <<slots, pc, active, stopping, cancels>>

ScanClaimed ==
  /\ scan.at = "claiming"
  /\ \E k \in 0 .. scan.permits :
       /\ k <= Cardinality({t \in Recovered : pc[t] = "idle"})
       /\ scan' = [scan EXCEPT !.at = "claimed", !.jobs = k]
  /\ UNCHANGED <<slots, pc, active, stopping, cancels>>

\* A task for a claimed job; the permit goes with it.
ScanDispatch(t) ==
  /\ scan.at \in {"claimed", "dispatching"} /\ scan.jobs > 0
  /\ t \in Recovered /\ pc[t] = "idle"
  /\ Move(t, "starting")
  /\ scan' = [scan EXCEPT !.at = "dispatching", !.jobs = @ - 1, !.permits = @ - 1, !.made = @ + 1]
  /\ UNCHANGED <<slots, active, stopping, cancels>>

\* A permit that no job used.
ScanRelease ==
  /\ scan.at \in {"claimed", "dispatching"} /\ scan.jobs = 0
  /\ scan.permits > 0
  /\ ReleaseSlot(grants)
  /\ scan' = [scan EXCEPT !.at = "dispatching", !.permits = @ - 1]
  /\ UNCHANGED <<pc, active, stopping, cancels>>

\* record_dispatched_jobs.
ScanEnd ==
  /\ scan.at \in {"claimed", "dispatching"} /\ scan.jobs = 0
  /\ scan.permits = 0
  /\ active' = Monus(active, scan.reserved - scan.made)
  /\ scan' = NoScan
  /\ UNCHANGED <<slots, pc, stopping, cancels>>

\* The supervisor is cancelled.  A scan that has begun to claim is shielded and
\* still dispatches what it claimed.
Stop ==
  /\ LoopFree /\ ~stopping
  /\ stopping' = TRUE
  /\ UNCHANGED <<slots, pc, active, scan, cancels>>

-----------------------------------------------------------------------------
Init ==
  /\ occupied = 0 /\ waiters = <<>> /\ waiting = 0 /\ grants = {}
  /\ pc = [t \in Tasks |-> "idle"]
  /\ active = 0 /\ scan = NoScan
  /\ stopping = FALSE /\ cancels = 0

LoopStep(t) == Grant(t) \/ Submit(t) \/ Quit(t) \/ Refuse(t) \/ EndWrapper(t)
ScanStep == \/ ScanAdmit \/ ScanClaimed \/ ScanRelease \/ ScanEnd
            \/ \E t \in Recovered : ScanDispatch(t)

Next ==
  \/ \E t \in Tasks : \/ Arrive(t) \/ LoopStep(t) \/ Cancel(t)
                      \/ StartWorker(t) \/ EndWorker(t)
  \/ ScanStep \/ ScanReserve \/ ScanStart \/ Stop

Spec == Init /\ [][Next]_vars

\* The loop runs what is ready and workers return, since every provider call and
\* every statement has a timeout.  The executor takes work items in the order of
\* their submission, so an item cannot be passed over for ever.  Nothing is
\* assumed of arrivals, cancellations, scans or the shutdown.
Fairness ==
  /\ \A t \in Tasks : SF_vars(LoopStep(t)) /\ WF_vars(EndWorker(t)) /\ SF_vars(StartWorker(t))
  /\ WF_vars(ScanStep) /\ SF_vars(ScanStart)

FairSpec == Spec /\ Fairness

-----------------------------------------------------------------------------
(* Properties.                                                             *)

\* Types of every variable.
ScanRecord == [at : {"off", "reserving", "submitted", "claiming", "claimed", "dispatching"},
               reserved : Nat, permits : Nat, jobs : Nat, made : Nat]
TypeOK ==
  /\ occupied \in Nat /\ waiting \in Nat /\ active \in Nat /\ cancels \in Nat
  /\ waiters \in Seq(Background)
  /\ grants \in SUBSET Background
  /\ pc \in [Tasks -> Points]
  /\ scan \in ScanRecord
  /\ stopping \in BOOLEAN

\* Every occupied slot belongs to exactly one of: a wrapper or worker that holds a
\* permit, a callback that carries it to a waiter, a scan that reserved it.  No
\* release ever finds the counter at zero, and none is released twice.
SlotsAccounted ==
  occupied = Cardinality(Holders) + Cardinality(grants) + scan.permits

\* The permits bound what really runs: workers in threads never exceed MaxActive,
\* also after their wrappers were cancelled.
CapacityKept == occupied <= MaxActive /\ Cardinality(InThreads) <= MaxActive

\* No wrapper waits while a slot is free: a release between its look at the counter
\* and its place in the queue, or a cancelled waiter ahead of it, loses no wake-up.
NoIdleSlot == waiters # <<>> => occupied = MaxActive

\* A wrapper whose future is pending is in the queue or on its way to a permit,
\* once, and the counter of waiting tasks is the length of the queue.
WaitersQueued ==
  /\ waiting = Len(waiters)
  /\ \A i, k \in DOMAIN waiters : i # k => waiters[i] # waiters[k]
  /\ \A i \in DOMAIN waiters : /\ pc[waiters[i]] \in {"waiting", "quitting"}
                               /\ waiters[i] \notin grants
  /\ \A t \in Background : pc[t] = "waiting" => t \in grants \cup ToSet(waiters)

\* The recovery state counts the tasks of recovered jobs and what the scan in
\* progress has reserved; a decrement never has to be clamped at zero.
RecoveryCount == active = Cardinality(Tracked) + (scan.reserved - scan.made)

\* A wrapper that waits gets to run its worker, unless it is cancelled: as long as
\* fewer wrappers are cancelled than there are slots.
WaitersServed ==
  \A t \in Background :
    (pc[t] = "waiting") ~> (pc[t] \in {"running", "finished", "quitting", "refusing", "lost", "detached"})

\* A recovery state that is at its limit gets below it again: scans end, give back
\* what they did not use, and every task they started is counted out.
CapacityReturns == (active = MaxActive) ~> (active < MaxActive)

\* A recovered job has its worker in a thread as soon as a thread is free, and one
\* is free: claimed jobs do not pile up in the executor's queue.
ClaimedJobsRun == \A t \in Recovered : pc[t] = "queued" => ThreadFree

=============================================================================
