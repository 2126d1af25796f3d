------------------------------ MODULE JobContract ------------------------------
(***************************************************************************)
(* What the job table promises to whoever polls GET /api/jobs: the life of *)
(* one row, with no tokens, executions, scans or documents in it.          *)
(*                                                                         *)
(*   absent -> pending -> running -> success | failed                      *)
(*                |          |                                             *)
(*            cancelled <- cancel_requested                                *)
(*                                                                         *)
(* A row never leaves a terminal status except by being purged, and a      *)
(* cancel request that was accepted is never answered by success or by     *)
(* failure.                                                                *)
(***************************************************************************)
CONSTANT Jobs
VARIABLE job   \* [Jobs -> status]

Terminal == {"success", "failed", "cancelled"}

Move(j, from, to) == job[j] = from /\ job' = [job EXCEPT ![j] = to]

Create(j) == Move(j, "absent", "pending")
Start(j) == Move(j, "pending", "running")
Succeed(j) == Move(j, "running", "success")
Fail(j) == Move(j, "running", "failed")
RequestCancel(j) == Move(j, "running", "cancel_requested")
Cancel(j) == Move(j, "pending", "cancelled") \/ Move(j, "cancel_requested", "cancelled")
Purge(j) == job[j] \in Terminal /\ job' = [job EXCEPT ![j] = "absent"]

Init == job = [j \in Jobs |-> "absent"]
Next == \E j \in Jobs : \/ Create(j) \/ Start(j) \/ Succeed(j) \/ Fail(j)
                        \/ RequestCancel(j) \/ Cancel(j) \/ Purge(j)
Spec == Init /\ [][Next]_job

=============================================================================
