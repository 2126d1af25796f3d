-------------------------- MODULE JobLifecycleProofs --------------------------
(***************************************************************************)
(* Theorems about JobLifecycle for every number of jobs, documents and     *)
(* executions.                                                             *)
(*                                                                         *)
(* The argument has two layers.  Whatever an execution does at its twenty  *)
(* points comes down to five effects on the job table (Effect); that lemma *)
(* walks through process_document once.  The invariants are then proved    *)
(* against the effects and the actions of the scan and of the users.       *)
(***************************************************************************)
EXTENDS JobLifecycle, TLAPS

\* An execution that is alive works on a row of the table.
LiveHasJob == \A r \in Runs : Live(r) => runs[r].job \in Jobs

\* The inductive invariant.  TokenWhileActive is what makes a first claim find no
\* older token in the row, LeaseExclusive that no other row has the new one.
IInv == TypeOK /\ LiveHasJob /\ TokenWhileActive /\ LeaseExclusive /\ LockedRowsKeep

-----------------------------------------------------------------------------
(* The ways an execution moves.                                            *)

MovesOnly(r) ==
  /\ runs' \in [Runs -> Execution]
  /\ \A q \in Runs \ {r} : runs'[q] = runs[q]
  /\ runs'[r].pc # "idle" => runs'[r].job = runs[r].job

LEMMA RunUpdate ==
  ASSUME TypeOK, NEW r \in Runs, NEW e \in Execution,
         e.pc # "idle" => e.job = runs[r].job, runs' = [runs EXCEPT ![r] = e]
  PROVE  MovesOnly(r)
BY DEF TypeOK, MovesOnly

LEMMA GotoMoves ==
  ASSUME TypeOK, NEW r \in Runs, NEW pc \in Points, Goto(r, pc)
  PROVE  MovesOnly(r)
<1> DEFINE e == [runs[r] EXCEPT !.pc = pc]
<1>1. e \in Execution /\ e.job = runs[r].job  BY DEF TypeOK, Execution
<1>2. runs' = [runs EXCEPT ![r] = e]  BY DEF Goto
<1> HIDE DEF e
<1> QED BY <1>1, <1>2, RunUpdate

LEMMA LeaveMoves ==
  ASSUME TypeOK, NEW r \in Runs, NEW pc \in Points, Leave(r, pc)
  PROVE  MovesOnly(r)
<1> DEFINE e == [runs[r] EXCEPT !.pc = pc, !.seen = "other", !.resumed = FALSE]
<1>0. runs[r] \in Execution  BY DEF TypeOK
<1>1. e \in Execution /\ e.job = runs[r].job  BY <1>0 DEF Execution
<1>2. runs' = [runs EXCEPT ![r] = e]  BY DEF Leave
<1> HIDE DEF e
<1> QED BY <1>1, <1>2, RunUpdate

LEMMA FinishMoves ==
  ASSUME TypeOK, NEW r \in Runs, Finish(r)
  PROVE  MovesOnly(r)
<1>1. IdleRun \in Execution /\ IdleRun.pc = "idle"  BY DEF IdleRun, Execution, Points
<1>2. runs' = [runs EXCEPT ![r] = IdleRun]  BY DEF Finish
<1> QED BY <1>1, <1>2, RunUpdate

LEMMA StoppedMoves ==
  ASSUME TypeOK, NEW r \in Runs, Stopped(r)
  PROVE  MovesOnly(r)
<1>1. "cancelling" \in Points  BY DEF Points, HandlerPoints
<1> QED BY <1>1, GotoMoves, FinishMoves DEF Stopped

-----------------------------------------------------------------------------
(* What a step of an execution does to the tables.                         *)

\* Progress, for the holder of the lease.
Renews(r) ==
  /\ JobOf(r).st = "running" /\ JobOf(r).tok = runs[r].tok
  /\ Touch(runs[r].job)
\* The claim, of a pending row or of the row that the scan claimed for it.
Takes(r) ==
  /\ runs[r].pc = "loaded"
  /\ \/ JobOf(r).st = "pending"
     \/ JobOf(r).st = "running" /\ JobOf(r).tok = r
  /\ Write(runs[r].job, "running", r)
\* Success and failure, for the holder of the lease.
Ends(r) ==
  /\ JobOf(r).st = "running" /\ JobOf(r).tok = runs[r].tok
  /\ \E st \in {"success", "failed"} : Write(runs[r].job, st, NoRun)
\* The end of a cancel request, for the holder of the token.
Cancels(r) ==
  /\ JobOf(r).st \in {"cancel_requested", "cancelled"} /\ JobOf(r).tok = runs[r].tok
  /\ ~Locked(runs[r].job)
  /\ Write(runs[r].job, "cancelled", NoRun)

Effect(r) ==
  /\ Live(r)
  /\ MovesOnly(r)
  /\ docs' \in [Docs -> DocStatuses \cup {"absent"}]
  /\ vectors' \in [Docs -> BOOLEAN]
  /\ crashes' \in 0 .. MaxCrashes
  /\ UNCHANGED <<scan, retries>>
  /\ \/ UNCHANGED jobs
     \/ Renews(r) \/ Takes(r) \/ Ends(r) \/ Cancels(r)

\* A check, a progress update, a document write and a terminal update, wherever
\* they stand in process_document.
LEMMA CheckEffect ==
  ASSUME TypeOK, NEW r \in Runs, NEW from, NEW to \in Points, from # "idle", Check(r, from, to)
  PROVE  Effect(r)
<1>1. MovesOnly(r)  BY GotoMoves, StoppedMoves DEF Check
<1>2. Live(r) /\ UNCHANGED <<jobs, docs, vectors, scan, retries, crashes>>
  BY DEF Check, Live
<1> QED BY <1>1, <1>2 DEF Effect, TypeOK

LEMMA ProgressEffect ==
  ASSUME TypeOK, NEW r \in Runs, NEW from, NEW to \in Points, from # "idle", Progress(r, from, to)
  PROVE  Effect(r)
<1>1. MovesOnly(r)  BY GotoMoves, StoppedMoves DEF Progress
<1>2. UNCHANGED jobs \/ Renews(r)  BY DEF Progress, GoesOn, Owns, Renews
<1> QED BY <1>1, <1>2 DEF Progress, Effect, TypeOK, Live

LEMMA MarkEffect ==
  ASSUME TypeOK, NEW r \in Runs, NEW from, NEW to \in Points, NEW s \in DocStatuses,
         from # "idle", Mark(r, from, s, to)
  PROVE  Effect(r)
<1>1. "failing" \in Points  BY DEF Points, HandlerPoints
<1>2. MovesOnly(r)  BY <1>1, LeaveMoves DEF Mark, CommitDocStatus
<1>3. docs' \in [Docs -> DocStatuses \cup {"absent"}]  BY DEF Mark, CommitDocStatus, TypeOK
<1> QED BY <1>2, <1>3 DEF Mark, Effect, TypeOK, Live

LEMMA TerminateEffect ==
  ASSUME TypeOK, NEW r \in Runs, NEW from, NEW st \in {"success", "failed"},
         from # "idle", Terminate(r, from, st)
  PROVE  Effect(r)
<1>1. MovesOnly(r)  BY FinishMoves, StoppedMoves DEF Terminate
<1>2. UNCHANGED jobs \/ Ends(r)  BY DEF Terminate, GoesOn, Owns, Ends
<1> QED BY <1>1, <1>2 DEF Terminate, Effect, TypeOK, Live

LEMMA SettleDocEffect ==
  ASSUME TypeOK, NEW r \in Runs, NEW from, NEW to \in Points, NEW s \in DocStatuses,
         from # "idle", SettleDoc(r, from, s, to)
  PROVE  Effect(r)
<1>1. MovesOnly(r)  BY GotoMoves DEF SettleDoc
<1>2. docs' \in [Docs -> DocStatuses \cup {"absent"}]  BY DEF SettleDoc, TypeOK
<1> QED BY <1>1, <1>2 DEF SettleDoc, Effect, TypeOK, Live

-----------------------------------------------------------------------------
(* process_document, step by step.                                         *)

LEMMA PointNames ==
  /\ WorkingPoints \subseteq Points /\ HandlerPoints \subseteq Points
  /\ {"loaded", "queued"} \subseteq Points
  /\ \A p \in WorkingPoints \cup HandlerPoints : p # "idle"
BY DEF Points, WorkingPoints, HandlerPoints

LEMMA LoadEffect ==
  ASSUME TypeOK, LiveHasJob, NEW r \in Runs, Load(r)
  PROVE  Effect(r)
<1>1. Live(r) /\ UNCHANGED <<jobs, docs, vectors, scan, retries, crashes>>
  BY DEF Load, Live
<1>2. MovesOnly(r)
  <2>1. CASE Finish(r)
    BY <2>1, FinishMoves
  <2>2. CASE /\ JobOf(r).st = "cancel_requested" /\ JobOf(r).tok # NoRun
             /\ runs' = [runs EXCEPT ![r] = [@ EXCEPT !.pc = "cancelling", !.tok = JobOf(r).tok,
                                                      !.resumed = FALSE]]
    <3> DEFINE e == [runs[r] EXCEPT !.pc = "cancelling", !.tok = JobOf(r).tok, !.resumed = FALSE]
    <3>1. JobOf(r) \in JobRow /\ "cancelling" \in Points
      BY <1>1 DEF LiveHasJob, TypeOK, JobOf, Points, HandlerPoints
    <3>2. JobOf(r).tok \in Runs \cup {NoRun} /\ runs[r] \in Execution
      BY <3>1 DEF TypeOK, JobRow
    <3>3. e \in Execution /\ e.job = runs[r].job
      BY <3>1, <3>2 DEF Execution
    <3>4. runs' = [runs EXCEPT ![r] = e]
      BY <2>2
    <3> HIDE DEF e
    <3> QED BY <3>3, <3>4, RunUpdate
  <2>3. CASE \E seen \in {"absent", "parsing", "other"} :
               runs' = [runs EXCEPT ![r] = [@ EXCEPT !.pc = "loaded", !.seen = seen]]
    <3>1. PICK seen \in {"absent", "parsing", "other"} :
               runs' = [runs EXCEPT ![r] = [@ EXCEPT !.pc = "loaded", !.seen = seen]]
      BY <2>3
    <3> DEFINE e == [runs[r] EXCEPT !.pc = "loaded", !.seen = seen]
    <3>0. runs[r] \in Execution
      BY DEF TypeOK
    <3>2. e \in Execution /\ e.job = runs[r].job
      BY <3>0, PointNames DEF Execution
    <3>3. runs' = [runs EXCEPT ![r] = e]
      BY <3>1
    <3> HIDE DEF e
    <3> QED BY <3>2, <3>3, RunUpdate
  <2> QED BY <2>1, <2>2, <2>3 DEF Load
<1> QED BY <1>1, <1>2 DEF Effect, TypeOK

LEMMA LoadOrphanEffect ==
  ASSUME TypeOK, NEW r \in Runs, LoadOrphan(r)
  PROVE  Effect(r)
<1>1. Live(r) /\ UNCHANGED <<jobs, docs, vectors, scan, retries, crashes>>
  BY DEF LoadOrphan, Live
<1>2. MovesOnly(r)
  BY FinishMoves, LeaveMoves, PointNames DEF LoadOrphan, HandlerPoints
<1> QED BY <1>1, <1>2 DEF Effect, TypeOK

LEMMA ClaimEffect ==
  ASSUME TypeOK, NEW r \in Runs, Claim(r)
  PROVE  Effect(r)
<1>1. Live(r) /\ UNCHANGED <<docs, vectors, scan, retries, crashes>>
  BY DEF Claim, Live
<1>2. CASE Claimable(r)
  <2> DEFINE e == [runs[r] EXCEPT !.pc = "claimed", !.resumed = FALSE]
  <2>0. "claimed" \in Points /\ runs[r] \in Execution
    BY DEF TypeOK, Points, WorkingPoints
  <2>1. e \in Execution /\ e.job = runs[r].job
    BY <2>0 DEF Execution
  <2>2. runs' = [runs EXCEPT ![r] = e]
    BY <1>2 DEF Claim
  <2>3. Takes(r)
    <3>1. JobOf(r).st = "pending" \/ (JobOf(r).st = "running" /\ JobOf(r).tok = r)
      BY <1>2, Zenon DEF Claimable
    <3>2. runs[r].pc = "loaded" /\ Write(runs[r].job, "running", r)
      BY <1>2 DEF Claim
    <3> QED BY <3>1, <3>2 DEF Takes
  <2>4. MovesOnly(r)
    <3> HIDE DEF e
    <3> QED BY <2>1, <2>2, RunUpdate
  <2> QED BY <1>1, <2>3, <2>4 DEF Effect, TypeOK
<1>3. CASE ~Claimable(r)
  <2>1. MovesOnly(r) /\ UNCHANGED jobs
    BY <1>3, FinishMoves, LeaveMoves, PointNames DEF Claim, HandlerPoints
  <2> QED BY <1>1, <2>1 DEF Effect, TypeOK
<1> QED BY <1>2, <1>3

LEMMA StartParsingEffect ==
  ASSUME TypeOK, NEW r \in Runs, StartParsing(r)
  PROVE  Effect(r)
<1>1. Live(r) /\ UNCHANGED <<jobs, vectors, scan, retries, crashes>>
  BY DEF StartParsing, Live
<1>2. MovesOnly(r)
  BY LeaveMoves, PointNames DEF StartParsing, CommitDocStatus, HandlerPoints, WorkingPoints
<1>3. docs' \in [Docs -> DocStatuses \cup {"absent"}]
  BY DEF StartParsing, CommitDocStatus, TypeOK, DocStatuses
<1> QED BY <1>1, <1>2, <1>3 DEF Effect, TypeOK

LEMMA RecreateChunksEffect ==
  ASSUME TypeOK, NEW r \in Runs, RecreateChunks(r)
  PROVE  Effect(r)
<1>1. Live(r) /\ UNCHANGED <<jobs, docs, vectors, scan, retries, crashes>>
  BY DEF RecreateChunks, Live
<1>2. MovesOnly(r)
  BY GotoMoves, StoppedMoves, PointNames DEF RecreateChunks, HandlerPoints, WorkingPoints
<1> QED BY <1>1, <1>2 DEF Effect, TypeOK

LEMMA CommitChunksEffect ==
  ASSUME TypeOK, NEW r \in Runs, CommitChunks(r)
  PROVE  Effect(r)
<1>1. Live(r) /\ UNCHANGED <<docs, scan, retries, crashes>>
  BY DEF CommitChunks, Live
<1>2. vectors' \in [Docs -> BOOLEAN]
  BY DEF CommitChunks, TypeOK
<1>3. MovesOnly(r)
  BY GotoMoves, StoppedMoves, PointNames DEF CommitChunks, WorkingPoints
<1>4. UNCHANGED jobs \/ Renews(r)
  BY DEF CommitChunks, GoesOn, Owns, Renews
<1> QED BY <1>1, <1>2, <1>3, <1>4 DEF Effect, TypeOK

LEMMA EmbedChunksEffect ==
  ASSUME TypeOK, NEW r \in Runs, EmbedChunks(r)
  PROVE  Effect(r)
<1>1. Live(r) /\ UNCHANGED <<jobs, docs, vectors, scan, retries, crashes>>
  BY DEF EmbedChunks, Live
<1>2. MovesOnly(r)
  BY GotoMoves, StoppedMoves, PointNames DEF EmbedChunks, HandlerPoints, WorkingPoints
<1> QED BY <1>1, <1>2 DEF Effect, TypeOK

LEMMA CommitEmbeddingsEffect ==
  ASSUME TypeOK, NEW r \in Runs, CommitEmbeddings(r)
  PROVE  Effect(r)
<1> DEFINE e == [runs[r] EXCEPT !.pc = "ready", !.ready = TRUE]
<1>1. Live(r) /\ UNCHANGED <<jobs, docs, scan, retries, crashes>>
  BY DEF CommitEmbeddings, Live
<1>2. vectors' \in [Docs -> BOOLEAN]
  BY DEF CommitEmbeddings, TypeOK
<1>0. "ready" \in Points /\ runs[r] \in Execution
  BY DEF TypeOK, Points, WorkingPoints
<1>3. e \in Execution /\ e.job = runs[r].job
  BY <1>0 DEF Execution
<1>4. runs' = [runs EXCEPT ![r] = e]
  BY DEF CommitEmbeddings
<1>5. MovesOnly(r)
  <2> HIDE DEF e
  <2> QED BY <1>3, <1>4, RunUpdate
<1> QED BY <1>1, <1>2, <1>5 DEF Effect, TypeOK

LEMMA MarkCancelledEffect ==
  ASSUME TypeOK, NEW r \in Runs, MarkCancelled(r)
  PROVE  Effect(r)
<1>1. Live(r) /\ UNCHANGED <<docs, vectors, scan, retries, crashes>>
  BY DEF MarkCancelled, Live
<1>2. MovesOnly(r)
  BY FinishMoves DEF MarkCancelled
<1>3. UNCHANGED jobs \/ Cancels(r)
  BY DEF MarkCancelled, Cancels, JobOf
<1> QED BY <1>1, <1>2, <1>3 DEF Effect, TypeOK

LEMMA StepEffect ==
  ASSUME TypeOK, LiveHasJob, NEW r \in Runs, Step(r)
  PROVE  Effect(r)
<1> USE PointNames
<1>1. CASE Load(r)  BY <1>1, LoadEffect
<1>2. CASE LoadOrphan(r)  BY <1>2, LoadOrphanEffect
<1>3. CASE Claim(r)  BY <1>3, ClaimEffect
<1>4. CASE StartParsing(r)  BY <1>4, StartParsingEffect
<1>5. CASE Parse(r)  BY <1>5, CheckEffect DEF Parse, WorkingPoints
<1>6. CASE StartChunking(r)  BY <1>6, MarkEffect DEF StartChunking, WorkingPoints, DocStatuses
<1>7. CASE ReportChunking(r)  BY <1>7, ProgressEffect DEF ReportChunking, WorkingPoints
<1>8. CASE RecreateChunks(r)  BY <1>8, RecreateChunksEffect
<1>9. CASE CommitChunks(r)  BY <1>9, CommitChunksEffect
<1>10. CASE EmbedChunks(r)  BY <1>10, EmbedChunksEffect
<1>11. CASE CommitEmbeddings(r)  BY <1>11, CommitEmbeddingsEffect
<1>12. CASE ReportEnriching(r)  BY <1>12, ProgressEffect DEF ReportEnriching, WorkingPoints
<1>13. CASE StartSummarizing(r)  BY <1>13, MarkEffect DEF StartSummarizing, WorkingPoints, DocStatuses
<1>14. CASE Enrich(r)  BY <1>14, CheckEffect DEF Enrich, WorkingPoints
<1>15. CASE MarkIndexed(r)  BY <1>15, MarkEffect DEF MarkIndexed, WorkingPoints, DocStatuses
<1>16. CASE Complete(r)  BY <1>16, TerminateEffect DEF Complete, WorkingPoints
<1>17. CASE CheckFailing(r)  BY <1>17, CheckEffect DEF CheckFailing, HandlerPoints
<1>18. CASE FailDoc(r)  BY <1>18, SettleDocEffect DEF FailDoc, HandlerPoints, DocStatuses
<1>19. CASE FailJob(r)  BY <1>19, TerminateEffect DEF FailJob, HandlerPoints
<1>20. CASE FailOrphan(r)  BY <1>20, TerminateEffect DEF FailOrphan, HandlerPoints
<1>21. CASE CancelDoc(r)  BY <1>21, SettleDocEffect DEF CancelDoc, HandlerPoints, DocStatuses
<1>22. CASE MarkCancelled(r)  BY <1>22, MarkCancelledEffect
<1> QED
  BY <1>1, <1>2, <1>3, <1>4, <1>5, <1>6, <1>7, <1>8, <1>9, <1>10, <1>11,
     <1>12, <1>13, <1>14, <1>15, <1>16, <1>17, <1>18, <1>19, <1>20, <1>21, <1>22 DEF Step

LEMMA RaiseEffect ==
  ASSUME TypeOK, NEW r \in Runs, Raise(r)
  PROVE  Effect(r)
<1>1. Live(r)
  BY PointNames DEF Raise, Working, Live
<1>2. MovesOnly(r)
  BY LeaveMoves, PointNames DEF Raise, HandlerPoints
<1>3. UNCHANGED <<jobs, docs, vectors, scan, retries, crashes>>
  BY DEF Raise
<1> QED BY <1>1, <1>2, <1>3 DEF Effect, TypeOK

LEMMA DieEffect ==
  ASSUME TypeOK, NEW r \in Runs, Die(r)
  PROVE  Effect(r)
<1>1. Live(r) /\ UNCHANGED <<jobs, docs, vectors, scan, retries>>
  BY DEF Die
<1>2. MovesOnly(r)
  BY FinishMoves DEF Die
<1>3. crashes' \in 0 .. MaxCrashes
  BY BoundAssumption DEF Die, TypeOK
<1> QED BY <1>1, <1>2, <1>3 DEF Effect, TypeOK

-----------------------------------------------------------------------------
(* Rows that a statement writes.                                           *)

\* The row of one job gets status st and token tok, the others stay.
Changes(j, st, tok) ==
  /\ jobs' \in [Jobs -> JobRow]
  /\ jobs'[j].st = st /\ jobs'[j].tok = tok
  /\ \A i \in Jobs \ {j} : jobs'[i] = jobs[i]

LEMMA RowUpdate ==
  ASSUME TypeOK, NEW j \in Jobs, NEW e \in JobRow, jobs' = [jobs EXCEPT ![j] = e]
  PROVE  Changes(j, e.st, e.tok)
BY DEF TypeOK, Changes

LEMMA WriteChanges ==
  ASSUME TypeOK, NEW j \in Jobs, NEW st \in JobStatuses, NEW tok \in Runs \cup {NoRun},
         Write(j, st, tok)
  PROVE  Changes(j, st, tok)
<1> DEFINE e == [jobs[j] EXCEPT !.st = st, !.tok = tok, !.stale = FALSE]
<1>1. jobs[j] \in JobRow
  BY DEF TypeOK
<1>2. e \in JobRow /\ e.st = st /\ e.tok = tok
  BY <1>1 DEF JobRow
<1>3. jobs' = [jobs EXCEPT ![j] = e]
  BY DEF Write
<1> HIDE DEF e
<1> QED BY <1>2, <1>3, RowUpdate

LEMMA TouchChanges ==
  ASSUME TypeOK, NEW j \in Jobs, jobs[j].st # "absent", Touch(j)
  PROVE  Changes(j, jobs[j].st, jobs[j].tok)
<1>1. jobs[j].st \in JobStatuses /\ jobs[j].tok \in Runs \cup {NoRun}
  BY DEF TypeOK, JobRow
<1> QED BY <1>1, WriteChanges DEF Touch

LEMMA PendingChanges ==
  ASSUME TypeOK, NEW j \in Jobs, NEW d \in Docs \cup {NoDoc},
         jobs' = [jobs EXCEPT ![j] = PendingRow(d)]
  PROVE  Changes(j, "pending", NoRun)
<1>1. PendingRow(d) \in JobRow /\ PendingRow(d).st = "pending" /\ PendingRow(d).tok = NoRun
  BY DEF PendingRow, JobRow, JobStatuses, ActiveStatuses
<1> QED BY <1>1, RowUpdate

\* The effects of an execution, as changes of the row it works on.
LEMMA EffectChanges ==
  ASSUME TypeOK, LiveHasJob, NEW r \in Runs, Effect(r)
  PROVE  /\ runs[r].job \in Jobs
         /\ \/ UNCHANGED jobs
            \/ JobOf(r).st = "running" /\ Changes(runs[r].job, "running", JobOf(r).tok)
            \/ JobOf(r).st = "pending" /\ Changes(runs[r].job, "running", r)
            \/ /\ JobOf(r).st = "running"
               /\ \E st \in {"success", "failed"} : Changes(runs[r].job, st, NoRun)
            \/ /\ JobOf(r).st \in {"cancel_requested", "cancelled"} /\ ~Locked(runs[r].job)
               /\ Changes(runs[r].job, "cancelled", NoRun)
<1>1. runs[r].job \in Jobs
  BY DEF Effect, LiveHasJob
<1>2. {"running", "success", "failed", "cancelled"} \subseteq JobStatuses
  BY DEF JobStatuses, ActiveStatuses, TerminalStatuses
<1>3. CASE Renews(r)
  BY <1>1, <1>3, TouchChanges DEF Renews, JobOf
<1>4. CASE Takes(r)
  <2>1. Changes(runs[r].job, "running", r)
    BY <1>1, <1>2, <1>4, WriteChanges DEF Takes
  <2> QED BY <1>1, <1>4, <2>1 DEF Takes
<1>5. CASE Ends(r)
  BY <1>1, <1>2, <1>5, WriteChanges DEF Ends
<1>6. CASE Cancels(r)
  BY <1>1, <1>2, <1>6, WriteChanges DEF Cancels
<1> QED BY <1>1, <1>3, <1>4, <1>5, <1>6 DEF Effect

-----------------------------------------------------------------------------
(* What a change of one row does to each part of the invariant.            *)

LEMMA ChangeKeepsTokens ==
  ASSUME TokenWhileActive, NEW j \in Jobs, NEW st, NEW tok, Changes(j, st, tok),
         tok # NoRun <=> st \in {"running", "cancel_requested"}
  PROVE  TokenWhileActive'
BY DEF TokenWhileActive, Changes

\* No row is locked while it is pending, running or absent.
LEMMA LockedStatus ==
  ASSUME LockedRowsKeep, NEW j \in Jobs,
         jobs[j].st \in {"absent", "pending", "running", "success"}
  PROVE  ~Locked(j)
BY DEF LockedRowsKeep, Locked, RetryableStatuses

LEMMA ChangeKeepsLocks ==
  ASSUME LockedRowsKeep, NEW j \in Jobs, NEW st, NEW tok, Changes(j, st, tok),
         st = jobs[j].st \/ ~Locked(j), UNCHANGED <<scan, retries>>
  PROVE  LockedRowsKeep'
BY DEF LockedRowsKeep, Locked, Changes

\* A row whose token is cleared or stays, next to an execution that keeps its job.
LEMMA ChangeKeepsLeases ==
  ASSUME LeaseExclusive, NEW j \in Jobs, NEW st, NEW tok, Changes(j, st, tok),
         tok = NoRun \/ tok = jobs[j].tok,
         \A q \in Runs : Live(q)' => Live(q) /\ runs'[q].job = runs[q].job
  PROVE  LeaseExclusive'
BY NullAssumption DEF LeaseExclusive, Changes, Live

\* A row that gets the token of an execution which works on it, when no other row
\* has that token.
LEMMA GrantKeepsLeases ==
  ASSUME LeaseExclusive, NEW j \in Jobs, NEW st, NEW r \in Runs, Changes(j, st, r),
         \A i \in Jobs \ {j} : jobs[i].tok # r,
         Live(r)' => runs'[r].job = j,
         \A q \in Runs \ {r} : Live(q)' => Live(q) /\ runs'[q].job = runs[q].job
  PROVE  LeaseExclusive'
BY NullAssumption DEF LeaseExclusive, Changes, Live

LEMMA EffectKeeps ==
  ASSUME IInv, NEW r \in Runs, Effect(r)
  PROVE  IInv'
<1> DEFINE j == runs[r].job
<1>1. TypeOK /\ LiveHasJob /\ TokenWhileActive /\ LeaseExclusive /\ LockedRowsKeep
  BY DEF IInv
<1>2. /\ j \in Jobs
      /\ \/ UNCHANGED jobs
         \/ jobs[j].st = "running" /\ Changes(j, "running", jobs[j].tok)
         \/ jobs[j].st = "pending" /\ Changes(j, "running", r)
         \/ jobs[j].st = "running" /\ \E st \in {"success", "failed"} : Changes(j, st, NoRun)
         \/ /\ jobs[j].st \in {"cancel_requested", "cancelled"} /\ ~Locked(j)
            /\ Changes(j, "cancelled", NoRun)
  BY <1>1, EffectChanges DEF JobOf
<1>3. /\ MovesOnly(r) /\ Live(r) /\ UNCHANGED <<scan, retries>>
      /\ \A q \in Runs : Live(q)' => Live(q) /\ runs'[q].job = runs[q].job
  BY DEF Effect, MovesOnly, Live
<1>4. LiveHasJob'
  BY <1>1, <1>3 DEF LiveHasJob
<1>5. TypeOK'
  <2>1. jobs' \in [Jobs -> JobRow]
    BY <1>1, <1>2 DEF TypeOK, Changes
  <2>2. scan' = scan /\ retries' = retries /\ runs' \in [Runs -> Execution]
    BY <1>3 DEF MovesOnly
  <2> QED BY <1>1, <2>1, <2>2 DEF TypeOK, Effect
<1> HIDE DEF j
<1>6. CASE UNCHANGED jobs
  <2>1. TokenWhileActive' /\ LockedRowsKeep'
    BY <1>1, <1>3, <1>6 DEF TokenWhileActive, LockedRowsKeep
  <2>2. LeaseExclusive'
    BY <1>1, <1>3, <1>6 DEF LeaseExclusive, Live
  <2> QED BY <1>4, <1>5, <2>1, <2>2 DEF IInv
<1>7. CASE jobs[j].st = "running" /\ Changes(j, "running", jobs[j].tok)
  <2>1. jobs[j].tok # NoRun
    BY <1>1, <1>2, <1>7 DEF TokenWhileActive
  <2>2. TokenWhileActive' /\ LockedRowsKeep' /\ LeaseExclusive'
    BY <1>1, <1>2, <1>3, <1>7, <2>1, ChangeKeepsTokens, ChangeKeepsLocks, ChangeKeepsLeases
  <2> QED BY <1>4, <1>5, <2>2 DEF IInv
<1>8. CASE jobs[j].st = "pending" /\ Changes(j, "running", r)
  <2>1. ~Locked(j)
    BY <1>1, <1>2, <1>8, LockedStatus
  <2>2. TokenWhileActive' /\ LockedRowsKeep'
    BY <1>1, <1>2, <1>3, <1>8, <2>1, NullAssumption, ChangeKeepsTokens, ChangeKeepsLocks
  <2>3. \A i \in Jobs \ {j} : jobs[i].tok # r
    BY <1>1, <1>3 DEF LeaseExclusive, j
  <2>4. Live(r)' => runs'[r].job = j
    BY <1>3 DEF j
  <2>5. LeaseExclusive'
    BY <1>1, <1>2, <1>3, <1>8, <2>3, <2>4, GrantKeepsLeases
  <2> QED BY <1>4, <1>5, <2>2, <2>5 DEF IInv
<1>9. CASE jobs[j].st = "running" /\ \E st \in {"success", "failed"} : Changes(j, st, NoRun)
  <2>1. ~Locked(j)
    BY <1>1, <1>2, <1>9, LockedStatus
  <2>2. TokenWhileActive' /\ LockedRowsKeep' /\ LeaseExclusive'
    BY <1>1, <1>2, <1>3, <1>9, <2>1, ChangeKeepsTokens, ChangeKeepsLocks, ChangeKeepsLeases
  <2> QED BY <1>4, <1>5, <2>2 DEF IInv
<1>10. CASE ~Locked(j) /\ Changes(j, "cancelled", NoRun)
  <2>1. TokenWhileActive' /\ LockedRowsKeep' /\ LeaseExclusive'
    BY <1>1, <1>2, <1>3, <1>10, ChangeKeepsTokens, ChangeKeepsLocks, ChangeKeepsLeases
  <2> QED BY <1>4, <1>5, <2>1 DEF IInv
<1> QED BY <1>2, <1>6, <1>7, <1>8, <1>9, <1>10

-----------------------------------------------------------------------------
(* The scan, the users and time.                                           *)

\* A step that moves no execution and changes the row of one job.
LEMMA RowStepKeeps ==
  ASSUME IInv, NEW j \in Jobs, NEW st, NEW tok, Changes(j, st, tok), TypeOK',
         tok # NoRun <=> st \in {"running", "cancel_requested"},
         tok = NoRun \/ tok = jobs[j].tok,
         st = jobs[j].st \/ ~Locked(j),
         UNCHANGED <<runs, scan, retries>>
  PROVE  IInv'
<1>1. LiveHasJob'
  BY DEF IInv, LiveHasJob, Live
<1>2. \A q \in Runs : Live(q)' => Live(q) /\ runs'[q].job = runs[q].job
  BY DEF Live
<1>3. TokenWhileActive' /\ LockedRowsKeep' /\ LeaseExclusive'
  BY <1>2, ChangeKeepsTokens, ChangeKeepsLocks, ChangeKeepsLeases DEF IInv
<1> QED BY <1>1, <1>3 DEF IInv

\* A step that dispatches a fresh execution for job j, whose row is not locked.
LEMMA DispatchKeeps ==
  ASSUME IInv, NEW j \in Jobs, NEW d \in Docs \cup {NoDoc}, NEW r \in Runs, Fresh(r),
         NEW resumed \in BOOLEAN, runs' = [runs EXCEPT ![r] = QueuedRun(r, j, d, resumed)]
  PROVE  /\ runs' \in [Runs -> Execution]
         /\ LiveHasJob'
         /\ runs'[r].job = j
         /\ \A q \in Runs \ {r} : Live(q)' => Live(q) /\ runs'[q].job = runs[q].job
<1>1. /\ QueuedRun(r, j, d, resumed) \in Execution
      /\ QueuedRun(r, j, d, resumed).job = j
  <2>1. "queued" \in Points
    BY DEF Points
  <2> QED BY <2>1 DEF QueuedRun, Execution
<1> QED BY <1>1 DEF IInv, TypeOK, LiveHasJob, Live

LEMMA ScanClaimKeeps ==
  ASSUME IInv, NEW j \in Jobs, NEW r \in Runs, ScanClaim(j, r)
  PROVE  IInv'
<1>1. TypeOK /\ Fresh(r) /\ ~Locked(j) /\ UNCHANGED <<docs, vectors, scan, retries, crashes>>
  BY DEF IInv, ScanClaim
<1>2. /\ runs' \in [Runs -> Execution] /\ LiveHasJob' /\ runs'[r].job = j
      /\ \A q \in Runs \ {r} : Live(q)' => Live(q) /\ runs'[q].job = runs[q].job
  <2>1. jobs[j].doc \in Docs \cup {NoDoc}
    BY <1>1 DEF TypeOK, JobRow
  <2> QED BY <1>1, <2>1, DispatchKeeps DEF ScanClaim
<1>3. Changes(j, "running", r)
  BY <1>1, WriteChanges DEF ScanClaim, JobStatuses, ActiveStatuses
<1>4. TypeOK'
  BY <1>1, <1>2, <1>3 DEF TypeOK, Changes
<1>5. TokenWhileActive' /\ LockedRowsKeep'
  BY <1>1, <1>3, NullAssumption, ChangeKeepsTokens, ChangeKeepsLocks DEF IInv
<1>6. LeaseExclusive'
  <2>1. \A i \in Jobs \ {j} : jobs[i].tok # r
    BY <1>1 DEF Fresh
  <2> QED BY <1>2, <1>3, <2>1, GrantKeepsLeases DEF IInv
<1> QED BY <1>2, <1>4, <1>5, <1>6 DEF IInv

\* Upload and retry: a new pending row and the background task for it.
LEMMA CreateKeeps ==
  ASSUME IInv, NEW j \in Jobs, NEW d \in Docs \cup {NoDoc}, NEW r \in Runs,
         jobs[j].st = "absent", Fresh(r),
         jobs' = [jobs EXCEPT ![j] = PendingRow(d)],
         runs' = [runs EXCEPT ![r] = QueuedRun(r, j, d, FALSE)],
         docs' \in [Docs -> DocStatuses \cup {"absent"}],
         retries' \in SUBSET retries,
         UNCHANGED <<vectors, scan, crashes>>
  PROVE  IInv'
<1>1. Changes(j, "pending", NoRun)
  BY PendingChanges DEF IInv
<1>2. /\ runs' \in [Runs -> Execution] /\ LiveHasJob' /\ runs'[r].job = j
      /\ \A q \in Runs \ {r} : Live(q)' => Live(q) /\ runs'[q].job = runs[q].job
  BY DispatchKeeps
<1>3. TypeOK'
  BY <1>1, <1>2 DEF IInv, TypeOK, Changes
<1>4. TokenWhileActive'
  BY <1>1, ChangeKeepsTokens DEF IInv
<1>5. LockedRowsKeep'
  BY <1>1 DEF IInv, LockedRowsKeep, Changes, RetryableStatuses
<1>6. LeaseExclusive'
  <2>1. \A i \in Jobs : jobs'[i].tok # r
    BY <1>1, NullAssumption DEF Changes, Fresh
  <2>2. ASSUME NEW i \in Jobs
        PROVE  /\ \A k \in Jobs \ {i} : jobs'[i].tok # NoRun => jobs'[k].tok # jobs'[i].tok
               /\ \A q \in Runs \ {r} : Live(q)' /\ jobs'[i].tok = q => runs'[q].job = i
    <3>1. CASE i = j
      BY <1>1, <3>1, NullAssumption DEF Changes
    <3>2. CASE i # j
      BY <1>1, <1>2, <3>2, NullAssumption DEF IInv, LeaseExclusive, Changes
    <3> QED BY <3>1, <3>2
  <2> QED BY <2>1, <2>2 DEF LeaseExclusive, Live
<1> QED BY <1>2, <1>3, <1>4, <1>5, <1>6 DEF IInv

LEMMA UploadKeeps ==
  ASSUME IInv, NEW d \in Docs, NEW j \in Jobs, NEW r \in Runs, Upload(d, j, r)
  PROVE  IInv'
<1>1. docs' \in [Docs -> DocStatuses \cup {"absent"}]
  BY DEF IInv, TypeOK, Upload, DocStatuses
<1>2. jobs[j].st = "absent" /\ Fresh(r) /\ retries' \in SUBSET retries
  BY DEF Upload, FreeJob
<1> QED BY <1>1, <1>2, CreateKeeps DEF Upload

LEMMA RetryCommitKeeps ==
  ASSUME IInv, NEW j \in Jobs, NEW i \in Jobs, NEW r \in Runs, RetryCommit(j, i, r)
  PROVE  IInv'
<1>1. docs' \in [Docs -> DocStatuses \cup {"absent"}] /\ jobs[j].doc \in Docs \cup {NoDoc}
  BY DEF IInv, TypeOK, JobRow, RetryCommit
<1>2. jobs[i].st = "absent" /\ Fresh(r) /\ retries' \in SUBSET retries
  BY DEF RetryCommit, FreeJob
<1> QED BY <1>1, <1>2, CreateKeeps DEF RetryCommit

LEMMA AddMissingJobKeeps ==
  ASSUME IInv, NEW d \in Docs, NEW j \in Jobs, AddMissingJob(d, j)
  PROVE  IInv'
<1>1. Changes(j, "pending", NoRun)
  BY PendingChanges DEF IInv, AddMissingJob
<1>2. TypeOK'
  BY <1>1 DEF IInv, TypeOK, Changes, AddMissingJob
<1>3. ~Locked(j)
  BY LockedStatus DEF IInv, AddMissingJob, FreeJob
<1> QED BY <1>1, <1>2, <1>3, RowStepKeeps DEF AddMissingJob

LEMMA HeartbeatKeeps ==
  ASSUME IInv, NEW r \in Runs, Heartbeat(r)
  PROVE  IInv'
<1> DEFINE j == runs[r].job
<1>1. TypeOK /\ j \in Jobs /\ jobs[j].st = "running" /\ jobs[j].tok = r /\ Touch(j)
      /\ UNCHANGED <<docs, vectors, runs, scan, retries, crashes>>
  BY PointNames DEF IInv, Heartbeat, Beating, Working, LiveHasJob, Live
<1> HIDE DEF j
<1>2. Changes(j, "running", r)
  BY <1>1, TouchChanges
<1>3. TypeOK'
  BY <1>1, <1>2 DEF TypeOK, Changes
<1> QED BY <1>1, <1>2, <1>3, NullAssumption, RowStepKeeps

LEMMA AgeKeeps ==
  ASSUME IInv, NEW j \in Jobs, Age(j)
  PROVE  IInv'
<1> DEFINE e == [jobs[j] EXCEPT !.stale = TRUE]
<1>1. TypeOK /\ jobs[j] \in JobRow /\ jobs[j].st = "running"
      /\ UNCHANGED <<docs, vectors, runs, scan, retries, crashes>>
  BY DEF IInv, TypeOK, Age
<1>2. e \in JobRow /\ e.st = "running" /\ e.tok = jobs[j].tok
  BY <1>1 DEF JobRow
<1>3. jobs' = [jobs EXCEPT ![j] = e]
  BY DEF Age
<1> HIDE DEF e
<1>4. Changes(j, "running", jobs[j].tok)
  BY <1>1, <1>2, <1>3, RowUpdate
<1>5. TypeOK'
  BY <1>1, <1>4 DEF TypeOK, Changes
<1>6. jobs[j].tok # NoRun
  BY <1>1 DEF IInv, TokenWhileActive
<1> QED BY <1>1, <1>4, <1>5, <1>6, RowStepKeeps

LEMMA CancelJobKeeps ==
  ASSUME IInv, NEW j \in Jobs, CancelJob(j)
  PROVE  IInv'
<1>1. TypeOK /\ ~Locked(j) /\ jobs[j].tok \in Runs \cup {NoRun}
      /\ UNCHANGED <<vectors, runs, scan, retries, crashes>>
  BY DEF IInv, TypeOK, JobRow, CancelJob
<1>2. {"cancelled", "cancel_requested"} \subseteq JobStatuses
  BY DEF JobStatuses, ActiveStatuses, TerminalStatuses
<1>3. docs' \in [Docs -> DocStatuses \cup {"absent"}]
  BY DEF IInv, TypeOK, CancelJob, DocStatuses
<1>4. CASE jobs[j].st = "pending" /\ Write(j, "cancelled", NoRun)
  <2>1. Changes(j, "cancelled", NoRun)
    BY <1>1, <1>2, <1>4, WriteChanges
  <2>2. TypeOK'
    BY <1>1, <1>3, <2>1 DEF TypeOK, Changes
  <2> QED BY <1>1, <2>1, <2>2, RowStepKeeps
<1>5. CASE jobs[j].st = "running" /\ Write(j, "cancel_requested", jobs[j].tok)
  <2>1. Changes(j, "cancel_requested", jobs[j].tok) /\ jobs[j].tok # NoRun
    BY <1>1, <1>2, <1>5, WriteChanges DEF IInv, TokenWhileActive
  <2>2. TypeOK'
    BY <1>1, <1>3, <2>1 DEF TypeOK, Changes
  <2> QED BY <1>1, <2>1, <2>2, RowStepKeeps
<1> QED BY <1>4, <1>5 DEF CancelJob

LEMMA PurgeJobKeeps ==
  ASSUME IInv, NEW j \in Jobs, PurgeJob(j)
  PROVE  IInv'
<1>1. TypeOK /\ ~Locked(j) /\ UNCHANGED <<docs, vectors, runs, scan, retries, crashes>>
  BY DEF IInv, PurgeJob
<1>2. NoJobRow \in JobRow /\ NoJobRow.st = "absent" /\ NoJobRow.tok = NoRun
  BY DEF NoJobRow, JobRow
<1>3. Changes(j, "absent", NoRun)
  BY <1>1, <1>2, RowUpdate DEF PurgeJob
<1>4. TypeOK'
  BY <1>1, <1>3 DEF TypeOK, Changes
<1> QED BY <1>1, <1>3, <1>4, RowStepKeeps

\* A step that leaves status and token of every row and moves no execution.
LEMMA StatusesKept ==
  ASSUME IInv, TypeOK', LockedRowsKeep', UNCHANGED runs,
         \A j \in Jobs : jobs'[j].st = jobs[j].st /\ jobs'[j].tok = jobs[j].tok
  PROVE  IInv'
<1>1. LiveHasJob' /\ TokenWhileActive'
  BY DEF IInv, LiveHasJob, TokenWhileActive, Live
<1>2. LeaseExclusive'
  BY DEF IInv, LeaseExclusive, Live
<1> QED BY <1>1, <1>2 DEF IInv

LEMMA DeleteDocumentKeeps ==
  ASSUME IInv, NEW d \in Docs, DeleteDocument(d)
  PROVE  IInv'
<1>1. ASSUME NEW j \in Jobs
      PROVE  jobs'[j] \in JobRow /\ jobs'[j].st = jobs[j].st /\ jobs'[j].tok = jobs[j].tok
  <2>1. jobs[j] \in JobRow
    BY DEF IInv, TypeOK
  <2>2. jobs'[j] = IF jobs[j].doc = d THEN [jobs[j] EXCEPT !.doc = NoDoc] ELSE jobs[j]
    BY DEF DeleteDocument
  <2> QED BY <2>1, <2>2 DEF JobRow
<1>2. jobs' \in [Jobs -> JobRow]
  BY <1>1 DEF DeleteDocument
<1>3. docs' \in [Docs -> DocStatuses \cup {"absent"}] /\ vectors' \in [Docs -> BOOLEAN]
  BY DEF IInv, TypeOK, DeleteDocument
<1>4. TypeOK' /\ LockedRowsKeep' /\ UNCHANGED runs
  BY <1>1, <1>2, <1>3 DEF IInv, TypeOK, LockedRowsKeep, DeleteDocument
<1> QED BY <1>1, <1>4, StatusesKept

LEMMA ScanReadKeeps ==
  ASSUME IInv, NEW j \in Jobs, ScanRead(j)
  PROVE  IInv'
<1>1. TypeOK'
  BY DEF IInv, TypeOK, ScanRead
<1>2. LockedRowsKeep'
  BY DEF IInv, TypeOK, LockedRowsKeep, ScanRead
<1> QED BY <1>1, <1>2, StatusesKept DEF ScanRead

LEMMA ScanAbortKeeps ==
  ASSUME IInv, NEW j \in Jobs, ScanAbort(j)
  PROVE  IInv'
<1>1. TypeOK'
  BY BoundAssumption DEF IInv, TypeOK, ScanAbort
<1>2. LockedRowsKeep'
  BY DEF IInv, TypeOK, LockedRowsKeep, ScanAbort
<1> QED BY <1>1, <1>2, StatusesKept DEF ScanAbort

LEMMA RetryCheckKeeps ==
  ASSUME IInv, NEW j \in Jobs, RetryCheck(j)
  PROVE  IInv'
<1>1. TypeOK' /\ LockedRowsKeep'
  BY DEF IInv, TypeOK, LockedRowsKeep, RetryCheck
<1> QED BY <1>1, StatusesKept DEF RetryCheck

LEMMA RetryAbortKeeps ==
  ASSUME IInv, NEW j \in Jobs, RetryAbort(j)
  PROVE  IInv'
<1>1. TypeOK' /\ LockedRowsKeep'
  BY DEF IInv, TypeOK, LockedRowsKeep, RetryAbort
<1> QED BY <1>1, StatusesKept DEF RetryAbort

\* The row is still what the scan read, so the cancel it commits is one that was
\* asked for.
LEMMA ScanCommitKeeps ==
  ASSUME IInv, NEW j \in Jobs, ScanCommit(j)
  PROVE  IInv' /\ jobs[j].st = "cancel_requested" /\ Changes(j, "cancelled", NoRun)
<1>1. TypeOK /\ jobs[j].st = "cancel_requested" /\ j \notin retries
  BY DEF IInv, LockedRowsKeep, ScanCommit, RetryableStatuses
<1>2. Changes(j, "cancelled", NoRun)
  BY <1>1, WriteChanges DEF ScanCommit, JobStatuses, TerminalStatuses
<1>3. docs' \in [Docs -> DocStatuses \cup {"absent"}]
  BY DEF IInv, TypeOK, ScanCommit, DocStatuses
<1>4. TypeOK'
  BY <1>1, <1>2, <1>3 DEF TypeOK, Changes, ScanCommit
<1>5. LiveHasJob' /\ TokenWhileActive'
  BY <1>2, ChangeKeepsTokens DEF IInv, LiveHasJob, Live, ScanCommit
<1>6. LockedRowsKeep'
  BY <1>1, <1>2 DEF IInv, TypeOK, LockedRowsKeep, Changes, ScanCommit
<1>7. LeaseExclusive'
  <2>1. \A q \in Runs : Live(q)' => Live(q) /\ runs'[q].job = runs[q].job
    BY DEF Live, ScanCommit
  <2> QED BY <1>2, <2>1, ChangeKeepsLeases DEF IInv
<1> QED BY <1>1, <1>2, <1>4, <1>5, <1>6, <1>7 DEF IInv

-----------------------------------------------------------------------------
(* Invariance.                                                             *)

LEMMA InitHolds == Init => IInv
<1> SUFFICES ASSUME Init PROVE IInv
  OBVIOUS
<1>1. NoJobRow \in JobRow /\ NoJobRow.st = "absent" /\ NoJobRow.tok = NoRun
  BY DEF NoJobRow, JobRow
<1>2. IdleRun \in Execution /\ IdleRun.pc = "idle"
  BY DEF IdleRun, Execution, Points
<1>3. TypeOK
  BY <1>1, <1>2, BoundAssumption DEF Init, TypeOK, DocStatuses
<1>4. LiveHasJob /\ TokenWhileActive /\ LeaseExclusive /\ LockedRowsKeep
  BY <1>1, <1>2 DEF Init, LiveHasJob, Live, TokenWhileActive, LeaseExclusive, LockedRowsKeep
<1> QED BY <1>3, <1>4 DEF IInv

LEMMA StutterKeeps == IInv /\ UNCHANGED vars => IInv'
BY DEF IInv, vars, TypeOK, LiveHasJob, Live, TokenWhileActive, LeaseExclusive, LockedRowsKeep

\* The steps of an execution of its own, whatever makes it move.
LEMMA ExecutionKeeps ==
  ASSUME IInv, NEW r \in Runs, Step(r) \/ Raise(r) \/ Die(r)
  PROVE  IInv'
<1>1. Effect(r)
  BY StepEffect, RaiseEffect, DieEffect DEF IInv
<1> QED BY <1>1, EffectKeeps

LEMMA NextKeeps == IInv /\ [Next]_vars => IInv'
<1> SUFFICES ASSUME IInv, [Next]_vars PROVE IInv'
  OBVIOUS
<1>1. CASE UNCHANGED vars
  BY <1>1, StutterKeeps
<1>2. CASE \E r \in Runs : Step(r) \/ Raise(r) \/ Die(r) \/ Heartbeat(r)
  BY <1>2, ExecutionKeeps, HeartbeatKeeps
<1>3. CASE \E j \in Jobs : \/ Age(j) \/ ScanRead(j) \/ ScanCommit(j) \/ ScanAbort(j)
                          \/ CancelJob(j) \/ RetryCheck(j) \/ RetryAbort(j) \/ PurgeJob(j)
  BY <1>3, AgeKeeps, ScanReadKeeps, ScanCommitKeeps, ScanAbortKeeps, CancelJobKeeps,
     RetryCheckKeeps, RetryAbortKeeps, PurgeJobKeeps
<1>4. CASE \E j \in Jobs, r \in Runs : ScanClaim(j, r)
  BY <1>4, ScanClaimKeeps
<1>5. CASE \E d \in Docs, j \in Jobs : AddMissingJob(d, j)
  BY <1>5, AddMissingJobKeeps
<1>6. CASE \E d \in Docs, j \in Jobs, r \in Runs : Upload(d, j, r)
  BY <1>6, UploadKeeps
<1>7. CASE \E j, i \in Jobs, r \in Runs : RetryCommit(j, i, r)
  BY <1>7, RetryCommitKeeps
<1>8. CASE \E d \in Docs : DeleteDocument(d)
  BY <1>8, DeleteDocumentKeeps
<1> QED BY <1>1, <1>2, <1>3, <1>4, <1>5, <1>6, <1>7, <1>8 DEF Next

\* The inductive invariant holds in every reachable state of process_document,
\* the recovery scan and the user requests together.
THEOREM Invariance == Spec => []IInv
BY InitHolds, NextKeeps, PTL DEF Spec

\* Every variable keeps its type.
THEOREM TypeCorrect == Spec => []TypeOK
<1>1. IInv => TypeOK
  BY DEF IInv
<1> QED BY Invariance, <1>1, PTL

\* run_token is set exactly while a row is running or cancel_requested: no terminal
\* update of job_service forgets to clear it and none clears it early.
THEOREM TokenCorrect == Spec => []TokenWhileActive
<1>1. IInv => TokenWhileActive
  BY DEF IInv
<1> QED BY Invariance, <1>1, PTL

\* A token names one lease: two rows never share it, and the live execution that
\* drew it works on the row that carries it.
THEOREM LeaseCorrect == Spec => []LeaseExclusive
<1>1. IInv => LeaseExclusive
  BY DEF IInv
<1> QED BY Invariance, <1>1, PTL

\* What claim_recoverable_jobs and create_retry_job read under a row lock is still
\* true when they commit.
THEOREM LocksCorrect == Spec => []LockedRowsKeep
<1>1. IInv => LockedRowsKeep
  BY DEF IInv
<1> QED BY Invariance, <1>1, PTL

-----------------------------------------------------------------------------
(* The fence.                                                              *)

\* No step of anybody else moves an execution that is alive.
LEMMA OthersDoNotMove ==
  ASSUME IInv, [Next]_vars, NEW r \in Runs, Live(r), runs'[r] # runs[r]
  PROVE  Effect(r)
<1>1. TypeOK /\ LiveHasJob
  BY DEF IInv
<1>2. ASSUME NEW q \in Runs, Step(q) \/ Raise(q) \/ Die(q)
      PROVE  Effect(r)
  <2>1. Effect(q)
    BY <1>1, <1>2, StepEffect, RaiseEffect, DieEffect
  <2>2. q = r
    BY <2>1 DEF Effect, MovesOnly
  <2> QED BY <2>1, <2>2
<1>3. ASSUME NEW q \in Runs, Fresh(q), NEW e, runs' = [runs EXCEPT ![q] = e]
      PROVE  FALSE
  BY <1>1, <1>3 DEF Fresh, TypeOK
<1>4. ASSUME UNCHANGED runs
      PROVE  FALSE
  BY <1>4
<1>5. CASE \E q \in Runs : Step(q) \/ Raise(q) \/ Die(q) \/ Heartbeat(q)
  BY <1>2, <1>4, <1>5 DEF Heartbeat
<1>6. CASE \E j \in Jobs : \/ Age(j) \/ ScanRead(j) \/ ScanCommit(j) \/ ScanAbort(j)
                          \/ CancelJob(j) \/ RetryCheck(j) \/ RetryAbort(j) \/ PurgeJob(j)
  BY <1>4, <1>6 DEF Age, ScanRead, ScanCommit, ScanAbort, CancelJob, RetryCheck, RetryAbort,
     PurgeJob
<1>7. CASE \E j \in Jobs, q \in Runs : ScanClaim(j, q)
  BY <1>3, <1>7 DEF ScanClaim
<1>8. CASE \E d \in Docs, j \in Jobs, q \in Runs : Upload(d, j, q)
  BY <1>3, <1>8 DEF Upload
<1>9. CASE \E j, i \in Jobs, q \in Runs : RetryCommit(j, i, q)
  BY <1>3, <1>9 DEF RetryCommit
<1>10. CASE (\E d \in Docs, j \in Jobs : AddMissingJob(d, j)) \/ (\E d \in Docs : DeleteDocument(d))
  BY <1>4, <1>10 DEF AddMissingJob, DeleteDocument
<1>11. CASE UNCHANGED vars
  BY <1>4, <1>11 DEF vars
<1> QED BY <1>5, <1>6, <1>7, <1>8, <1>9, <1>10, <1>11 DEF Next

\* The fence of run_token on job rows: once its token is not in the row, an
\* execution moves on without renewing, finishing or failing any job.
THEOREM FenceCorrect == Spec => Fenced
<1> DEFINE Lost(r) == /\ Live(r) /\ runs[r].pc \notin {"queued", "loaded"}
                      /\ JobOf(r).tok # runs[r].tok
                      /\ runs'[r] # runs[r]
<1>1. IInv /\ [Next]_vars => [\A r \in Runs : Lost(r) => jobs' = jobs]_vars
  <2>1. ASSUME IInv, [Next]_vars, NEW r \in Runs, Lost(r)
        PROVE  jobs' = jobs
    <3>1. Effect(r)
      BY <2>1, OthersDoNotMove
    <3> QED BY <2>1, <3>1 DEF Effect, Renews, Takes, Ends, Cancels
  <2> QED BY <2>1
<1> QED BY Invariance, <1>1, PTL DEF Spec, Fenced

-----------------------------------------------------------------------------
(* The job table implements its contract.                                  *)

LEMMA ChangeIsMove ==
  ASSUME TypeOK, NEW j \in Jobs, NEW st, NEW tok, Changes(j, st, tok)
  PROVE  jobStatus' = [jobStatus EXCEPT ![j] = st]
BY DEF Changes, jobStatus

LEMMA SameStatuses ==
  ASSUME TypeOK, \A j \in Jobs : jobs'[j].st = jobs[j].st
  PROVE  UNCHANGED jobStatus
BY DEF jobStatus

LEMMA EffectImplements ==
  ASSUME IInv, NEW r \in Runs, Effect(r)
  PROVE  [Contract!Next]_jobStatus
<1> DEFINE j == runs[r].job
<1>1. TypeOK /\ LiveHasJob
  BY DEF IInv
<1>2. /\ j \in Jobs
      /\ \/ UNCHANGED jobs
         \/ jobs[j].st = "running" /\ Changes(j, "running", jobs[j].tok)
         \/ jobs[j].st = "pending" /\ Changes(j, "running", r)
         \/ jobs[j].st = "running" /\ \E st \in {"success", "failed"} : Changes(j, st, NoRun)
         \/ /\ jobs[j].st \in {"cancel_requested", "cancelled"}
            /\ Changes(j, "cancelled", NoRun)
  BY <1>1, EffectChanges DEF JobOf
<1> HIDE DEF j
<1>3. CASE UNCHANGED jobs
  BY <1>3 DEF jobStatus
<1>4. CASE \E st, tok : jobs[j].st = st /\ Changes(j, st, tok)
  <2>1. \A i \in Jobs : jobs'[i].st = jobs[i].st
    BY <1>4 DEF Changes
  <2> QED BY <1>1, <2>1, SameStatuses
<1>5. CASE jobs[j].st = "pending" /\ Changes(j, "running", r)
  <2>1. Contract!Start(j)
    BY <1>1, <1>2, <1>5, ChangeIsMove DEF Contract!Start, Contract!Move, jobStatus
  <2> QED BY <1>2, <2>1 DEF Contract!Next
<1>6. CASE jobs[j].st = "running" /\ \E st \in {"success", "failed"} : Changes(j, st, NoRun)
  <2>1. Contract!Succeed(j) \/ Contract!Fail(j)
    BY <1>1, <1>2, <1>6, ChangeIsMove
       DEF Contract!Succeed, Contract!Fail, Contract!Move, jobStatus
  <2> QED BY <1>2, <2>1 DEF Contract!Next
<1>7. CASE jobs[j].st = "cancel_requested" /\ Changes(j, "cancelled", NoRun)
  <2>1. Contract!Cancel(j)
    BY <1>1, <1>2, <1>7, ChangeIsMove DEF Contract!Cancel, Contract!Move, jobStatus
  <2> QED BY <1>2, <2>1 DEF Contract!Next
<1> QED BY <1>2, <1>3, <1>4, <1>5, <1>6, <1>7

LEMMA RequestImplements ==
  ASSUME IInv, NEW j \in Jobs, \/ CancelJob(j) \/ PurgeJob(j) \/ ScanCommit(j) \/ Age(j)
  PROVE  [Contract!Next]_jobStatus
<1>1. TypeOK
  BY DEF IInv
<1>2. CASE CancelJob(j)
  <2>1. jobs[j].tok \in Runs \cup {NoRun} /\ {"cancelled", "cancel_requested"} \subseteq JobStatuses
    BY <1>1 DEF TypeOK, JobRow, JobStatuses, ActiveStatuses, TerminalStatuses
  <2>2. \/ jobs[j].st = "pending" /\ Changes(j, "cancelled", NoRun)
        \/ jobs[j].st = "running" /\ Changes(j, "cancel_requested", jobs[j].tok)
    BY <1>1, <1>2, <2>1, WriteChanges DEF CancelJob
  <2>3. Contract!Cancel(j) \/ Contract!RequestCancel(j)
    BY <1>1, <2>2, ChangeIsMove
       DEF Contract!Cancel, Contract!RequestCancel, Contract!Move, jobStatus
  <2> QED BY <2>3 DEF Contract!Next
<1>3. CASE PurgeJob(j)
  <2>1. NoJobRow \in JobRow /\ NoJobRow.st = "absent"
    BY DEF NoJobRow, JobRow
  <2>2. Changes(j, "absent", NoJobRow.tok)
    BY <1>1, <1>3, <2>1, RowUpdate DEF PurgeJob
  <2>3. Contract!Purge(j)
    BY <1>1, <1>3, <2>2, ChangeIsMove
       DEF PurgeJob, TerminalStatuses, Contract!Purge, Contract!Terminal, jobStatus
  <2> QED BY <2>3 DEF Contract!Next
<1>4. CASE ScanCommit(j)
  <2>1. jobs[j].st = "cancel_requested" /\ Changes(j, "cancelled", NoRun)
    BY <1>4, ScanCommitKeeps
  <2>2. Contract!Cancel(j)
    BY <1>1, <2>1, ChangeIsMove DEF Contract!Cancel, Contract!Move, jobStatus
  <2> QED BY <2>2 DEF Contract!Next
<1>5. CASE Age(j)
  <2>1. \A i \in Jobs : jobs[i] \in JobRow /\ jobs' = [jobs EXCEPT ![j] = [jobs[j] EXCEPT !.stale = TRUE]]
    BY <1>1, <1>5 DEF Age, TypeOK
  <2>2. \A i \in Jobs : jobs'[i].st = jobs[i].st
    BY <1>1, <2>1 DEF TypeOK, JobRow
  <2> QED BY <1>1, <2>2, SameStatuses
<1> QED BY <1>2, <1>3, <1>4, <1>5

LEMMA CreationImplements ==
  ASSUME IInv, NEW j \in Jobs, NEW d \in Docs \cup {NoDoc}, jobs[j].st = "absent",
         jobs' = [jobs EXCEPT ![j] = PendingRow(d)]
  PROVE  [Contract!Next]_jobStatus
<1>1. TypeOK /\ Changes(j, "pending", NoRun)
  BY PendingChanges DEF IInv
<1>2. Contract!Create(j)
  BY <1>1, ChangeIsMove DEF Contract!Create, Contract!Move, jobStatus
<1> QED BY <1>2 DEF Contract!Next

LEMMA ScanClaimImplements ==
  ASSUME IInv, NEW j \in Jobs, NEW r \in Runs, ScanClaim(j, r)
  PROVE  [Contract!Next]_jobStatus
<1>1. TypeOK /\ Changes(j, "running", r)
  BY WriteChanges DEF IInv, ScanClaim, JobStatuses, ActiveStatuses
<1>2. CASE jobs[j].st = "pending"
  <2>1. Contract!Start(j)
    BY <1>1, <1>2, ChangeIsMove DEF Contract!Start, Contract!Move, jobStatus
  <2> QED BY <2>1 DEF Contract!Next
<1>3. CASE jobs[j].st = "running"
  <2>1. \A i \in Jobs : jobs'[i].st = jobs[i].st
    BY <1>1, <1>3 DEF Changes
  <2> QED BY <1>1, <2>1, SameStatuses
<1> QED BY <1>2, <1>3 DEF ScanClaim

LEMMA HeartbeatImplements ==
  ASSUME IInv, NEW r \in Runs, Heartbeat(r)
  PROVE  [Contract!Next]_jobStatus
<1> DEFINE j == runs[r].job
<1>1. TypeOK /\ j \in Jobs /\ jobs[j].st = "running" /\ Touch(j)
  BY PointNames DEF IInv, Heartbeat, Beating, Working, LiveHasJob, Live
<1> HIDE DEF j
<1>2. Changes(j, "running", jobs[j].tok)
  BY <1>1, TouchChanges
<1>3. \A i \in Jobs : jobs'[i].st = jobs[i].st
  BY <1>1, <1>2 DEF Changes
<1> QED BY <1>1, <1>3, SameStatuses

LEMMA DeletionImplements ==
  ASSUME IInv, NEW d \in Docs, DeleteDocument(d)
  PROVE  [Contract!Next]_jobStatus
<1>1. TypeOK
  BY DEF IInv
<1>2. ASSUME NEW j \in Jobs PROVE jobs'[j].st = jobs[j].st
  <2>1. jobs[j] \in JobRow
    BY <1>1 DEF TypeOK
  <2>2. jobs'[j] = IF jobs[j].doc = d THEN [jobs[j] EXCEPT !.doc = NoDoc] ELSE jobs[j]
    BY DEF DeleteDocument
  <2> QED BY <2>1, <2>2 DEF JobRow
<1> QED BY <1>1, <1>2, SameStatuses

LEMMA NextImplements == IInv /\ [Next]_vars => [Contract!Next]_jobStatus
<1> SUFFICES ASSUME IInv, [Next]_vars PROVE [Contract!Next]_jobStatus
  OBVIOUS
<1>1. ASSUME UNCHANGED jobs PROVE [Contract!Next]_jobStatus
  BY <1>1 DEF jobStatus
<1>2. CASE \E r \in Runs : Step(r) \/ Raise(r) \/ Die(r)
  <2>1. \E r \in Runs : Effect(r)
    BY <1>2, StepEffect, RaiseEffect, DieEffect DEF IInv
  <2> QED BY <2>1, EffectImplements
<1>3. CASE \E r \in Runs : Heartbeat(r)
  BY <1>3, HeartbeatImplements
<1>4. CASE \E j \in Jobs : CancelJob(j) \/ PurgeJob(j) \/ ScanCommit(j) \/ Age(j)
  BY <1>4, RequestImplements
<1>5. CASE \E j \in Jobs : ScanRead(j) \/ ScanAbort(j) \/ RetryCheck(j) \/ RetryAbort(j)
  BY <1>1, <1>5 DEF ScanRead, ScanAbort, RetryCheck, RetryAbort
<1>6. CASE \E j \in Jobs, r \in Runs : ScanClaim(j, r)
  BY <1>6, ScanClaimImplements
<1>7. CASE \E d \in Docs, j \in Jobs : AddMissingJob(d, j)
  BY <1>7, CreationImplements DEF AddMissingJob, FreeJob
<1>8. CASE \E d \in Docs, j \in Jobs, r \in Runs : Upload(d, j, r)
  BY <1>8, CreationImplements DEF Upload, FreeJob
<1>9. CASE \E j, i \in Jobs, r \in Runs : RetryCommit(j, i, r)
  <2>1. PICK j \in Jobs, i \in Jobs, r \in Runs : RetryCommit(j, i, r)
    BY <1>9
  <2>2. jobs[j].doc \in Docs \cup {NoDoc}
    BY DEF IInv, TypeOK, JobRow
  <2> QED BY <2>1, <2>2, CreationImplements DEF RetryCommit, FreeJob
<1>10. CASE \E d \in Docs : DeleteDocument(d)
  BY <1>10, DeletionImplements
<1>11. CASE UNCHANGED vars
  BY <1>1, <1>11 DEF vars
<1> QED
  BY <1>2, <1>3, <1>4, <1>5, <1>6, <1>7, <1>8, <1>9, <1>10, <1>11 DEF Next

\* The job table as GET /api/jobs shows it goes through JobContract: a terminal
\* status is final, and an accepted cancel request ends in cancelled only.
THEOREM ContractImplemented == Spec => ContractSpec
<1>1. Init => Contract!Init
  BY DEF Init, NoJobRow, jobStatus, Contract!Init
<1> QED
  BY Invariance, <1>1, NextImplements, PTL DEF Spec, ContractSpec, Contract!Spec

=============================================================================
