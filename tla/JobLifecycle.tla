----------------------------- MODULE JobLifecycle -----------------------------
(***************************************************************************)
(* Document indexing jobs: the rows of the tables jobs and documents, the  *)
(* executions of process_document that work on them, the recovery scan     *)
(* that claims or cancels jobs, and the user requests that create, cancel, *)
(* retry and delete.                                                       *)
(*                                                                         *)
(* One step is one statement or transaction whose effect others can see.   *)
(* A check of the job row and the commit that follows it are two steps:    *)
(* everything hard about this code happens between them.                   *)
(*                                                                         *)
(* An execution is named by its run token.  The code draws a uuid4 at the  *)
(* start or at the recovery claim; here an identifier may be drawn again   *)
(* once no job row and no execution mentions it, so the model is finite    *)
(* and a token is still never confused with an older one.                  *)
(***************************************************************************)
EXTENDS Naturals, FiniteSets

CONSTANTS
  Jobs,        \* identities of job rows
  Docs,        \* identities of documents
  Runs,        \* identities of executions, which are also the run tokens
  NoRun,       \* the NULL run_token
  NoJob,       \* no job: the value of an idle execution
  NoDoc,       \* the NULL document_id
  MaxCrashes,  \* bound on executions that disappear with their process
  FalseStale   \* may a job age while its executor is alive and beating?

ASSUME NullAssumption == NoRun \notin Runs /\ NoJob \notin Jobs /\ NoDoc \notin Docs
ASSUME BoundAssumption == MaxCrashes \in Nat /\ FalseStale \in BOOLEAN

VARIABLES
  jobs,     \* [Jobs -> job row]; status "absent" is a row that does not exist
  docs,     \* [Docs -> status]; "absent" is a document that does not exist
  vectors,  \* [Docs -> BOOLEAN]: every committed chunk has its embeddings
  runs,     \* [Runs -> execution]
  scan,     \* a recovery transaction that read a document and will write it
  retries,  \* originals whose retry transaction passed its checks
  crashes   \* executions lost so far

vars == <<jobs, docs, vectors, runs, scan, retries, crashes>>

-----------------------------------------------------------------------------
ActiveStatuses == {"pending", "running", "cancel_requested"}
TerminalStatuses == {"success", "failed", "cancelled"}
RetryableStatuses == {"failed", "cancelled"}
JobStatuses == ActiveStatuses \cup TerminalStatuses
DocStatuses == {"uploaded", "parsing", "chunking", "summarizing", "indexed",
                "failed", "cancelled"}

\* Where an execution can be in process_document; the name is what it did last
\* or is about to do.  A working execution may raise.
WorkingPoints == {"claimed", "parsing", "parsed", "chunking", "slicing", "sliced",
                  "embedding", "embedded", "ready", "enriching", "summarizing",
                  "enriched", "finishing"}
HandlerPoints == {"failing", "failDoc", "failJob", "orphaned", "cancelling", "marking"}
Points == {"idle", "queued", "loaded"} \cup WorkingPoints \cup HandlerPoints

NoJobRow == [st |-> "absent", tok |-> NoRun, doc |-> NoDoc, stale |-> FALSE]
PendingRow(d) == [st |-> "pending", tok |-> NoRun, doc |-> d, stale |-> FALSE]

IdleRun == [pc |-> "idle", job |-> NoJob, doc |-> NoDoc, tok |-> NoRun,
            resumed |-> FALSE, seen |-> "other", ready |-> FALSE]
QueuedRun(r, j, d, resumed) ==
  [pc |-> "queued", job |-> j, doc |-> d, tok |-> r,
   resumed |-> resumed, seen |-> "other", ready |-> FALSE]

Live(r) == runs[r].pc # "idle"
Working(r) == runs[r].pc \in WorkingPoints
JobOf(r) == jobs[runs[r].job]
Exists(d) == d # NoDoc /\ docs[d] # "absent"

\* A uuid4 that nobody mentions.
Fresh(r) == /\ ~Live(r)
            /\ \A j \in Jobs : jobs[j].tok # r
            /\ \A q \in Runs : runs[q].tok # r
FreeJob(j) == /\ jobs[j].st = "absent"
              /\ \A q \in Runs : Live(q) => runs[q].job # j
FreeDoc(d) == /\ ~Exists(d)
              /\ \A q \in Runs : Live(q) => runs[q].doc # d

\* The row lock of job j is held by a recovery transaction or by a retry.
Locked(j) == scan[j] # "no" \/ j \in retries

\* An UPDATE of a job row; updated_at moves with every one of them.
Write(j, st, tok) ==
  jobs' = [jobs EXCEPT ![j] = [@ EXCEPT !.st = st, !.tok = tok, !.stale = FALSE]]
Touch(j) == Write(j, jobs[j].st, jobs[j].tok)

-----------------------------------------------------------------------------
(* Steps of an execution: its control state.                               *)

Goto(r, pc) == runs' = [runs EXCEPT ![r] = [@ EXCEPT !.pc = pc]]
\* ... forgetting what was loaded, which nothing reads again.
Leave(r, pc) ==
  runs' = [runs EXCEPT ![r] = [@ EXCEPT !.pc = pc, !.seen = "other", !.resumed = FALSE]]
Finish(r) == runs' = [runs EXCEPT ![r] = IdleRun]

\* Mutant of Owns: the row exists, its token is not compared.
OwnsAnyRow(r) == JobOf(r).st # "absent"

\* raise_if_job_stopped, which is also what a conditional update of no row
\* leads to.  A missing row and a foreign token both end the execution with
\* nothing written.
Owns(r) == JobOf(r).tok = runs[r].tok
GoesOn(r) == Owns(r) /\ JobOf(r).st = "running"
CancelSeen(r) == Owns(r) /\ JobOf(r).st \in {"cancel_requested", "cancelled"}

Stopped(r) == \/ CancelSeen(r) /\ Goto(r, "cancelling")
              \/ ~GoesOn(r) /\ ~CancelSeen(r) /\ Finish(r)

\* The raise_if_job_stopped between two commits.
Check(r, from, to) ==
  /\ runs[r].pc = from
  /\ \/ GoesOn(r) /\ Goto(r, to)
     \/ Stopped(r)
  /\ UNCHANGED <<jobs, docs, vectors, scan, retries, crashes>>

\* update_running_job: progress and updated_at, only for the holder of the lease.
\* A token that is rotated between the update and the read that follows it ends
\* the execution here; in the model the next check does.
Progress(r, from, to) ==
  /\ runs[r].pc = from
  /\ \/ /\ GoesOn(r)
        /\ Touch(runs[r].job)
        /\ Goto(r, to)
     \/ Stopped(r) /\ UNCHANGED jobs
  /\ UNCHANGED <<docs, vectors, scan, retries, crashes>>

\* document.status := s; commit.  Not conditional on the lease.  A row deleted
\* meanwhile makes the ORM's UPDATE match nothing, which raises.
CommitDocStatus(r, s, to) ==
  IF Exists(runs[r].doc)
  THEN docs' = [docs EXCEPT ![runs[r].doc] = s] /\ Leave(r, to)
  ELSE UNCHANGED docs /\ Leave(r, "failing")

Mark(r, from, s, to) ==
  /\ runs[r].pc = from
  /\ CommitDocStatus(r, s, to)
  /\ UNCHANGED <<jobs, vectors, scan, retries, crashes>>

\* Index rows of d are locked by the uncommitted writes of another execution.
Uncommitted(d, r, pcs) ==
  \E q \in Runs \ {r} : runs[q].pc \in pcs /\ runs[q].doc = d

-----------------------------------------------------------------------------
(* process_document.                                                       *)

\* Reads the job and the document.  A cancel request found here is finished on
\* behalf of whoever holds the token in the row.
Load(r) ==
  LET j == JobOf(r)
      d == runs[r].doc
      seen == IF docs[d] \in {"absent", "parsing"} THEN docs[d] ELSE "other"
  IN  /\ runs[r].pc = "queued" /\ d # NoDoc
      /\ \/ j.st \in TerminalStatuses \cup {"absent"} /\ Finish(r)
         \/ /\ j.st = "cancel_requested"
            /\ IF j.tok = NoRun
               THEN Finish(r)
               ELSE runs' = [runs EXCEPT ![r] = [@ EXCEPT !.pc = "cancelling", !.tok = j.tok,
                                                       !.resumed = FALSE]]
         \/ /\ j.st \in {"pending", "running"}
            /\ runs' = [runs EXCEPT ![r] = [@ EXCEPT !.pc = "loaded", !.seen = seen]]
      /\ UNCHANGED <<jobs, docs, vectors, scan, retries, crashes>>

\* run_recoverable_job finds no branch for an index job whose document was
\* deleted before the scan, and fails it.
LoadOrphan(r) ==
  /\ runs[r].pc = "queued" /\ runs[r].doc = NoDoc
  /\ IF JobOf(r).st = "absent" THEN Finish(r) ELSE Leave(r, "orphaned")
  /\ UNCHANGED <<jobs, docs, vectors, scan, retries, crashes>>

\* start_job for a background task, resume_job for a recovered one.
Claimable(r) == IF runs[r].resumed
                THEN JobOf(r).st = "running" /\ JobOf(r).tok = r
                ELSE JobOf(r).st = "pending"

Claim(r) ==
  LET j == runs[r].job IN
  /\ runs[r].pc = "loaded"
  /\ IF Claimable(r)
     THEN /\ Write(j, "running", r)
          /\ runs' = [runs EXCEPT ![r] = [@ EXCEPT !.pc = "claimed", !.resumed = FALSE]]
     ELSE /\ IF jobs[j].st \in {"cancel_requested", "cancelled"}
             THEN Leave(r, "cancelling")
             ELSE Finish(r)
          /\ UNCHANGED jobs
  /\ UNCHANGED <<docs, vectors, scan, retries, crashes>>

\* A document that was gone when it was loaded fails the job.  The ORM writes
\* nothing when the loaded status was parsing already.
StartParsing(r) ==
  /\ runs[r].pc = "claimed"
  /\ CASE runs[r].seen = "absent" -> Leave(r, "orphaned") /\ UNCHANGED docs
       [] runs[r].seen = "parsing" -> Leave(r, "parsing") /\ UNCHANGED docs
       [] OTHER -> CommitDocStatus(r, "parsing", "parsing")
  /\ UNCHANGED <<jobs, vectors, scan, retries, crashes>>

Parse(r) == Check(r, "parsing", "parsed")
StartChunking(r) == Mark(r, "parsed", "chunking", "chunking")
ReportChunking(r) == Progress(r, "chunking", "slicing")

\* recreate_document_chunks, flushed but not committed, then the check.  The
\* DELETE and the unique (document, index) key wait for other writers of this
\* document's index rows.
RecreateChunks(r) ==
  /\ runs[r].pc = "slicing"
  /\ ~Uncommitted(runs[r].doc, r, {"sliced", "embedded"})
  /\ IF Exists(runs[r].doc)
     THEN \/ GoesOn(r) /\ Goto(r, "sliced")
          \/ Stopped(r)
     ELSE Goto(r, "failing")
  /\ UNCHANGED <<jobs, docs, vectors, scan, retries, crashes>>

\* The progress update at 70 percent commits the new chunks, whether or not it
\* matched the job row; the old embeddings go with the old chunks.
CommitChunks(r) ==
  /\ runs[r].pc = "sliced"
  /\ vectors' = [vectors EXCEPT ![runs[r].doc] = FALSE]
  /\ \/ /\ GoesOn(r)
        /\ Touch(runs[r].job)
        /\ Goto(r, "embedding")
     \/ Stopped(r) /\ UNCHANGED jobs
  /\ UNCHANGED <<docs, scan, retries, crashes>>

\* embed_document_chunks for whatever chunks the document has, flushed but not
\* committed, then the check.  Chunks replaced while the provider answered make
\* the INSERT fail (Raise); the DELETE waits for a writer deleting the same rows.
EmbedChunks(r) ==
  LET d == runs[r].doc IN
  /\ runs[r].pc = "embedding"
  /\ ~Uncommitted(d, r, {"sliced"})
  /\ vectors[d] => ~Uncommitted(d, r, {"embedded"})
  /\ IF Exists(d)
     THEN \/ GoesOn(r) /\ Goto(r, "embedded")
          \/ Stopped(r)
     ELSE Goto(r, "failing")
  /\ UNCHANGED <<jobs, docs, vectors, scan, retries, crashes>>

CommitEmbeddings(r) ==
  /\ runs[r].pc = "embedded"
  /\ vectors' = [vectors EXCEPT ![runs[r].doc] = TRUE]
  /\ runs' = [runs EXCEPT ![r] = [@ EXCEPT !.pc = "ready", !.ready = TRUE]]
  /\ UNCHANGED <<jobs, docs, scan, retries, crashes>>

ReportEnriching(r) == Progress(r, "ready", "enriching")
StartSummarizing(r) == Mark(r, "enriching", "summarizing", "summarizing")

\* Enrichment cannot fail the job: a provider error is recorded in metadata.
Enrich(r) == Check(r, "summarizing", "enriched")
\* Mutant of MarkIndexed: the status of a finished job in the document's column.
MarkIndexedAsJob(r) == Mark(r, "enriched", "success", "finishing")
MarkIndexed(r) == Mark(r, "enriched", "indexed", "finishing")

\* Mutant of Terminate: the token stays in the row.
TerminateKeepsToken(r, from, st) ==
  /\ runs[r].pc = from
  /\ \/ /\ GoesOn(r)
        /\ Write(runs[r].job, st, JobOf(r).tok)
        /\ Finish(r)
     \/ Stopped(r) /\ UNCHANGED jobs
  /\ UNCHANGED <<docs, vectors, scan, retries, crashes>>

\* Mutant of Terminate: the update asks for the token, not for status running.
TerminateAnyStatus(r, from, st) ==
  /\ runs[r].pc = from
  /\ \/ /\ JobOf(r).tok = runs[r].tok
        /\ Write(runs[r].job, st, NoRun)
        /\ Finish(r)
     \/ Stopped(r) /\ UNCHANGED jobs
  /\ UNCHANGED <<docs, vectors, scan, retries, crashes>>

\* A terminal update by the holder of the lease clears the token.
Terminate(r, from, st) ==
  /\ runs[r].pc = from
  /\ \/ /\ GoesOn(r)
        /\ Write(runs[r].job, st, NoRun)
        /\ Finish(r)
     \/ Stopped(r) /\ UNCHANGED jobs
  /\ UNCHANGED <<docs, vectors, scan, retries, crashes>>

Complete(r) == Terminate(r, "finishing", "success")

\* Mutant of Raise: the handler settles the job and forgets the document.
RaiseSkipsDoc(r) == /\ Working(r)
                    /\ Leave(r, "failJob")
                    /\ UNCHANGED <<jobs, docs, vectors, scan, retries, crashes>>

\* Parser, provider, lock timeout, database: any working step may raise; what
\* was not committed is rolled back.
Raise(r) == /\ Working(r)
            /\ Leave(r, "failing")
            /\ UNCHANGED <<jobs, docs, vectors, scan, retries, crashes>>

CheckFailing(r) == Check(r, "failing", "failDoc")

\* The status of a document, written by an exception handler that looked it up.
SettleDoc(r, from, s, to) ==
  /\ runs[r].pc = from
  /\ docs' = IF Exists(runs[r].doc) THEN [docs EXCEPT ![runs[r].doc] = s] ELSE docs
  /\ Goto(r, to)
  /\ UNCHANGED <<jobs, vectors, scan, retries, crashes>>

FailDoc(r) == SettleDoc(r, "failDoc", "failed", "failJob")
FailJob(r) == Terminate(r, "failJob", "failed")
\* The document was gone when the execution began.
FailOrphan(r) == Terminate(r, "orphaned", "failed")

\* Mutants of CancelDoc: the document is only touched when its index is complete;
\* a cancelled document always counts as indexed.
CancelDocForgets(r) ==
  IF runs[r].ready
  THEN SettleDoc(r, "cancelling", "indexed", "marking")
  ELSE /\ runs[r].pc = "cancelling" /\ Goto(r, "marking")
       /\ UNCHANGED <<jobs, docs, vectors, scan, retries, crashes>>
CancelDocAsIndexed(r) == SettleDoc(r, "cancelling", "indexed", "marking")

\* _cancel_document_processing: the document first, the job second.
CancelDoc(r) ==
  SettleDoc(r, "cancelling", IF runs[r].ready THEN "indexed" ELSE "cancelled", "marking")

\* Mutant of MarkCancelled: the row is written without waiting for its lock.
MarkCancelledUnlocked(r) ==
  LET j == runs[r].job IN
  /\ runs[r].pc = "marking"
  /\ IF jobs[j].tok = runs[r].tok /\ jobs[j].st \in {"cancel_requested", "cancelled"}
     THEN Write(j, "cancelled", NoRun)
     ELSE UNCHANGED jobs
  /\ Finish(r)
  /\ UNCHANGED <<docs, vectors, scan, retries, crashes>>

MarkCancelled(r) ==
  LET j == runs[r].job IN
  /\ runs[r].pc = "marking"
  /\ ~Locked(j)
  /\ IF jobs[j].tok = runs[r].tok /\ jobs[j].st \in {"cancel_requested", "cancelled"}
     THEN Write(j, "cancelled", NoRun)
     ELSE UNCHANGED jobs
  /\ Finish(r)
  /\ UNCHANGED <<docs, vectors, scan, retries, crashes>>

\* What an execution does next of its own accord.
Step(r) ==
  \/ Load(r) \/ LoadOrphan(r) \/ Claim(r) \/ StartParsing(r) \/ Parse(r) \/ StartChunking(r)
  \/ ReportChunking(r) \/ RecreateChunks(r) \/ CommitChunks(r) \/ EmbedChunks(r)
  \/ CommitEmbeddings(r) \/ ReportEnriching(r) \/ StartSummarizing(r) \/ Enrich(r)
  \/ MarkIndexed(r) \/ Complete(r) \/ CheckFailing(r) \/ FailDoc(r) \/ FailJob(r) \/ FailOrphan(r)
  \/ CancelDoc(r) \/ MarkCancelled(r)

\* The process dies, or an exception escapes the handlers: the execution is gone
\* and its open transaction is rolled back.
Die(r) == /\ Live(r)
          /\ crashes < MaxCrashes
          /\ crashes' = crashes + 1
          /\ Finish(r)
          /\ UNCHANGED <<jobs, docs, vectors, scan, retries>>

-----------------------------------------------------------------------------
(* Heartbeats and time.                                                    *)

Holds(r, j) == Live(r) /\ runs[r].job = j /\ jobs[j].tok = r

\* touch_running_job, from the thread that an execution starts after its claim and
\* stops when it leaves its last handler.
Beating(r) == Working(r) \/ runs[r].pc \in {"failing", "failDoc", "failJob"}

Heartbeat(r) ==
  LET j == runs[r].job IN
  /\ Beating(r)
  /\ jobs[j].st = "running" /\ jobs[j].tok = r /\ jobs[j].stale
  /\ Touch(j)
  /\ UNCHANGED <<docs, vectors, runs, scan, retries, crashes>>

\* stale_job_after_minutes pass without an update of the row.
Age(j) ==
  /\ jobs[j].st = "running" /\ ~jobs[j].stale
  /\ FalseStale \/ ~\E r \in Runs : Holds(r, j)
  /\ jobs' = [jobs EXCEPT ![j] = [@ EXCEPT !.stale = TRUE]]
  /\ UNCHANGED <<docs, vectors, runs, scan, retries, crashes>>

-----------------------------------------------------------------------------
(* The recovery scan, claim_recoverable_jobs.  A batch of n jobs is n steps: *)
(* a scan whose free capacity is one does just that.                       *)

\* Mutants of ScanClaim: one token drawn for more than one claim; running jobs
\* are left to the next restart.
ScanClaimSharesToken(j, r) ==
  /\ \/ jobs[j].st = "pending"
     \/ jobs[j].st = "running" /\ jobs[j].stale
  /\ ~Locked(j)
  /\ ~Live(r)
  /\ Write(j, "running", r)
  /\ runs' = [runs EXCEPT ![r] = QueuedRun(r, j, jobs[j].doc, TRUE)]
  /\ UNCHANGED <<docs, vectors, scan, retries, crashes>>
ScanClaimPending(j, r) ==
  /\ jobs[j].st = "pending"
  /\ ~Locked(j)
  /\ Fresh(r)
  /\ Write(j, "running", r)
  /\ runs' = [runs EXCEPT ![r] = QueuedRun(r, j, jobs[j].doc, TRUE)]
  /\ UNCHANGED <<docs, vectors, scan, retries, crashes>>

\* A pending job, or a running one that is stale, gets a new token and an
\* execution of its own.
ScanClaim(j, r) ==
  /\ \/ jobs[j].st = "pending"
     \/ jobs[j].st = "running" /\ jobs[j].stale
  /\ ~Locked(j)
  /\ Fresh(r)
  /\ Write(j, "running", r)
  /\ runs' = [runs EXCEPT ![r] = QueuedRun(r, j, jobs[j].doc, TRUE)]
  /\ UNCHANGED <<docs, vectors, scan, retries, crashes>>

\* Mutant of ScanRead: the document of a cancelled job is not looked at.
ScanReadSkipsDoc(j) ==
  /\ jobs[j].st = "cancel_requested"
  /\ ~Locked(j)
  /\ scan' = [scan EXCEPT ![j] = "keep"]
  /\ UNCHANGED <<jobs, docs, vectors, runs, retries, crashes>>

\* A cancel request is finished on the spot.  The row is locked, the document is
\* only read: what was seen decides what the commit writes.
ScanRead(j) ==
  /\ jobs[j].st = "cancel_requested"
  /\ ~Locked(j)
  /\ scan' = [scan EXCEPT ![j] =
                IF jobs[j].doc = NoDoc \/ docs[jobs[j].doc] \in {"absent", "indexed", "cancelled"}
                THEN "keep" ELSE "cancel"]
  /\ UNCHANGED <<jobs, docs, vectors, runs, retries, crashes>>

ScanCommit(j) ==
  /\ scan[j] # "no"
  /\ Write(j, "cancelled", NoRun)
  /\ docs' = IF scan[j] = "cancel" THEN [docs EXCEPT ![jobs[j].doc] = "cancelled"] ELSE docs
  /\ scan' = [scan EXCEPT ![j] = "no"]
  /\ UNCHANGED <<vectors, runs, retries, crashes>>

\* The statement timeout or a lost connection rolls the scan back.
ScanAbort(j) ==
  /\ scan[j] # "no"
  /\ crashes < MaxCrashes
  /\ crashes' = crashes + 1
  /\ scan' = [scan EXCEPT ![j] = "no"]
  /\ UNCHANGED <<jobs, docs, vectors, runs, retries>>

\* Mutant of AddMissingJob: the search joins on the jobs a document has.
AddMissingJobOfKnown(d, j) ==
  /\ docs[d] = "uploaded"
  /\ \E i \in Jobs : jobs[i].doc = d
  /\ FreeJob(j)
  /\ jobs' = [jobs EXCEPT ![j] = PendingRow(d)]
  /\ UNCHANGED <<docs, vectors, runs, scan, retries, crashes>>

\* add_missing_document_jobs: an uploaded document that never had a job.  The same
\* transaction goes on to claim in the order of creation and may reach its limit
\* before the new row, which then stays pending.
AddMissingJob(d, j) ==
  /\ docs[d] = "uploaded"
  /\ \A i \in Jobs : jobs[i].doc # d
  /\ FreeJob(j)
  /\ jobs' = [jobs EXCEPT ![j] = PendingRow(d)]
  /\ UNCHANGED <<docs, vectors, runs, scan, retries, crashes>>

-----------------------------------------------------------------------------
(* Requests of the user.                                                   *)

\* Document and job in one transaction, then the background task.
Upload(d, j, r) ==
  /\ FreeDoc(d) /\ FreeJob(j) /\ Fresh(r)
  /\ docs' = [docs EXCEPT ![d] = "uploaded"]
  /\ jobs' = [jobs EXCEPT ![j] = PendingRow(d)]
  /\ runs' = [runs EXCEPT ![r] = QueuedRun(r, j, d, FALSE)]
  /\ UNCHANGED <<vectors, scan, retries, crashes>>

CancelJob(j) ==
  /\ ~Locked(j)
  /\ \/ /\ jobs[j].st = "pending"
        /\ Write(j, "cancelled", NoRun)
        /\ docs' = IF jobs[j].doc = NoDoc THEN docs
                   ELSE [docs EXCEPT ![jobs[j].doc] = "cancelled"]
     \/ /\ jobs[j].st = "running"
        /\ Write(j, "cancel_requested", jobs[j].tok)
        /\ UNCHANGED docs
  /\ UNCHANGED <<vectors, runs, scan, retries, crashes>>

\* create_retry_job locks the original alone, then looks for an active job.
RetryCheck(j) ==
  /\ jobs[j].st \in RetryableStatuses
  /\ ~Locked(j)
  /\ jobs[j].doc # NoDoc
  /\ \A i \in Jobs : jobs[i].st \in ActiveStatuses => jobs[i].doc # jobs[j].doc
  /\ retries' = retries \cup {j}
  /\ UNCHANGED <<jobs, docs, vectors, runs, scan, crashes>>

\* The new row and the commit, then the background task.  The document's status
\* stays what it was.
RetryCommit(j, i, r) ==
  /\ j \in retries
  /\ FreeJob(i) /\ Fresh(r)
  /\ jobs' = [jobs EXCEPT ![i] = PendingRow(jobs[j].doc)]
  /\ runs' = [runs EXCEPT ![r] = QueuedRun(r, i, jobs[j].doc, FALSE)]
  /\ retries' = retries \ {j}
  /\ UNCHANGED <<docs, vectors, scan, crashes>>

\* A failed request, or the victim of the deadlock with a concurrent deletion.
RetryAbort(j) ==
  /\ j \in retries
  /\ retries' = retries \ {j}
  /\ UNCHANGED <<jobs, docs, vectors, runs, scan, crashes>>

\* delete_document: chunks and embeddings go with the row, jobs keep a NULL.
DeleteDocument(d) ==
  /\ Exists(d)
  /\ \A j \in Jobs : jobs[j].doc = d => ~Locked(j)
  /\ \A r \in Runs : runs[r].pc \in {"sliced", "embedded"} => runs[r].doc # d
  /\ docs' = [docs EXCEPT ![d] = "absent"]
  /\ vectors' = [vectors EXCEPT ![d] = FALSE]
  /\ jobs' = [j \in Jobs |-> IF jobs[j].doc = d THEN [jobs[j] EXCEPT !.doc = NoDoc] ELSE jobs[j]]
  /\ UNCHANGED <<runs, scan, retries, crashes>>

\* The maintenance sweep drops terminal jobs past their retention.
PurgeJob(j) ==
  /\ jobs[j].st \in TerminalStatuses
  /\ ~Locked(j)
  /\ jobs' = [jobs EXCEPT ![j] = NoJobRow]
  /\ UNCHANGED <<docs, vectors, runs, scan, retries, crashes>>

-----------------------------------------------------------------------------
\* A new database, or one left by a version that wrote document and job in two
\* transactions: documents without a job.
Init ==
  /\ jobs = [j \in Jobs |-> NoJobRow]
  /\ docs \in [Docs -> {"absent", "uploaded"}]
  /\ vectors = [d \in Docs |-> FALSE]
  /\ runs = [r \in Runs |-> IdleRun]
  /\ scan = [j \in Jobs |-> "no"]
  /\ retries = {}
  /\ crashes = 0

Next ==
  \/ \E r \in Runs : Step(r) \/ Raise(r) \/ Die(r) \/ Heartbeat(r)
  \/ \E j \in Jobs : \/ Age(j) \/ ScanRead(j) \/ ScanCommit(j) \/ ScanAbort(j)
                     \/ CancelJob(j) \/ RetryCheck(j) \/ RetryAbort(j) \/ PurgeJob(j)
  \/ \E j \in Jobs, r \in Runs : ScanClaim(j, r)
  \/ \E d \in Docs, j \in Jobs : AddMissingJob(d, j)
  \/ \E d \in Docs, j \in Jobs, r \in Runs : Upload(d, j, r)
  \/ \E j, i \in Jobs, r \in Runs : RetryCommit(j, i, r)
  \/ \E d \in Docs : DeleteDocument(d)

Spec == Init /\ [][Next]_vars

\* A thread that has work goes on (every provider call has a timeout; row locks
\* are granted in order, hence the strong form), time passes, and the scan is
\* repeated for the life of the process and takes rows in the order of their
\* creation.  A uuid4 is never in short supply but an identifier of a small
\* instance is: strong fairness of the claim makes up for that.  Nothing is
\* assumed of users, crashes or errors.
Fairness ==
  /\ \A r \in Runs : SF_vars(Step(r))
  /\ \A j \in Jobs : /\ WF_vars(Age(j))
                     /\ SF_vars(\E r \in Runs : ScanClaim(j, r))
                     /\ WF_vars(ScanRead(j)) /\ WF_vars(ScanCommit(j))
  /\ \A d \in Docs : WF_vars(\E j \in Jobs : AddMissingJob(d, j))

FairSpec == Spec /\ Fairness

-----------------------------------------------------------------------------
(* Properties.                                                             *)

\* Types of every variable.
JobRow == [st : JobStatuses \cup {"absent"}, tok : Runs \cup {NoRun},
           doc : Docs \cup {NoDoc}, stale : BOOLEAN]
Execution == [pc : Points, job : Jobs \cup {NoJob}, doc : Docs \cup {NoDoc},
              tok : Runs \cup {NoRun}, resumed : BOOLEAN,
              seen : {"absent", "parsing", "other"}, ready : BOOLEAN]
TypeOK ==
  /\ jobs \in [Jobs -> JobRow]
  /\ docs \in [Docs -> DocStatuses \cup {"absent"}]
  /\ vectors \in [Docs -> BOOLEAN]
  /\ runs \in [Runs -> Execution]
  /\ scan \in [Jobs -> {"no", "keep", "cancel"}]
  /\ retries \in SUBSET Jobs
  /\ crashes \in 0 .. MaxCrashes

\* A row carries a token exactly while somebody may still finish it: the token
\* is written with running, survives the cancel request, and is cleared by every
\* terminal update.
TokenWhileActive ==
  \A j \in Jobs : jobs[j].tok # NoRun <=> jobs[j].st \in {"running", "cancel_requested"}

\* No two rows carry the same token, and an execution that is alive under a
\* token works on the row that carries it: a lease is never shared.
LeaseExclusive ==
  \A j \in Jobs :
    /\ \A i \in Jobs \ {j} : jobs[j].tok # NoRun => jobs[i].tok # jobs[j].tok
    /\ \A r \in Runs : Live(r) /\ jobs[j].tok = r => runs[r].job = j

\* A row that is locked by a scan or by a retry is in the status that the
\* transaction read: nobody moved it between the read and the commit.
LockedRowsKeep ==
  \A j \in Jobs : /\ scan[j] # "no" => jobs[j].st = "cancel_requested"
                  /\ j \in retries => jobs[j].st \in RetryableStatuses

\* Rows in the job table follow the contract of JobContract.
jobStatus == [j \in Jobs |-> jobs[j].st]
Contract == INSTANCE JobContract WITH job <- jobStatus
ContractSpec == Contract!Spec

\* The fence on job rows: an execution whose token is not in the row of its job
\* neither renews, finishes nor fails any job with its own steps.  The first
\* claim of a background task is what puts the token there.
Fenced ==
  [][\A r \in Runs :
       /\ Live(r) /\ runs[r].pc \notin {"queued", "loaded"}
       /\ JobOf(r).tok # runs[r].tok
       /\ runs'[r] # runs[r]
       => jobs' = jobs]_vars

=============================================================================
