--------------------------- MODULE RebuildEmbeddings ---------------------------
(***************************************************************************)
(* The embedding configuration of the process, the fingerprint the         *)
(* database remembers of it, and the jobs that rebuild the vectors of      *)
(* documents: rebuilds of every account, which a session advisory lock     *)
(* serialises, and rebuilds of one account, which run beside them, as does *)
(* the indexing of new or failed documents.                                *)
(*                                                                         *)
(* All documents belong to the account whose rebuild is modelled, so both  *)
(* kinds scan all of them.  Two configurations differ in their index id.   *)
(* The lease of a job is the module JobLifecycle: here a job has an owner, *)
(* and the worker that stalled or died loses it to another one.            *)
(***************************************************************************)
EXTENDS Naturals, FiniteSets

CONSTANTS
  Configs,       \* embedding configurations, by fingerprint
  NoConfig,      \* no row of embedding_configuration_state, no vectors
  Docs,
  Uploads,       \* the documents that are indexed while rebuilds run
  Rebuilds,      \* job rows of rebuilds
  Kinds,         \* the rebuilds users ask for: "all" accounts, "one" account
  Executions,       \* executions of rebuild_embeddings
  NoExecution, NoDoc, NoRebuild,
  MaxChanges,    \* bound on changes of the settings
  MaxTroubles    \* bound on cancellations, failures, stalls and crashes

ASSUME RebuildNulls ==
  /\ NoConfig \notin Configs /\ NoExecution \notin Executions
  /\ NoDoc \notin Docs /\ NoRebuild \notin Rebuilds
ASSUME RebuildBounds ==
  Kinds \subseteq {"all", "one"} /\ Uploads \subseteq Docs /\ MaxChanges \in Nat /\ MaxTroubles \in Nat

VARIABLES
  config,    \* [is, at]: settings.embedding_*, and how often they were changed
  past,      \* the fingerprints of the settings so far
  stored,    \* embedding_configuration_state.fingerprint
  documents,      \* [Docs -> document]
  rebuilds,  \* [Rebuilds -> job]
  runs,      \* [Executions -> execution]
  lock,      \* who holds GLOBAL_REBUILD_LOCK_ID
  newest,    \* history: the latest settings of a rebuild of all accounts that succeeded
  troubles   \* troubles so far

rebuildVars == <<config, past, stored, documents, rebuilds, runs, lock, newest, troubles>>

-----------------------------------------------------------------------------
Settings == [is : Configs, at : 0 .. MaxChanges]
NoSettings == [is |-> NoConfig, at |-> 0]

\* indexing: where an indexing job is with the document, before or after it replaced the
\* chunks; indexer is the configuration it embeds them with, once it began to.
NoDocument == [status |-> "absent", vectors |-> NoConfig, indexing |-> "no",
               indexer |-> NoConfig]
NoJob == [scope |-> "none", status |-> "none", fingerprint |-> NoConfig, owner |-> NoExecution]

\* left are the documents still to visit; doc is the one at work, was the status it
\* was read with, chunked whether the chunks that were embedded still exist.
IdleRun == [pc |-> "idle", job |-> NoRebuild, provider |-> NoSettings, left |-> {},
            doc |-> NoDoc, was |-> "absent", chunked |-> TRUE, failed |-> FALSE]

Trouble == troubles < MaxTroubles /\ troubles' = troubles + 1

OpenStatuses == {"pending", "running", "cancel_requested"}
Rebuildable(d) == documents[d].status \in {"indexed", "failed"}
\* Rows that were inserted for d and are not committed make others wait who delete
\* its chunks or its vectors.
Inserting(d) == \E w \in Executions : runs[w].pc = "commit" /\ runs[w].doc = d
JobOf(w) == rebuilds[runs[w].job]

\* raise_if_job_stopped lets the worker go on.
StillMine(w) == JobOf(w).owner = w /\ JobOf(w).status = "running"

GoesTo(w, pc) == runs' = [runs EXCEPT ![w].pc = pc]
Ends(w, status) == rebuilds' = [rebuilds EXCEPT ![runs[w].job].status = status]
ReleaseLock(w) == lock' = IF lock = w THEN NoExecution ELSE lock

\* The chunks of d are replaced or deleted: what was embedded of them cannot be
\* inserted any more.
Unchunk(d) == runs' = [w \in Executions |->
                IF runs[w].doc = d THEN [runs[w] EXCEPT !.chunked = FALSE] ELSE runs[w]]

-----------------------------------------------------------------------------
(* Settings, and jobs that they cause.                                     *)

\* update_runtime_settings.
ChangeSettings(c) ==
  /\ config.at < MaxChanges
  /\ c # config.is
  /\ config' = [is |-> c, at |-> config.at + 1]
  /\ past' = past \cup {c}
  /\ UNCHANGED <<stored, documents, rebuilds, runs, lock, newest, troubles>>

\* _initial_rebuild_required, _has_rebuildable_documents.
RebuildRequired ==
  IF stored = NoConfig
  THEN \E d \in Docs : Rebuildable(d) /\ documents[d].vectors # config.is
  ELSE \E d \in Docs : Rebuildable(d)

\* The job that reconcile_embedding_configuration takes for the rebuild it wants.
Reusable(j, c) == /\ rebuilds[j].scope = "all" /\ rebuilds[j].fingerprint = c
                  /\ rebuilds[j].status \in {"pending", "running"}

Submit(j, scope, c) ==
  /\ rebuilds[j] = NoJob
  /\ rebuilds' = [rebuilds EXCEPT ![j] = [scope |-> scope, status |-> "pending",
                                          fingerprint |-> c, owner |-> NoExecution]]

\* reconcile_embedding_configuration: by the request that changed the settings, by
\* one that starts a rebuild, or by a recovery scan.  The fingerprint c was read
\* before the lock was asked for, by one of any number of callers: it may be that of
\* any settings there have been.  The index id of the first rebuild is read with the lock.
Reconcile(j, c) ==
  /\ c \in past /\ stored # c
  /\ stored' = c
  /\ IF RebuildRequired /\ ~\E k \in Rebuilds : Reusable(k, c)
     THEN Submit(j, "all", c)
     ELSE UNCHANGED rebuilds
  /\ UNCHANGED <<config, past, documents, runs, lock, newest, troubles>>

\* start_rebuild_all_embeddings after a reconciliation that made no job, a retry of
\* such a job, and start_rebuild_embeddings.  The settings may have changed since the
\* reconciliation, and since the fingerprint was read.
RequestRebuild(j, scope, c) ==
  /\ IF scope = "all" THEN stored # NoConfig /\ c \in past ELSE c = NoConfig
  /\ Submit(j, scope, c)
  /\ UNCHANGED <<config, past, stored, documents, runs, lock, newest, troubles>>

CancelRebuild(j) ==
  /\ rebuilds[j].status \in {"pending", "running"} /\ Trouble
  /\ rebuilds' = [rebuilds EXCEPT ![j].status =
                    IF @ = "pending" THEN "cancelled" ELSE "cancel_requested"]
  /\ UNCHANGED <<config, past, stored, documents, runs, lock, newest>>

-----------------------------------------------------------------------------
(* rebuild_embeddings.                                                     *)

\* A worker takes a pending job.
StartRebuild(w, j) ==
  /\ runs[w].pc = "idle" /\ rebuilds[j].status = "pending"
  /\ rebuilds' = [rebuilds EXCEPT ![j].status = "running", ![j].owner = w]
  /\ runs' = [runs EXCEPT ![w] = [IdleRun EXCEPT !.job = j,
                !.pc = IF rebuilds[j].scope = "all" THEN "waiting" ELSE "ready"]]
  /\ UNCHANGED <<config, past, stored, documents, lock, newest, troubles>>

\* Recovery gives a running job to another worker once its owner is silent: it died,
\* or it is a trouble.
ResumeRebuild(w, j) ==
  LET o == rebuilds[j].owner IN
  /\ runs[w].pc = "idle" /\ rebuilds[j].status = "running" /\ o # w
  /\ IF runs[o].job = j THEN Trouble ELSE UNCHANGED troubles
  /\ rebuilds' = [rebuilds EXCEPT ![j].owner = w]
  /\ runs' = [runs EXCEPT ![w] = [IdleRun EXCEPT !.job = j,
                !.pc = IF rebuilds[j].scope = "all" THEN "waiting" ELSE "ready"]]
  /\ UNCHANGED <<config, past, stored, documents, lock, newest>>

\* A job that is to be cancelled and whose owner died is cancelled by recovery.
CancelAbandoned(j) ==
  /\ rebuilds[j].status = "cancel_requested"
  /\ runs[rebuilds[j].owner].job # j
  /\ rebuilds' = [rebuilds EXCEPT ![j].status = "cancelled"]
  /\ UNCHANGED <<config, past, stored, documents, runs, lock, newest, troubles>>

\* Mutant of AcquireLock: nobody waits.
EnterAnyway(w) ==
  /\ runs[w].pc = "waiting"
  /\ lock' = w
  /\ GoesTo(w, "ready")
  /\ UNCHANGED <<config, past, stored, documents, rebuilds, newest, troubles>>

\* _GlobalRebuildLock.acquire.
AcquireLock(w) ==
  /\ runs[w].pc = "waiting" /\ lock = NoExecution
  /\ lock' = w
  /\ GoesTo(w, "ready")
  /\ UNCHANGED <<config, past, stored, documents, rebuilds, newest, troubles>>

\* The provider is made of the settings of this moment, then documents are counted.
BeginScan(w) ==
  /\ runs[w].pc = "ready" /\ StillMine(w)
  /\ runs' = [runs EXCEPT ![w].pc = "next", ![w].provider = config,
                          ![w].left = {d \in Docs : Rebuildable(d)}]
  /\ UNCHANGED <<config, past, stored, documents, rebuilds, lock, newest, troubles>>

\* _iter_rebuild_documents yields a document that still qualifies and passes over
\* one that does not.
VisitDocument(w, d) ==
  /\ runs[w].pc = "next" /\ d \in runs[w].left
  /\ StillMine(w)
  /\ runs' = IF Rebuildable(d)
             THEN [runs EXCEPT ![w].pc = "embed", ![w].doc = d, ![w].chunked = TRUE,
                               ![w].was = documents[d].status]
             ELSE [runs EXCEPT ![w].left = runs[w].left \ {d}]
  /\ UNCHANGED <<config, past, stored, documents, rebuilds, lock, newest, troubles>>

\* Vectors of every chunk are spooled and inserted; then the job is looked at, and
\* only then committed.
EmbedDocument(w) ==
  /\ runs[w].pc = "embed" /\ runs[w].chunked /\ StillMine(w)
  /\ ~Inserting(runs[w].doc)
  /\ GoesTo(w, "commit")
  /\ UNCHANGED <<config, past, stored, documents, rebuilds, lock, newest, troubles>>

NextDocument(w, failed) ==
  runs' = [runs EXCEPT
    ![w].pc = "next", ![w].left = runs[w].left \ {runs[w].doc}, ![w].doc = NoDoc,
    ![w].was = "absent", ![w].failed = runs[w].failed \/ failed]

\* The status is written only where it differs from the one that was read.
CommitDocument(w) ==
  LET d == runs[w].doc IN
  /\ runs[w].pc = "commit"
  /\ documents' = [documents EXCEPT ![d].vectors = runs[w].provider.is,
                          ![d].status = IF runs[w].was = "failed" THEN "indexed" ELSE @]
  /\ NextDocument(w, FALSE)
  /\ UNCHANGED <<config, past, stored, rebuilds, lock, newest, troubles>>

\* The provider or an INSERT fails, the latter because chunks were replaced or another
\* one was faster: the document, if it is still there, has failed, whoever works on it.
DocumentFails(w) ==
  LET d == runs[w].doc IN
  /\ runs[w].pc \in {"embed", "commit"} /\ StillMine(w)
  /\ IF runs[w].chunked THEN Trouble ELSE UNCHANGED troubles
  /\ documents' = IF documents[d].status = "absent" THEN documents ELSE [documents EXCEPT ![d].status = "failed"]
  /\ NextDocument(w, TRUE)
  /\ UNCHANGED <<config, past, stored, rebuilds, lock, newest>>

\* complete_running_job, fail_active_job; the lock is released after the last commit.
FinishRebuild(w) ==
  /\ runs[w].pc = "next" /\ runs[w].left = {} /\ StillMine(w)
  /\ Ends(w, IF runs[w].failed THEN "failed" ELSE "success")
  /\ newest' = IF JobOf(w).scope = "all" /\ ~runs[w].failed THEN runs[w].provider.at ELSE newest
  /\ GoesTo(w, "leave")
  /\ UNCHANGED <<config, past, stored, documents, lock, troubles>>

\* Another worker has the job, or it ended, or it is to be cancelled.
StopRebuild(w) ==
  /\ runs[w].pc \in {"ready", "next", "embed"} /\ ~StillMine(w)
  /\ IF JobOf(w).owner = w /\ JobOf(w).status = "cancel_requested"
     THEN Ends(w, "cancelled") ELSE UNCHANGED rebuilds
  /\ GoesTo(w, "leave")
  /\ UNCHANGED <<config, past, stored, documents, lock, newest, troubles>>

\* Something else raises: the job fails, if it is still this worker's.
AbortRebuild(w) ==
  /\ runs[w].pc \in {"waiting", "ready", "next"} /\ StillMine(w) /\ Trouble
  /\ Ends(w, "failed")
  /\ GoesTo(w, "leave")
  /\ UNCHANGED <<config, past, stored, documents, lock, newest>>

\* Mutant of LeaveRebuild: pg_advisory_unlock on another connection.
LeaveLocked(w) ==
  /\ runs[w].pc = "leave"
  /\ runs' = [runs EXCEPT ![w] = IdleRun]
  /\ UNCHANGED <<config, past, stored, documents, rebuilds, lock, newest, troubles>>

\* The finally block, whatever happened before.
LeaveRebuild(w) ==
  /\ runs[w].pc = "leave"
  /\ runs' = [runs EXCEPT ![w] = IdleRun]
  /\ ReleaseLock(w)
  /\ UNCHANGED <<config, past, stored, documents, rebuilds, newest, troubles>>

\* The process dies, its connections with it.
WorkerDies(w) ==
  /\ runs[w].pc # "idle" /\ Trouble
  /\ runs' = [runs EXCEPT ![w] = IdleRun]
  /\ ReleaseLock(w)
  /\ UNCHANGED <<config, past, stored, documents, rebuilds, newest>>

-----------------------------------------------------------------------------
(* Documents are indexed and deleted meanwhile: process_document.          *)

\* A new document, or a retry of one that failed: the status is committed first, and
\* the chunks of a document that had some are still there.
IndexingBegins(d) ==
  /\ d \in Uploads /\ documents[d].status \in {"absent", "failed"}
  /\ documents[d].indexing = "no"
  /\ documents' = [documents EXCEPT ![d].status = "processing", ![d].indexing = "parsing"]
  /\ UNCHANGED <<config, past, stored, rebuilds, runs, lock, newest, troubles>>

\* recreate_document_chunks; the status, which a rebuild may have overwritten, is
\* chunking by then.
IndexingSlices(d) ==
  /\ documents[d].indexing = "parsing" /\ ~Inserting(d)
  /\ documents' = [documents EXCEPT ![d] = [NoDocument EXCEPT !.status = "processing",
                                                              !.indexing = "sliced"]]
  /\ Unchunk(d)
  /\ UNCHANGED <<config, past, stored, rebuilds, lock, newest, troubles>>

\* embed_document_chunks takes the provider of this moment.
IndexingEmbeds(d) ==
  /\ documents[d].indexing = "sliced" /\ documents[d].indexer = NoConfig
  /\ documents' = [documents EXCEPT ![d].indexer = config.is]
  /\ UNCHANGED <<config, past, stored, rebuilds, runs, lock, newest, troubles>>

\* Vectors, summary and tags; the status says summarizing for the longest time.
IndexingEnds(d) ==
  /\ documents[d].indexing = "sliced" /\ documents[d].indexer # NoConfig
  /\ ~Inserting(d)
  /\ documents' = [documents EXCEPT ![d] = [NoDocument EXCEPT !.status = "indexed",
                                                    !.vectors = documents[d].indexer]]
  /\ UNCHANGED <<config, past, stored, rebuilds, runs, lock, newest, troubles>>

DocumentDeleted(d) ==
  /\ d \in Uploads /\ documents[d].status = "indexed"
  /\ documents[d].indexing = "no" /\ ~Inserting(d)
  /\ documents' = [documents EXCEPT ![d] = NoDocument]
  /\ Unchunk(d)
  /\ UNCHANGED <<config, past, stored, rebuilds, lock, newest, troubles>>

-----------------------------------------------------------------------------
\* A database that knows of no configuration yet, or of that of the process.
RebuildInit ==
  /\ config \in [is : Configs, at : {0}]
  /\ past = {config.is}
  /\ stored \in {NoConfig, config.is}
  /\ documents = [d \in Docs |-> IF d \in Uploads THEN NoDocument
                            ELSE [NoDocument EXCEPT !.status = "indexed", !.vectors = config.is]]
  /\ rebuilds = [j \in Rebuilds |-> NoJob]
  /\ runs = [w \in Executions |-> IdleRun]
  /\ lock = NoExecution
  /\ newest = 0 /\ troubles = 0

RebuildStep(w) ==
  \/ \E j \in Rebuilds : StartRebuild(w, j) \/ ResumeRebuild(w, j)
  \/ \E d \in Docs : VisitDocument(w, d)
  \/ AcquireLock(w) \/ BeginScan(w) \/ EmbedDocument(w) \/ CommitDocument(w)
  \/ DocumentFails(w) \/ FinishRebuild(w) \/ StopRebuild(w) \/ AbortRebuild(w)
  \/ LeaveRebuild(w) \/ WorkerDies(w)

RebuildNext ==
  \/ \E c \in Configs : ChangeSettings(c)
  \/ \E j \in Rebuilds : \/ CancelRebuild(j) \/ CancelAbandoned(j)
                         \/ \E c \in Configs : Reconcile(j, c)
                         \/ \E scope \in Kinds, c \in Configs \cup {NoConfig} :
                              RequestRebuild(j, scope, c)
  \/ \E w \in Executions : RebuildStep(w)
  \/ \E d \in Docs : \/ IndexingBegins(d) \/ IndexingSlices(d) \/ IndexingEmbeds(d)
                     \/ IndexingEnds(d) \/ DocumentDeleted(d)

RebuildSpec == RebuildInit /\ [][RebuildNext]_rebuildVars

\* Every call of a worker has a timeout; pending jobs are taken; a worker that waits
\* for the advisory lock gets it when it is free often enough.
RebuildFairness ==
  \A w \in Executions :
    /\ WF_rebuildVars(\E d \in Docs : VisitDocument(w, d))
    /\ WF_rebuildVars(BeginScan(w) \/ EmbedDocument(w) \/ CommitDocument(w) \/ FinishRebuild(w)
                      \/ StopRebuild(w) \/ LeaveRebuild(w))
    /\ WF_rebuildVars(runs[w].chunked = FALSE /\ DocumentFails(w))
    /\ SF_rebuildVars(AcquireLock(w))
    /\ WF_rebuildVars(\E j \in Rebuilds : StartRebuild(w, j) \/ ResumeRebuild(w, j))
  /\ \A j \in Rebuilds : WF_rebuildVars(CancelAbandoned(j))

-----------------------------------------------------------------------------
(* Properties.                                                             *)

RunRecord == [pc : {"idle", "waiting", "ready", "next", "embed", "commit", "leave"},
              job : Rebuilds \cup {NoRebuild}, provider : Settings \cup {NoSettings},
              left : SUBSET Docs, doc : Docs \cup {NoDoc},
              was : {"absent", "indexed", "failed"}, chunked : BOOLEAN, failed : BOOLEAN]

\* Types of every variable; a worker that is past the advisory lock holds it.
RebuildTypeOK ==
  /\ config \in Settings /\ past \in SUBSET Configs /\ stored \in Configs \cup {NoConfig}
  /\ documents \in [Docs -> [status : {"absent", "processing", "indexed", "failed"},
                        vectors : Configs \cup {NoConfig},
                        indexing : {"no", "parsing", "sliced"},
                        indexer : Configs \cup {NoConfig}]]
  /\ rebuilds \in [Rebuilds -> [scope : {"none", "all", "one"},
                                status : OpenStatuses \cup {"none", "success", "failed", "cancelled"},
                                fingerprint : Configs \cup {NoConfig},
                                owner : Executions \cup {NoExecution}]]
  /\ runs \in [Executions -> RunRecord]
  /\ lock \in Executions \cup {NoExecution}
  /\ \A w \in Executions :
       runs[w].pc \in {"ready", "next", "embed", "commit"} /\ JobOf(w).scope = "all" => lock = w
  /\ newest \in 0 .. MaxChanges /\ troubles \in 0 .. MaxTroubles

\* Vectors that a rebuild of all accounts wrote are of settings that are not older
\* than those of any such rebuild that has succeeded: a worker that was given up and
\* goes on, or one that waited long, does not overwrite what a later job made.
NewestRebuildStands ==
  [][\A w \in Executions :
       runs[w].pc = "commit" /\ JobOf(w).scope = "all" /\ documents' # documents /\ runs'[w] # runs[w]
       => runs[w].provider.at >= newest]_rebuildVars

\* No rebuild waits for ever, for the lock or for a worker that is gone.
RebuildsEnd ==
  \A j \in Rebuilds : rebuilds[j].status \in OpenStatuses
                      ~> rebuilds[j].status \in {"success", "failed", "cancelled"}

\* Once a change of the settings is reconciled and no rebuild is open, the vectors of
\* the documents that no upload concerns are of the current settings, unless their
\* rebuild failed.
ChangesAreRebuilt ==
  stored = config.is /\ (\A j \in Rebuilds : rebuilds[j].status \notin OpenStatuses)
  => \A d \in Docs \ Uploads : documents[d].status = "indexed" => documents[d].vectors = config.is

=============================================================================
