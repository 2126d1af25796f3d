# A TLA+ model of personalAI

personalAI is a personal knowledge base: a FastAPI backend over PostgreSQL and an
object store (`src/backend/app`), and a Flutter client (`src/mobile/lib`).  Users
upload documents; background executions parse, chunk, embed and summarise them; a
supervisor in every process picks up what crashed processes left behind; users
search and chat over the result.

What is hard in this program is not any single request.  It is what several
executions, periodic scans, user requests and dying processes do to the same few
rows, each in its own transaction.  That is what the modules here model, what TLC
checks on small instances and what TLAPS proves for all.

## 1. Inventory

Paths are under `src/backend/app` unless they start with `mobile`.

| component | state | operations | hard behaviour | what makes it correct |
|---|---|---|---|---|
| job table (`models/job.py`, `services/job_service.py`) | a row per job: status, run token, document, `updated_at` | add, start, resume, progress, heartbeat, request cancel, complete, fail, retry, purge | every update is one conditional statement, between them anybody may act | a row follows its life cycle; only the holder of the run token writes it; one active job per document |
| indexing worker (`workers/document_pipeline.py`, `services/{parsing,chunking,embedding,enrichment}_service.py`) | position in the pipeline; document status; chunks and vectors | one commit per stage, checks of the job row between them, handlers for cancel and failure | the lease may be lost between a check and a commit; handlers run with what was loaded before | document and job agree; `indexed` means searchable; no document stays in a middle stage |
| recovery supervisor (`workers/job_recovery.py`) | the current scan, counts for readiness | claim stale jobs, finish cancel requests, add missing jobs, dispatch, shut down | scans of several processes; a stale job whose executor is alive; cancellation in the middle of a scan | everything open ends; nothing is executed under two leases; counts return |
| worker limiter (`workers/job_execution.py`) | occupied slots, queue of futures, waiting count | acquire, try-acquire, release from threads, cancellation | threads and event loop share it; the wake-up is a callback that may come late or to a cancelled waiter | no slot lost or used twice; no wake-up lost |
| embedding rebuild and configuration (`workers/document_pipeline.py`, `services/embedding_configuration_service.py`) | fingerprint, checkpoint, advisory lock | reconcile at start, rebuild per document | changes of the model while indexing runs | vectors all of one model; the rebuild ends |
| documents (`services/document_service.py`, `api/routes/documents.py`) | documents, notes, tags of a document | upload, edit, delete, list | deletion while an execution works | no chunk without its document |
| object storage (`storage/`) | files under root or bucket | save, read, delete | not transactional with the database | a document has its file |
| storage deletion outbox (`services/storage_deletion_service.py`, `workers/storage_deletion.py`) | a row per deletion with lease, back-off; wake-up event | enqueue with the deletion, claim, complete, fail, retry now | crash between file and row; late batch; other storage root; lost wake-up | accepted deletions happen once the configuration allows, and nothing else is deleted |
| storage audit (`services/storage_audit_service.py`) | none | report, dispose of one orphan | an upload in flight looks like an orphan | only what nobody refers to is disposed of |
| accounts and sessions (`services/auth_service.py`, `registration_invite_*`) | users, sessions, invitations | register, log in, rotate, log out everywhere, change password, delete account | use of a session or an invitation that is revoked at that moment | an invitation is used once; no session outlives its account |
| limits (`services/login_rate_limit_service.py`, `core/request_*`) | counters with window and block; requests in flight | count, block, clear | concurrent failures, clock of the transaction | a blocked scope is not unblocked early; slots come back |
| maintenance (`services/maintenance_service.py`) | none | purge of expired rows in batches | purge against use | only what is expired goes |
| chat (`services/chat_service.py`) | conversations, messages | ask, regenerate, delete | provider calls between two transactions | message order; nothing after deletion |
| tags, organize (`services/tag_service.py`, `services/enrichment_service.py`) | tags and links of documents, unique names | set the tags of a document, add generated ones, rename, merge, delete | links that appear while a tag is merged away; merges that lock each other's tags | a merge loses no link; merges never wait in a circle |
| text algorithms (`services/chunking_service.py`) | the chunker's position and the parts it carries | paragraphs, page markers, headings, long paragraphs, overlap | offsets at every boundary | chunks are where they say, in order, bounded, and together the text |
| retrieval (`services/retrieval_service.py`) | none | vector and keyword search, fusion | reads only | |
| AI providers (`ai/`, `ai/http_client.py`) | tickets and slots of one limiter | reserve, read, release | threads that were notified wake in any order; slow readers keep slots | limit kept, nobody starves |
| settings and observability (`services/settings_service.py`, `api/routes/health.py`) | configuration; timestamps and failure counts of the loops | change settings, report readiness | times of rounds against intervals and limits that are configured separately | a process that does well is ready |
| mobile session, cache, chat, job polling (`mobile/lib`) | auth state, stored token, cached pages, timers | log in and out, fetch with cache, probe, poll | answers that come after the session or the page was left | no state of one account in the session of another; one recovery at a time |
| mobile screens, migrations, operations | | | | |

The parts meet in the database.  Routes create a document and its job in one
transaction and hand an execution to the limiter; the supervisor scans the job
table and dispatches through the same limiter; executions read the job row before
every stage and write it with a condition on their run token; deletions put a row
into the outbox and set an event that wakes its loop; the client polls job rows.

`PROJECT.json` lists the components with what is and is not modelled, and the
hazards at their lines.

## 2. Modules

| module | models | proofs |
|---|---|---|
| `JobContract` | what a job row promises to a client that polls it | |
| `JobLifecycle` | jobs, documents, executions, recovery scan, requests | `JobLifecycleProofs` |
| `MCJobLifecycle` | the same with a history of competing writers, properties that need it, symmetry | `JobOutcomeProofs` |
| `JobWorkerLimiter` | slots, queue, callbacks, threads and the dispatch of one scan in one process | `JobWorkerLimiterProofs` |
| `StorageContract` | what the outbox promises about a file | |
| `StorageOutbox` | uploads, deletions, batches, operators, storage roots | `StorageOutboxProofs` |
| `DeletionLoop` | the task that runs the batches of one process: wake-ups, interval, shutdown | `DocumentsProofs` |
| `RebuildEmbeddings` | embedding settings, stored fingerprint, rebuild jobs and their advisory lock, next to indexing | `RebuildEmbeddingsProofs` |
| `TextChunks` | from paragraphs to stored chunks | `DocumentsProofs` |
| `DocumentTags` | tags, links, edits and merges with their row locks | `DocumentsProofs` |
| `ChatTurns` | conversations, turns, regenerations, scans | `DocumentsProofs` |
| `Accounts` | users, sessions, invitations, documents of an account, requests | `AccountsProofs` |
| `AttemptLimits` | counters with window, block and sweep | `ServiceProofs` |
| `Readiness` | the two background loops on a clock and the readiness report | `ServiceProofs` |
| `ProviderCalls` | the limiter of calls to AI providers | `ServiceProofs` |
| `MCDocuments` | composes `StorageOutbox`, `RebuildEmbeddings`, `ChatTurns`, `DocumentTags`, `TextChunks`, `DeletionLoop` for safety | `DocumentsProofs` |
| `MCBackground` | composes `StorageOutbox`, `RebuildEmbeddings`, `DeletionLoop`, `ProviderCalls` for liveness | |
| `MCService` | composes `Accounts`, `AttemptLimits`, `Readiness`, `ProviderCalls` for safety | `ServiceProofs` |

The parts that `MCDocuments`, `MCBackground` and `MCService` put together share no
variable: what one does to another is an action of either (indexing that replaces the
chunks a rebuild is embedding is in `RebuildEmbeddings`, a document that is deleted
with its account in `Accounts`).  So a behaviour of these modules is about one part, the
value of `part`, while the others rest in one initial state; the state spaces add up
instead of multiplying.  A run of one of them checks each property in the behaviours of
its part, and one type invariant for all.

### JobLifecycle

`jobs[j]` is a row of `jobs`: `st`, `tok` (`run_token`), `doc` (NULL once the
document is deleted) and `stale` for "`updated_at` is older than the stale limit".
`docs[d]` is the document's status; `vectors[d]` says that its committed chunks
have their embeddings.  `runs[r]` is an execution of `process_document` named by
its run token: where it is, its job, whether it was claimed by recovery, what it
read of the document, whether it has committed its index.  `scan` and `retries`
are transactions that hold a row lock over several statements.

One step is one statement or transaction whose effect others see.  A check of the
job row (`raise_if_job_stopped`) and the commit that follows are two steps, and so
are a handler's read and its write: that gap is where the real program interleaves.
What several statements of one transaction do is one step, as PostgreSQL shows it
at the commit; where a transaction holds a row lock and reads another table, its
read and its commit are two steps with the lock in between (`ScanRead`/`ScanCommit`,
`RetryCheck`/`RetryCommit`).  `Raise` is any exception of any working step, `Die` an
execution that disappears with its process, `Age` time, `Heartbeat` the thread that
touches the row.

Chunks, vectors, summaries, progress numbers and error texts are abstracted to what
the properties need.

### JobWorkerLimiter

One process.  Actors are the event loop, one coroutine step at a time, and the
threads that give slots back.  `pc` follows each wrapper through its future: pending,
granted, cancelled in either, submitted to the executor, in a thread, detached from
its thread.  `grants` are `_grant_waiter` callbacks on the loop, each of which carries
a slot.  `scan` is what `schedule_recoverable_jobs` has in its local variables.

A wrapper that is cancelled while its work item still waits for a thread takes the
item off the executor, and nobody gives its slot back (`pc = "lost"`).  The
program itself cancels wrappers only when the process shuts down, so this costs
nothing then, but it is why `WaitersServed` needs fewer cancellations than slots.

### StorageOutbox

A location is a pair of a storage scope (backend and root or bucket) and a key.
`objects` are files that exist, `docs` locations a document refers to, `uploads`
files whose transaction is still to come, `rows` the table `storage_deletions` (lease
token, expiry, next attempt), `workers` batches of `process_storage_deletion_batch`
in any number of processes, with the claims that are left and the one in hand.
`disposed` remembers which locations an operator disposed of as orphans.

Saving and deleting a file, and every transaction of the outbox, are steps of their
own.  Faults are: a storage call that fails before or after its effect, a database
that refuses to settle a claim, a process that ends, a batch slower than its lease,
a restart with another storage configuration.  `CopyFile` (an operator copies a root)
is outside of the program; it is there because a file under the same key in another
root is what the check of the scope protects.

### DeletionLoop

One process.  `loopAt` is where `run_storage_deletion_loop` waits, `event` the
`asyncio.Event` of `StorageDeletionWakeup`, `batch` the one task of the registry with its
thread, `deletes` the requests that commit rows and then ask the event loop to set the
event.  A step of the event loop goes from one await to the next; the thread reads the
outbox (`ReadOutbox`) and ends on its own.  `missed` is history: requests that set the
event and after whom no batch was started.  The interval, the shutdown and its
time-out are in the model.

### RebuildEmbeddings

`config` is the setting of the process with the number of changes so far, `stored` what
`embedding_configuration_state` remembers.  `documents[d]` has a status, the settings its
vectors were made with, and where an indexing is with it: `IndexingBegins` commits the
status, `IndexingSlices` replaces the chunks in a later transaction.  `rebuilds[j]` is a
job with its scope, fingerprint and owner, `runs[w]` an execution of `rebuild_embeddings`:
waiting for `pg_advisory_lock`, before its scan, at a document, between embedding and
commit.
The provider is taken in `BeginScan`, after the lock, as in the code.  `newest` is
history: the latest settings with which a rebuild of all accounts succeeded.  Cancels,
failed documents, aborted workers, workers that lose their job and go on, and workers that
die with the session that holds the lock are actions; `MaxTroubles` bounds them.

A reconciliation (`Reconcile`) is a transaction of its own and may fail.  It reads the
fingerprint before it waits for its lock, and requests, starts of rebuilds and recovery
scans may all be waiting, so the one it stores is that of any settings so far (`past`),
not only of the current ones; the same holds for the job that `RequestRebuild` makes.

### TextChunks

The machine reads one paragraph at a time: any length out of `Lengths`, with or without
a page marker, a heading or not.  It follows `iter_text_chunks` by what it carries
(`parts`, `page`, `section`) and `_split_long_text` by where it is in a long paragraph
(`from`); a cut is any place `_find_boundary` may choose, and what `strip` removes at its
ends is open.  Offsets are places in the cleaned text.  `persisted` follows the batches of
`_persist_chunks`.

### DocumentTags

`tags` and `links` are what is committed; `edits` and `merges` are transactions, with the
tags they have inserted, links they have deleted and rows they have locked.  PostgreSQL's
part is in the guards: an insertion of a name waits for another transaction that inserted
it, an insertion of a link takes a share lock of its tag and is rejected when the tag
is gone, an update waits for share locks, a deleted row is skipped.  Ids of tags are
numbers since merges lock rows in the order of their ids.

### ChatTurns

`messages` are rows named by the request that wrote them and their rank among its two,
since both have the same time and random ids.  `questions[r]` goes from `Prepare`, which
reads the conversation and the turn a regeneration replaces, over the model call without
a transaction, to `BeginPersist`, which takes the time, and `Persist`.  `scan` is a client
that reads all pages in one direction while others write.

### Accounts

A request is one transaction and its statements are steps as far as others can come in
between.  A log-in reads the user without a lock (`BeginLogin`), takes the lock
(`LockUser`), deletes the sessions beyond the limit (`DeleteStale`, which keeps what it
deleted in `stale`) and makes its own session with the commit (`CommitLogin`, where
`Issue` makes both visible); a change of the password goes the same way.  Each count sees
only what is committed, so two of them at once would make one session too many: it is the
lock that keeps them apart, and the mutant of `SessionsBounded` leaves it out.  `HoldsUser`
and `HoldsInvite` are row locks.
Deletion of an account takes its documents, whose files go to the outbox (`queued`).
`Rollback` ends a request at any point.

### AttemptLimits

`attempts[s]` is a counter row: count, start of its window, end of its block, last update.
A try works with `now`, the time at which its transaction began, while `time` goes on, at
most `MaxLag` further.  `Upsert` is the statement with its CASE expressions, applied to
the latest version of the row.  Failed log-ins count for an account and, when the request
has a client address, for that client; registrations and AI requests for themselves.
`PurgeAttempts` is the maintenance sweep.

### Readiness

For each loop: the task runs or not, when its wait began, when its round started, its
last success, its failures.  The clock counts ticks; a round that is due begins before the
next one, its duration is open.  `ReadinessCheck` is the report as an operator of the
state, of what the database says and of the queue of deletions.

### ProviderCalls

`tickets` and `inFlight` are the two variables under the condition of
`ProviderRequestLimiter`; a thread is asleep, woken and without the lock, or in its
call.  A step is one section under the lock.  `LeaveQueue` is the exception path of
`reserve`: a thread that an exception takes out of its wait removes its ticket, wherever
it is in the queue, and notifies the others.  `CallsServed` says that a thread that sleeps
gets its slot or leaves in this way.

## 3. Runs

| run | instance | shows |
|---|---|---|
| `jobs_safety` | 2 jobs, 1 document, 2 executions, 1 crash, jobs may go stale under a live executor | the safety properties of jobs |
| `jobs_liveness` | 1 job, 1 document, 3 executions, 2 crashes, stale only when the executor is gone | open jobs end, uploads are taken up, stages end |
| `limiter` | 2 background and 2 recovered wrappers, 2 slots, 1 thread, 1 cancellation | the properties of the limiter, safety and liveness |
| `documents` | six parts; outbox: 1 key in 2 scopes, 2 batches, 2 faults; rebuilds: 1 document, 2 jobs, 2 executions, 1 change, 1 trouble; chat: 1 conversation, 3 requests, pages of 1; tags: 1 document, 2 names, 2 edits, 2 merges; chunks: texts up to some 20 characters; loop: 2 requests | the safety properties of what is kept of documents |
| `service` | four parts; accounts: 2 users, 1 address, 1 invitation, 3 sessions for at most 2, 2 requests; limits: one scope of each kind, 2 tries, 4 ticks; readiness: 2 loops, 5 ticks; 4 calls for 2 slots | the safety properties of what a process serves |
| `background` | four parts; the outbox as above with 1 fault, rebuilds without a concurrent indexing, the deletion loop, 4 calls for 2 slots | what must happen in the end |
| `jobs_fencing`, `jobs_cancel`, `jobs_one_active`, `limiter_queue`, `questions_kept`, `rebuild_changes` | small | each finds the disagreement of section 5 |

Why the bounds suffice.  A hazard on a job row takes an old and a new execution or
an execution and a scan; two executions and two rows (an old job and its retry) give
every pair, one crash gives a takeover and `FalseStale` a takeover of a living
executor, without any bound on the number of takeovers since identifiers come back.
Two crashes in the liveness run lose the recovery of a recovery.  In the limiter,
more tasks than slots, more slots than threads, and one cancellation at any point
produce every state of a future.  In the outbox two locations with one key make a
wrong deletion possible, two batches make a batch late, and two faults combine,
for example, a crash and a late batch, or a change of roots and a late batch; keys do
not interact.  Rebuilds need two jobs and two executions (the one that was given up and
its successor), a change of settings and one trouble; the disagreement of
`rebuild_changes` needs a change and a change back, hence two.  A rebuild of one account
does not take the lock; it is among the choices of `rebuild_changes`, and the other runs
are about rebuilds of all (`Kinds`), since `NewestRebuildStands` and the waiting for the
lock are about these.  Three requests in a conversation are a turn, its regeneration and a
turn in between, and with pages of one row every page ends in the middle of a turn.  Two
names, two ids and two merges are the circle two merges could wait in.  Lengths of
paragraphs are one, one below the chunk size, one equal to the maximum and one beyond it,
with sizes that keep the inequalities of the settings.  Two users, one of whom may be the
administrator, with one address, and two requests are every pair of requests on one row;
two sessions of a limit of two and a third are the one that goes.  The clock of the limits
covers a lockout, a retention and a late transaction; that of readiness three intervals
with a limit that is shorter for one loop and longer for the other.

Bounds in guards: `MaxCrashes`, `MaxCancels`, `MaxFaults`, `MaxChanges`, `MaxTroubles`,
`MaxTags`, `MaxLag`, `MaxTime`, `ClockEnd`, `FailureCap`, `MaxFailures`, `MaxText`.
Nothing else is bounded; identifiers of rows, executions, keys and tokens are finite sets
out of which a fresh one is one that nobody mentions (in `ChatTurns` and `DocumentTags`,
and for jobs of rebuilds, each is used once).  In `MCBackground` the scope and
the settings that come first are fixed, since their names make no difference.
`MCDocuments` uses the same few model values for all parts, so that each permutation of
them is a symmetry of the part a behaviour is about.

Every property has a mutant in `PROJECT.json`: a defect of the code under which TLC
finds the property violated.  The mutated definitions are in the modules, before the
definition they are a mutant of.

### Properties

Jobs: `TokenWhileActive`, `LeaseExclusive`, `LockedRowsKeep`, `Fenced` (no execution
without the lease writes a job row), `ContractSpec` (the rows implement
`JobContract`: for one, an accepted cancel is never answered by success),
`SettledOutcome`, `IndexedIsSearchable`, `OutcomesAgree` (documents end, are
searchable when they say so and agree with their jobs, as long as no two writers
competed for them: the history `raced` says when; section 5 shows what happens then),
`JobsEnd`, `UploadsAreTaken`, `StagesEnd`.

Limiter: `SlotsAccounted`, `CapacityKept`, `NoIdleSlot`, `WaitersServed`,
`CapacityReturns`.  `WaitersQueued` and `RecoveryCount` are stated and proved; the run
does not check them.

Files: `DocsKeepFiles`, `LeasesRespected`, `LateBatchesHarmless`, `ContractSpec`
(files follow `StorageContract`: a file of a document is given up only by an accepted
deletion, and a row goes only after its file), `DeletionsEnd`; `WakeupsServed` (who
commits rows and notifies gets a batch that begins afterwards, without the interval).

Rebuilds: `NewestRebuildStands` (a worker that waited or was given up does not write
vectors of older settings than a rebuild of all accounts that succeeded), `RebuildsEnd`.

Chunks: `ChunksFaithful`.  Tags: `MergeKeepsLinks` (a document that has a tag when it is
merged away has the other one afterwards), `MergesDoNotBlock`.  Chat: `NewerTurnsKept`
(a regeneration does not remove what was stored while it was answered), `ScansComplete`
(a client that reads page by page sees each message once, whatever is stored meanwhile).

Accounts: `SessionsBounded`, `InviteAdmitsOnce`, `AccountLeavesNothing`.  Limits:
`CountMeansBlock`, `BlockHolds` (a block ends when it said it would).  Readiness:
`PromptLoopsReady`.  Calls: `CallsServed`; that the count of slots is that of the calls
with a slot is in their type invariant.

`raced` counts as competitors of a document an execution without its lease, two
executions, an execution and a scan that is about to write, and two open jobs.  The last
came out of the proof: with two open jobs, which two retries can make (section 5), a cancel
request on the one that waits overwrites the status that the execution of the other has
written, and that job then fails or succeeds over a cancelled document.  The instance
of the run is too small for it, since it takes a third job.

## 4. Fairness

- `JobLifecycle`: executions go on (provider calls and statements have timeouts, row
  locks are granted in order), time passes, the scan is repeated by a loop that
  survives its own errors and takes rows by creation.  The claim gets strong fairness
  because a small instance may run out of identifiers for a moment, which a uuid4
  does not.  Nothing is assumed of users, errors or crashes.
- `JobWorkerLimiter`: the loop runs what is ready, workers return (timeouts again),
  the executor takes items in order.  Nothing is assumed of arrivals, scans,
  cancellations or the shutdown.
- `StorageOutbox`: batches go on, time passes, and a row that is due again and again
  is taken.  The last holds when the batch size is not less than the number of rows,
  as in the run: `claim_storage_deletions` takes the oldest rows first, so a batch-full
  of old rows that come due again could hold back younger ones; this is listed as a
  hazard that no property covers.  Slow batches are faults, hence finitely many: two
  batches that are always slower than their leases would take turns for ever.

- `DeletionLoop`: the event loop runs what is ready, requests that committed notify, and
  a thread ends.  The interval is not counted upon, so a lost wake-up shows.
- `RebuildEmbeddings`: each call of a worker ends by a time-out, and a failed embedding is
  an outcome; pending and abandoned jobs are taken, by the scan of `JobLifecycle`.
  `AcquireLock` has strong fairness: PostgreSQL grants a lock in the order of arrival,
  while the model keeps no queue, and the lock is free again and again.
- `ProviderCalls`: a thread that was notified runs, and every call ends, by a time-out
  or because its reader goes.

## 5. Findings

Six statements of the documentation do not hold of the code; each has a run in which
TLC shows the trace.

- `jobs_fencing` (`NoSideEffects`): an execution whose lease was taken over still
  commits one document status, since commits between two checks of the job row are
  not conditional on the token.  Job rows are not affected (`Fenced`).
- `jobs_cancel` (`CommittedIndexKept`): the scan finishes cancel requests also of jobs
  whose executor is alive, and marks a document `cancelled` whose complete index was
  committed but whose status was not yet `indexed`.
- `jobs_one_active` (`OneActiveJob`): two retries of two old jobs of one document lock
  different rows and both create a job.
- `limiter_queue` (`ClaimedJobsRun`): permits are bounded by the configured limit, the
  default executor has `min(32, cpus + 4)` threads: claimed jobs may wait in its queue.

- `questions_kept` (`QuestionsKept`): a regeneration deletes the question of the turn along
  with its answers and stores only the new answer; the comment on it says that the question
  stays.
- `rebuild_changes` (`ChangesAreRebuilt`): settings that change and change back before
  anybody reconciles leave the vectors of a rebuild that took its provider in between, and
  the fingerprint shows no reason to rebuild them.

Seen while modelling, and not the subject of a run:

- A log-in with an old password hash verifies it without a lock and writes a new hash of
  the password at its commit (`auth_service.py:199`, `BeginLogin` to `CommitLogin`): a
  password that was changed in between is the old one again.
- An indexing puts together the tags it reads after the model has answered and the generated
  ones, and does not lock the document (`enrichment_service.py:71`, `BeginEnrich`); tags the
  user sets between this read and the deletion of the old links are overwritten.
- When the limiter of provider calls gives a slot to the oldest ticket, it does not notify:
  with several slots free at once the next oldest may sleep although a slot is free, until
  another call returns (`http_client.py:45`).  `CallsServed` holds all the same, but only
  because every call that is under way ends.
- A chunk that begins with the tail of the one before may exceed `max_chunk_size` by the
  overlap and two characters; `ChunksFaithful` bounds it by that.

## 6. Proofs

Every invariant, action property and refinement that a passing run checks is proved, for
all values of the constants, under the assumptions named in the modules: NULLs are not
identifiers, bounds are numbers, tasks are finite and disjoint, sizes are positive, the
retention of attempts covers a lockout and the age of a transaction, and the parts a
composition is run with are among its parts.

**Jobs** (`JobLifecycleProofs`).  `TypeOK`, `TokenWhileActive`, `LeaseExclusive`,
`LockedRowsKeep`, `Fenced` and `ContractSpec`.  `LeaseExclusive` is not inductive: a
claim hands out a token that is fresh now, and one has to know that no sleeping
execution carries it and that an execution's record says which token it would write.
`IInv` adds what each point of an execution implies about its record; the contract
then follows step by step.

**Outcomes** (`JobOutcomeProofs`).  `IndexedIsSearchable`, `SettledOutcome`,
`OutcomesAgree`.  Rows of jobs are fenced, the status of a document is not: these three
hold because, without competition, the execution that writes a document holds its only
open job (`SoleExecution`).  `DInv` says along the pipeline what the document shows at each
point of that execution (`Stage`: chunking while chunks are replaced, indexed before the
job succeeds, failed before it fails, embeddings stored once it says they are), what
a scan that holds a row has read (`ScanSaw`), and that a document with neither execution
nor open job shows an end (`Settled`).  A step is looked at for the document it writes
and, by what an execution leaves alone, for any other.

**Limiter** (`JobWorkerLimiterProofs`).  `TypeOK`, `SlotsAccounted`, `CapacityKept`,
`NoIdleSlot`, `WaitersQueued`, `RecoveryCount`.  `LInv` is their conjunction with the
shape of a scan in progress and the fact that recovered wrappers never wait for a
permit: `NoIdleSlot` alone is not inductive, since who leaves the queue decides
whether a free slot may stay free, and the count of slots needs to know that one
wrapper is never both granted and queued.  The half of `CapacityKept` about threads is
only interesting here: the instance of the run has one thread.

**Outbox** (`StorageOutboxProofs`).  `TypeOK`, `DocsKeepFiles`, `LeasesRespected`,
`LateBatchesHarmless` and `ContractSpec`.  `DocsKeepFiles` becomes inductive as
`Protected`: not only a document but also an upload that waits for its commit has its
file, no row, and no batch that holds a claim on it.  That a row goes only after its
file is `GoneForGood`: if a claim deleted its file and its token is still in the row,
then the file is gone, and it cannot have come back, since a key with a row or a claim
is no new key.  `StepFacts` says once what one step can do to rows, claims and files.

**Rebuilds** (`RebuildEmbeddingsProofs`).  Type correctness and `NewestRebuildStands`.  The
property is about a commit; the reason is three steps earlier.  An execution takes its
provider while it holds the advisory lock, and only a holder's success moves `newest`, so
the settings of whoever is past the lock are not older (`RunFits`).  For this to be kept,
jobs must keep their scope (`ScopesStay`): a rebuild of one account never holds the lock.

**Accounts** (`AccountsProofs`).  Type correctness, `SessionsBounded`, `InviteAdmitsOnce`,
`AccountLeavesNothing`.  `AInv` has four parts: rows fit each other (a session has its
account, a file has its owner or is queued), every request is as its position says
(`RequestFits`: past its lock the user exists, the invitation is unused), what a request
has counted leaves room for its session (`HasRoom`), and any two requests are `Apart`,
which is what the row locks give.  A step then has to be looked at once for the rows, once
for the request that moves and once for any other.  `Retained` makes `HasRoom` true when
`DeleteStale` counts; that it still is at the commit follows from `Apart`: whoever adds a
session holds the row of its user, or registers a user that is nobody else's
(`RoomStays`).

**Limits** (`ServiceProofs`).  Type correctness, `CountMeansBlock`, `BlockHolds`.  A
transaction may be late by `MaxLag`, so a block may reach `Lockout + MaxLag` beyond the last
update of its row; the sweep goes by the last update, and the assumption on the retention is
exactly what keeps it from a block in force.

**Readiness** (`ServiceProofs`).  `PromptLoopsReady`, for all intervals and limits.  It
becomes inductive as `Fresh`: a loop that waits has succeeded no longer than an interval
ago, and a round began within an interval of the last success; `PastOnly` keeps times in
the past.

**Calls** (`ServiceProofs`).  `CallsTypeOK`: never more calls than the limit, and `inFlight` is
the number of calls that hold a slot.  `CallsInv` adds that a thread has a ticket exactly
while it is in its reserve, and only one, so a thread that leaves takes away its own.

**Tags** (`DocumentsProofs`).  `MergesDoNotBlock`, from what a merge has locked being
below what it has still to lock.  `MergeKeepsLinks` and the types, which say that names are
unique and no link outlives its tag, from `TInv`: what a merge has copied is all there is
to copy until it commits, because no edit can link a locked row (`MergeFits`); an edit
keeps the rows it links from being locked and owns the tags it inserted (`EditFits`); no two
edits insert the same name or id (`Apart`).

**Chat** (`DocumentsProofs`).  `ScansComplete` for any page size and any number of turns;
`NewerTurnsKept`; the types.  `CInv` says of a scan that it has every row up to its cursor
that was there all the time, and no row beyond it (`ScanFits`).  A page moves the cursor to
its last row, which exists because every finite ordered set that is not empty has a last
element (`LastOf`, by the well-foundedness of the strict subset order on finite sets).  A
regeneration removes part of what it found when it was prepared, and times of turns are
unique (`QuestionFits`), which makes the place of a row in the order its own.

**Chunks** (`DocumentsProofs`).  `ChunksFaithful` for texts of any length, whatever the
sizes, the overlap and the cuts.  `ChInv` says where each character is that has been read:
in a chunk, in the parts that wait for the next one, or in the rest of a long paragraph
(`Covered`).  `PartsFit` bounds the parts and places them behind the last chunk; `SplitFits`
places the pieces of a long paragraph, whose overlap is more than what is stripped from
both sides of a cut.  Each of the machine's steps is a lemma.

**Loop** (`DocumentsProofs`).  The types of `DeletionLoop`, by which readiness reports a
batch exactly while the registry tracks one.

**Compositions** (`DocumentsParts`, `ServiceParts`).  A behaviour of `MCDocuments` or
`MCService` is a behaviour of each part's own specification: the part it is about takes its
steps, the others rest.  So every theorem about a part, stated of the part alone, holds
in the composition that a run checks, and `DocumentsTypeOK` and `ServiceTypeOK` are the
conjunctions of the parts' types.

Only model-checked: liveness (`JobsEnd`, `UploadsAreTaken`, `StagesEnd`, `WaitersServed`,
`CapacityReturns`, `DeletionsEnd`, `WakeupsServed`, `RebuildsEnd`, `CallsServed`), since the
prover reasons neither about ENABLED nor about fairness; and of course the
disagreements of section 5, which are counterexamples.

## 7. Not modelled

- The client (`mobile/lib`): a second program, one Dart isolate with its token storage,
  cache and timers.  Its hazards (answers of a session that was left, late answers over
  newer pages) are listed in `PROJECT.json`; a model of it would be a project beside
  this one that shares nothing with it but the API.
- Retrieval: reads and scores, without a state to keep.  Organize creates one document from
  a prompt.  Notes and listing are one insert and reads.
- The middlewares of `core/request_*`: each counts the requests in flight up to a limit.
- Parsers of file formats, prompts, ranking, the text of answers: no state; their
  failures are steps of executions and requests.
- HTTP clients of the providers beyond their limiter: what they answer is a choice of
  the modules that call them.
- Migrations, deployment and backup scripts, logging and metrics, layout and navigation of
  the client.

Hazards without a property are listed with the reason: besides those of the client, what
an executor does to items in its queue at the shutdown time-out, batches of deletions that
take the oldest rows first, and the two overwritten values above.
