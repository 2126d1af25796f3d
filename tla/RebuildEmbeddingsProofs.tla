------------------------- MODULE RebuildEmbeddingsProofs -------------------------
(***************************************************************************)
(* Rebuilds of all accounts never put older vectors in the place of newer  *)
(* ones, for any number of workers, jobs, documents and configurations.    *)
(*                                                                         *)
(* The provider of a rebuild is made under the advisory lock, of settings  *)
(* that only get newer, and newest grows only in a step of the holder: so  *)
(* whoever is past the lock has a provider that is not older than newest.  *)
(* A worker that lost its job keeps the lock until it has left, and its    *)
(* successor, which might be faster, waits for that.                       *)
(***************************************************************************)
EXTENDS RebuildEmbeddings, TLAPS

DocRecord == [status : {"absent", "processing", "indexed", "failed"},
              vectors : Configs \cup {NoConfig}, indexing : {"no", "parsing", "sliced"},
              indexer : Configs \cup {NoConfig}]
JobRecord == [scope : {"none", "all", "one"},
              status : OpenStatuses \cup {"none", "success", "failed", "cancelled"},
              fingerprint : Configs \cup {NoConfig}, owner : Executions \cup {NoExecution}]

Inside == {"ready", "next", "embed", "commit"}
Provided == {"next", "embed", "commit"}

\* The record r of execution w, while holder has the lock, latest is newest and the
\* settings were changed at times.
RunFits(w, r, jobs, holder, latest, at) ==
  r.pc # "idle" =>
    /\ r.job \in Rebuilds /\ jobs[r.job].scope # "none"
    /\ r.pc \in {"embed", "commit"} => r.doc \in Docs
    /\ r.pc \in Provided => r.provider.at \in Nat /\ r.provider.at <= at
    /\ jobs[r.job].scope = "all" /\ r.pc \in Inside => holder = w
    /\ jobs[r.job].scope = "all" /\ r.pc \in Provided => latest <= r.provider.at

JobFits(job) == job.scope = "none" => job.status = "none"

\* All but what the documents are.
BInv ==
  /\ config \in Settings /\ past \in SUBSET Configs /\ stored \in Configs \cup {NoConfig}
  /\ rebuilds \in [Rebuilds -> JobRecord] /\ \A j \in Rebuilds : JobFits(rebuilds[j])
  /\ runs \in [Executions -> RunRecord]
  /\ \A w \in Executions : RunFits(w, runs[w], rebuilds, lock, newest, config.at)
  /\ lock \in Executions \cup {NoExecution}
  /\ newest \in 0 .. MaxChanges /\ newest <= config.at /\ troubles \in 0 .. MaxTroubles

DInv == documents \in [Docs -> DocRecord]

-----------------------------------------------------------------------------
(* Jobs keep the scope they were made with.                                *)

ScopesStay == \A j \in Rebuilds : rebuilds[j].scope # "none" => rebuilds'[j].scope = rebuilds[j].scope

JobsFit(jobs) == jobs \in [Rebuilds -> JobRecord] /\ \A j \in Rebuilds : JobFits(jobs[j])

LEMMA JobChanges ==
  ASSUME BInv, NEW j \in Rebuilds, NEW job \in JobRecord, JobFits(job),
         rebuilds[j].scope # "none" => job.scope = rebuilds[j].scope,
         rebuilds' = [rebuilds EXCEPT ![j] = job]
  PROVE  ScopesStay /\ JobsFit(rebuilds')
BY DEF BInv, ScopesStay, JobsFit

LEMMA StatusChanges ==
  ASSUME BInv, NEW j \in Rebuilds, rebuilds[j].status # "none",
         NEW status \in OpenStatuses \cup {"success", "failed", "cancelled"},
         rebuilds' = [rebuilds EXCEPT ![j].status = status]
  PROVE  ScopesStay /\ JobsFit(rebuilds')
<1> DEFINE job == [rebuilds[j] EXCEPT !.status = status]
<1>1. rebuilds[j] \in JobRecord /\ JobFits(rebuilds[j])
  BY DEF BInv
<1>2. job \in JobRecord /\ job.scope = rebuilds[j].scope
  BY <1>1 DEF JobRecord
<1>3. JobFits(job)
  BY <1>1, <1>2 DEF JobFits
<1>4. rebuilds' = [rebuilds EXCEPT ![j] = job]
  BY DEF BInv
<1> HIDE DEF job
<1> QED
  BY <1>2, <1>3, <1>4, JobChanges

LEMMA JobsStay == BInv /\ UNCHANGED rebuilds => ScopesStay /\ JobsFit(rebuilds')
BY DEF BInv, ScopesStay, JobsFit

LEMMA Submitted ==
  ASSUME BInv, NEW j \in Rebuilds, NEW scope \in {"all", "one"}, NEW c \in Configs \cup {NoConfig},
         Submit(j, scope, c)
  PROVE  ScopesStay /\ JobsFit(rebuilds')
<1> DEFINE job == [scope |-> scope, status |-> "pending", fingerprint |-> c, owner |-> NoExecution]
<1>1. job \in JobRecord /\ job.scope = scope
  BY DEF JobRecord, OpenStatuses
<1>2. rebuilds[j].scope = "none"
  BY DEF Submit, NoJob
<1>3. rebuilds' = [rebuilds EXCEPT ![j] = job]
  BY DEF Submit
<1> HIDE DEF job
<1> QED
  BY <1>1, <1>2, <1>3, JobChanges DEF JobFits

-----------------------------------------------------------------------------
(* A step that leaves the lock and newest alone.                           *)

\* What RunFits looks at.
SameScan(r, s) == s.pc = r.pc /\ s.job = r.job /\ s.doc = r.doc /\ s.provider = r.provider

LEMMA RunStays ==
  ASSUME BInv, ScopesStay, NEW w \in Executions, NEW s, SameScan(runs[w], s),
         NEW at \in Nat, config.at <= at
  PROVE  RunFits(w, s, rebuilds', lock, newest, at)
<1>1. RunFits(w, runs[w], rebuilds, lock, newest, config.at) /\ config.at \in Nat
  BY RebuildBounds DEF BInv, Settings
<1> QED
  BY <1>1 DEF RunFits, SameScan, ScopesStay, Provided

\* Settings, jobs or documents change; chunks may go, which RunFits does not look at.
LEMMA RunsStay ==
  ASSUME BInv, ScopesStay, JobsFit(rebuilds'),
         config' \in Settings, config.at <= config'.at, past' \in SUBSET Configs,
         stored' \in Configs \cup {NoConfig},
         UNCHANGED <<lock, newest>>, troubles' \in 0 .. MaxTroubles,
         runs' \in [Executions -> RunRecord],
         \A w \in Executions : SameScan(runs[w], runs'[w])
  PROVE  BInv'
<1>1. config'.at \in Nat /\ config.at \in Nat /\ newest \in Nat
  BY RebuildBounds DEF BInv, Settings
<1>2. \A w \in Executions : RunFits(w, runs'[w], rebuilds', lock, newest, config'.at)
  BY <1>1, RunStays
<1>3. \A w \in Executions : RunFits(w, runs[w], rebuilds, lock, newest, config.at)'
  BY <1>2 DEF RunFits, Inside, Provided
<1>4. \A j \in Rebuilds : JobFits(rebuilds[j])'
  BY DEF JobsFit, JobFits
<1> QED
  BY <1>1, <1>3, <1>4 DEF BInv, JobsFit, JobRecord, OpenStatuses, RunRecord, Settings

\* Execution w takes the record s.
LEMMA RunMoves ==
  ASSUME BInv, ScopesStay, JobsFit(rebuilds'), NEW w \in Executions, NEW s \in RunRecord,
         UNCHANGED <<config, past, stored>>, troubles' \in 0 .. MaxTroubles,
         runs' = [runs EXCEPT ![w] = s],
         RunFits(w, s, rebuilds', lock', newest', config.at),
         lock' \in Executions \cup {NoExecution}, lock' # lock => lock \in {NoExecution, w},
         newest' \in 0 .. MaxChanges, newest' <= config.at,
         newest' # newest => lock = w
  PROVE  BInv'
<1>1. runs' \in [Executions -> RunRecord] /\ runs'[w] = s
      /\ \A v \in Executions \ {w} : runs'[v] = runs[v]
  BY DEF BInv
<1>2. config.at \in Nat
  BY RebuildBounds DEF BInv, Settings
<1>3. ASSUME NEW v \in Executions PROVE RunFits(v, runs'[v], rebuilds', lock', newest', config.at)
  <2>1. CASE v = w
    BY <1>1, <2>1
  <2>2. CASE v # w
    <3>1. RunFits(v, runs[v], rebuilds', lock, newest, config.at)
      BY <1>2, RunStays DEF SameScan
    <3>2. v # NoExecution
      BY RebuildNulls
    <3> QED
      BY <1>1, <2>2, <3>1, <3>2 DEF RunFits, Inside, Provided
  <2> QED
    BY <2>1, <2>2
<1>4. \A v \in Executions : RunFits(v, runs[v], rebuilds, lock, newest, config.at)'
  BY <1>3 DEF RunFits, Inside, Provided
<1>5. \A j \in Rebuilds : JobFits(rebuilds[j])'
  BY DEF JobsFit, JobFits
<1> QED
  BY <1>1, <1>4, <1>5 DEF BInv, JobsFit, JobRecord, OpenStatuses, RunRecord, Settings

-----------------------------------------------------------------------------
(* The steps, all but what they do to documents.                           *)

LEMMA BInvFirst == RebuildInit => BInv
<1> SUFFICES ASSUME RebuildInit PROVE BInv
  OBVIOUS
<1>1. config \in Settings /\ config.at = 0 /\ past \in SUBSET Configs
      /\ stored \in Configs \cup {NoConfig}
  BY RebuildBounds DEF RebuildInit, Settings
<1>2. NoJob \in JobRecord /\ JobFits(NoJob)
  BY DEF NoJob, JobRecord, JobFits, OpenStatuses
<1>3. IdleRun \in RunRecord /\ IdleRun.pc = "idle"
  BY DEF IdleRun, RunRecord
<1>4. runs \in [Executions -> RunRecord] /\ \A w \in Executions : runs[w].pc = "idle"
  BY <1>3 DEF RebuildInit
<1>5. rebuilds \in [Rebuilds -> JobRecord] /\ \A j \in Rebuilds : JobFits(rebuilds[j])
  BY <1>2 DEF RebuildInit
<1>6. lock = NoExecution /\ newest = 0 /\ troubles = 0
  BY DEF RebuildInit
<1> QED
  BY <1>1, <1>4, <1>5, <1>6, RebuildBounds DEF BInv, RunFits

LEMMA TroubleCounts == BInv /\ Trouble => troubles' \in 0 .. MaxTroubles
BY RebuildBounds DEF BInv, Trouble

\* Nothing of a run but perhaps chunked changes.
LEMMA UnchunkAlike ==
  ASSUME BInv, NEW d, Unchunk(d)
  PROVE  runs' \in [Executions -> RunRecord] /\ \A w \in Executions : SameScan(runs[w], runs'[w])
<1>1. ASSUME NEW w \in Executions PROVE runs'[w] \in RunRecord /\ SameScan(runs[w], runs'[w])
  <2> DEFINE r == [runs[w] EXCEPT !.chunked = FALSE]
  <2>1. runs[w] \in RunRecord
    BY DEF BInv
  <2>2. r \in RunRecord /\ SameScan(runs[w], r) /\ SameScan(runs[w], runs[w])
    BY <2>1 DEF RunRecord, SameScan
  <2>3. runs'[w] = IF runs[w].doc = d THEN r ELSE runs[w]
    BY DEF Unchunk
  <2> QED
    BY <2>1, <2>2, <2>3
<1>2. runs' = [w \in Executions |-> runs'[w]]
  BY DEF Unchunk
<1> QED
  BY <1>1, <1>2

LEMMA ChangeSettingsKeeps == ASSUME BInv, NEW c \in Configs, ChangeSettings(c) PROVE BInv'
<1>1. config' \in Settings /\ config.at <= config'.at /\ past' \in SUBSET Configs
  BY RebuildBounds DEF BInv, ChangeSettings, Settings
<1> QED
  BY <1>1, JobsStay, RunsStay DEF ChangeSettings, BInv, SameScan

LEMMA ReconcileKeeps ==
  ASSUME BInv, NEW j \in Rebuilds, NEW c \in Configs, Reconcile(j, c) PROVE BInv'
<1>1. config.at \in Nat
  BY RebuildBounds DEF BInv, Settings
<1>2. ScopesStay /\ JobsFit(rebuilds')
  BY <1>1, JobsStay, Submitted DEF Reconcile
<1> QED
  BY <1>1, <1>2, RunsStay DEF Reconcile, BInv, SameScan

LEMMA RequestKeeps ==
  ASSUME BInv, NEW j \in Rebuilds, NEW scope \in Kinds, NEW c \in Configs \cup {NoConfig},
         RequestRebuild(j, scope, c)
  PROVE  BInv'
<1>1. config.at \in Nat
  BY RebuildBounds DEF BInv, Settings
<1>2. ScopesStay /\ JobsFit(rebuilds')
  BY <1>1, RebuildBounds, Submitted DEF RequestRebuild
<1> QED
  BY <1>1, <1>2, RunsStay DEF RequestRebuild, BInv, SameScan

LEMMA CancelKeeps ==
  ASSUME BInv, NEW j \in Rebuilds, CancelRebuild(j) \/ CancelAbandoned(j) PROVE BInv'
<1>1. config.at \in Nat /\ troubles' \in 0 .. MaxTroubles
  BY RebuildBounds, TroubleCounts DEF BInv, Settings, CancelRebuild, CancelAbandoned
<1>2. PICK status \in {"cancelled", "cancel_requested"} :
        rebuilds' = [rebuilds EXCEPT ![j].status = status]
  BY DEF CancelRebuild, CancelAbandoned
<1>3. rebuilds[j].status # "none"
  BY DEF CancelRebuild, CancelAbandoned
<1>4. ScopesStay /\ JobsFit(rebuilds')
  BY <1>2, <1>3, StatusChanges DEF OpenStatuses
<1> QED
  BY <1>1, <1>4, RunsStay DEF CancelRebuild, CancelAbandoned, BInv, SameScan

LEMMA IndexingKeeps ==
  ASSUME BInv, NEW d \in Docs,
         IndexingBegins(d) \/ IndexingSlices(d) \/ IndexingEmbeds(d) \/ IndexingEnds(d)
         \/ DocumentDeleted(d)
  PROVE  BInv'
<1>1. config.at \in Nat
  BY RebuildBounds DEF BInv, Settings
<1>2. UNCHANGED <<config, past, stored, rebuilds, lock, newest, troubles>>
  BY DEF IndexingBegins, IndexingSlices, IndexingEmbeds, IndexingEnds, DocumentDeleted
<1>3. Unchunk(d) \/ UNCHANGED runs
  BY DEF IndexingBegins, IndexingSlices, IndexingEmbeds, IndexingEnds, DocumentDeleted
<1>4. runs' \in [Executions -> RunRecord] /\ \A w \in Executions : SameScan(runs[w], runs'[w])
  BY <1>3, UnchunkAlike DEF BInv, SameScan
<1> QED
  BY <1>1, <1>2, <1>4, JobsStay, RunsStay DEF BInv

\* A worker that takes job j.
LEMMA Taken ==
  ASSUME BInv, NEW w \in Executions, NEW j \in Rebuilds, rebuilds[j].status \in OpenStatuses,
         NEW pc, pc = IF rebuilds[j].scope = "all" THEN "waiting" ELSE "ready",
         ScopesStay, JobsFit(rebuilds'), UNCHANGED <<config, past, stored, lock, newest>>,
         troubles' \in 0 .. MaxTroubles,
         runs' = [runs EXCEPT ![w] = [IdleRun EXCEPT !.job = j, !.pc = pc]]
  PROVE  BInv'
<1> DEFINE s == [IdleRun EXCEPT !.job = j, !.pc = pc]
<1>1. s \in RunRecord /\ s.job = j /\ s.pc = pc
  BY DEF IdleRun, RunRecord
<1>2. rebuilds[j].scope # "none"
  BY DEF BInv, JobFits, OpenStatuses
<1> HIDE DEF s
<1>3. RunFits(w, s, rebuilds', lock', newest', config.at)
  BY <1>1, <1>2 DEF RunFits, ScopesStay, Provided, Inside
<1>4. runs' = [runs EXCEPT ![w] = s]
  BY DEF s
<1> QED
  BY <1>1, <1>3, <1>4, RunMoves DEF BInv

LEMMA StartKeeps ==
  ASSUME BInv, NEW w \in Executions, NEW j \in Rebuilds, StartRebuild(w, j) \/ ResumeRebuild(w, j)
  PROVE  BInv'
<1> DEFINE job == [rebuilds[j] EXCEPT !.status = "running", !.owner = w]
<1>1. rebuilds[j] \in JobRecord /\ JobFits(rebuilds[j]) /\ rebuilds[j].status \in {"pending", "running"}
  BY DEF BInv, StartRebuild, ResumeRebuild
<1>2. job \in JobRecord /\ job.scope = rebuilds[j].scope /\ job.status = "running"
  BY <1>1 DEF JobRecord, OpenStatuses
<1>3. rebuilds' = [rebuilds EXCEPT ![j] = job]
  <2>1. CASE StartRebuild(w, j)
    BY <2>1 DEF StartRebuild, BInv
  <2>2. CASE ResumeRebuild(w, j)
    <3>1. job = [rebuilds[j] EXCEPT !.owner = w]
      BY <1>1, <2>2 DEF ResumeRebuild, JobRecord
    <3>2. rebuilds' = [rebuilds EXCEPT ![j] = [rebuilds[j] EXCEPT !.owner = w]]
      BY <2>2 DEF ResumeRebuild, BInv
    <3> QED
      BY <3>1, <3>2
  <2> QED
    BY <2>1, <2>2
<1>4. JobFits(job)
  BY <1>1, <1>2 DEF JobFits
<1> HIDE DEF job
<1>5. ScopesStay /\ JobsFit(rebuilds')
  BY <1>2, <1>3, <1>4, JobChanges
<1>6. troubles' \in 0 .. MaxTroubles
  BY TroubleCounts DEF StartRebuild, ResumeRebuild, BInv
<1>7. runs' = [runs EXCEPT ![w] = [IdleRun EXCEPT !.job = j,
                !.pc = IF rebuilds[j].scope = "all" THEN "waiting" ELSE "ready"]]
      /\ UNCHANGED <<config, past, stored, lock, newest>>
  BY DEF StartRebuild, ResumeRebuild
<1> QED
  BY <1>1, <1>5, <1>6, <1>7, Taken DEF OpenStatuses

-----------------------------------------------------------------------------
(* The steps of one execution that is at work.                             *)

Facts(w) ==
  /\ runs[w] \in RunRecord /\ runs[w].job \in Rebuilds
  /\ rebuilds[runs[w].job].scope # "none"
  /\ rebuilds[runs[w].job] \in JobRecord
  /\ RunFits(w, runs[w], rebuilds, lock, newest, config.at)
  /\ config.at \in 0 .. MaxChanges /\ config \in Settings /\ newest \in 0 .. MaxChanges
  /\ newest <= config.at /\ MaxChanges \in Nat /\ w # NoExecution

LEMMA AtWork == ASSUME BInv, NEW w \in Executions, runs[w].pc # "idle" PROVE Facts(w)
BY RebuildBounds, RebuildNulls DEF BInv, Facts, RunFits, Settings

\* It goes on or leaves, while its job stays open to it or is ended by it.
LEMMA Onward ==
  ASSUME BInv, NEW w \in Executions, Facts(w), NEW s \in RunRecord, s.job = runs[w].job,
         s.pc \in {"next", "embed", "commit"} =>
           runs[w].pc \in {"next", "embed", "commit"} /\ s.provider = runs[w].provider,
         s.pc \in {"embed", "commit"} => s.doc \in Docs,
         s.pc \in {"next", "embed", "commit", "leave"},
         runs' = [runs EXCEPT ![w] = s],
         ScopesStay, JobsFit(rebuilds'), UNCHANGED <<config, past, stored, lock, newest>>,
         troubles' \in 0 .. MaxTroubles
  PROVE  BInv'
<1>1. rebuilds'[s.job].scope = rebuilds[runs[w].job].scope
  BY DEF Facts, ScopesStay
<1>2. RunFits(w, s, rebuilds', lock', newest', config.at)
  BY <1>1 DEF Facts, RunFits, Provided, Inside
<1> QED
  BY <1>2, RunMoves DEF BInv

LEMMA AcquireKeeps == ASSUME BInv, NEW w \in Executions, AcquireLock(w) PROVE BInv'
<1> DEFINE s == [runs[w] EXCEPT !.pc = "ready"]
<1>1. Facts(w) /\ lock = NoExecution /\ lock' = w
  BY AtWork DEF AcquireLock
<1>2. s \in RunRecord /\ s.pc = "ready" /\ s.job = runs[w].job
  BY <1>1 DEF Facts, RunRecord
<1>3. runs' = [runs EXCEPT ![w] = s] /\ UNCHANGED <<config, past, stored, rebuilds, newest, troubles>>
  BY DEF AcquireLock, GoesTo
<1> HIDE DEF s
<1>4. RunFits(w, s, rebuilds', lock', newest', config.at)
  BY <1>1, <1>2, <1>3 DEF Facts, RunFits, Provided, Inside
<1> QED
  BY <1>1, <1>2, <1>3, <1>4, JobsStay, RunMoves DEF BInv, Facts

\* The provider is of the settings of now, and no rebuild that ended had newer ones.
LEMMA BeginKeeps == ASSUME BInv, NEW w \in Executions, BeginScan(w) PROVE BInv'
<1> DEFINE l == {d \in Docs : Rebuildable(d)}
           s == [runs[w] EXCEPT !.pc = "next", !.provider = config, !.left = l]
<1>1. Facts(w) /\ runs[w].pc = "ready"
  BY AtWork DEF BeginScan
<1>2. runs' = [runs EXCEPT ![w] = s]
      /\ UNCHANGED <<config, past, stored, rebuilds, lock, newest, troubles>>
  BY <1>1 DEF BeginScan, BInv, RunRecord
<1>3. l \in SUBSET Docs
  OBVIOUS
<1> HIDE DEF l
<1>4. s \in RunRecord /\ s.pc = "next" /\ s.job = runs[w].job /\ s.provider = config
  BY <1>1, <1>3 DEF Facts, RunRecord
<1> HIDE DEF s
<1>5. RunFits(w, s, rebuilds', lock', newest', config.at)
  BY <1>1, <1>2, <1>4 DEF Facts, RunFits, Provided, Inside
<1> QED
  BY <1>1, <1>2, <1>4, <1>5, JobsStay, RunMoves DEF BInv

LEMMA VisitKeeps ==
  ASSUME BInv, NEW w \in Executions, NEW d \in Docs, VisitDocument(w, d) PROVE BInv'
<1> DEFINE s == [runs[w] EXCEPT !.pc = "embed", !.doc = d, !.chunked = TRUE,
                                !.was = documents[d].status]
           r == [runs[w] EXCEPT !.left = runs[w].left \ {d}]
<1>1. Facts(w) /\ runs[w].pc = "next" /\ UNCHANGED <<config, past, stored, rebuilds, lock, newest, troubles>>
  BY AtWork DEF VisitDocument
<1>2. CASE Rebuildable(d)
  <2>1. runs' = [runs EXCEPT ![w] = s]
    BY <1>1, <1>2 DEF VisitDocument, BInv, RunRecord
  <2>2. documents[d].status \in {"indexed", "failed"}
    BY <1>2 DEF Rebuildable
  <2>3. s \in RunRecord /\ s.pc = "embed" /\ s.doc = d /\ s.job = runs[w].job
        /\ s.provider = runs[w].provider
    BY <1>1, <2>2 DEF Facts, RunRecord
  <2> HIDE DEF s
  <2> QED
    BY <1>1, <2>1, <2>3, JobsStay, Onward DEF BInv
<1>3. CASE ~Rebuildable(d)
  <2>1. runs' = [runs EXCEPT ![w] = r]
    BY <1>1, <1>3 DEF VisitDocument, BInv, RunRecord
  <2>2. r \in RunRecord /\ r.pc = "next" /\ r.job = runs[w].job /\ r.provider = runs[w].provider
    BY <1>1 DEF Facts, RunRecord
  <2> HIDE DEF r
  <2> QED
    BY <1>1, <2>1, <2>2, JobsStay, Onward DEF BInv
<1> QED
  BY <1>2, <1>3

LEMMA EmbedKeeps == ASSUME BInv, NEW w \in Executions, EmbedDocument(w) PROVE BInv'
<1> DEFINE s == [runs[w] EXCEPT !.pc = "commit"]
<1>1. Facts(w) /\ runs[w].pc = "embed" /\ UNCHANGED <<config, past, stored, rebuilds, lock, newest, troubles>>
  BY AtWork DEF EmbedDocument
<1>2. runs[w].doc \in Docs
  BY <1>1 DEF Facts, RunFits
<1>3. s \in RunRecord /\ s.pc = "commit" /\ s.job = runs[w].job /\ s.provider = runs[w].provider
      /\ s.doc = runs[w].doc
  BY <1>1 DEF Facts, RunRecord
<1>4. runs' = [runs EXCEPT ![w] = s]
  BY DEF EmbedDocument, GoesTo
<1> HIDE DEF s
<1> QED
  BY <1>1, <1>2, <1>3, <1>4, JobsStay, Onward DEF BInv

LEMMA CommitKeeps ==
  ASSUME BInv, NEW w \in Executions, CommitDocument(w) \/ DocumentFails(w) PROVE BInv'
<1>1. Facts(w) /\ runs[w].pc \in {"embed", "commit"}
      /\ UNCHANGED <<config, past, stored, rebuilds, lock, newest>> /\ troubles' \in 0 .. MaxTroubles
  BY AtWork, TroubleCounts DEF CommitDocument, DocumentFails, BInv
<1>2. PICK failed \in BOOLEAN : NextDocument(w, failed)
  BY DEF CommitDocument, DocumentFails
<1> DEFINE f == runs[w].failed \/ failed
           l == runs[w].left \ {runs[w].doc}
           s == [runs[w] EXCEPT !.pc = "next", !.left = l, !.doc = NoDoc, !.was = "absent",
                                !.failed = f]
<1>3. runs' = [runs EXCEPT ![w] = s]
  BY <1>1, <1>2 DEF NextDocument, BInv, RunRecord
<1>4. f \in BOOLEAN /\ l \in SUBSET Docs
  BY <1>1 DEF Facts, RunRecord
<1> HIDE DEF f, l
<1>5. s \in RunRecord /\ s.pc = "next" /\ s.job = runs[w].job /\ s.provider = runs[w].provider
  BY <1>1, <1>4 DEF Facts, RunRecord
<1> HIDE DEF s
<1> QED
  BY <1>1, <1>3, <1>5, JobsStay, Onward DEF BInv

\* Newest becomes what the holder of the lock brought, which is not older.
LEMMA FinishKeeps == ASSUME BInv, NEW w \in Executions, FinishRebuild(w) PROVE BInv'
<1> DEFINE s == [runs[w] EXCEPT !.pc = "leave"]
           status == IF runs[w].failed THEN "failed" ELSE "success"
<1>1. Facts(w) /\ runs[w].pc = "next" /\ StillMine(w)
      /\ UNCHANGED <<config, past, stored, documents, lock, troubles>>
  BY AtWork DEF FinishRebuild
<1>2. s \in RunRecord /\ s.pc = "leave" /\ s.job = runs[w].job
  BY <1>1 DEF Facts, RunRecord
<1>3. runs' = [runs EXCEPT ![w] = s]
  BY DEF FinishRebuild, GoesTo
<1> HIDE DEF s
<1>4. ScopesStay /\ JobsFit(rebuilds')
  <2>1. rebuilds' = [rebuilds EXCEPT ![runs[w].job].status = status]
    BY DEF FinishRebuild, Ends
  <2>2. rebuilds[runs[w].job].status # "none" /\ status \in {"failed", "success"}
        /\ runs[w].job \in Rebuilds
    BY <1>1 DEF StillMine, JobOf, Facts
  <2> HIDE DEF status
  <2> QED
    BY <2>1, <2>2, StatusChanges
<1>5. newest' \in 0 .. MaxChanges /\ newest' <= config.at /\ (newest' # newest => lock = w)
  BY <1>1 DEF FinishRebuild, JobOf, Facts, RunFits, Inside, Provided
<1>6. RunFits(w, s, rebuilds', lock', newest', config.at)
  BY <1>1, <1>2, <1>4 DEF RunFits, Inside, Provided, Facts, ScopesStay
<1> QED
  BY <1>1, <1>2, <1>3, <1>4, <1>5, <1>6, RunMoves DEF BInv

LEMMA StopKeeps ==
  ASSUME BInv, NEW w \in Executions, StopRebuild(w) \/ AbortRebuild(w) PROVE BInv'
<1> DEFINE s == [runs[w] EXCEPT !.pc = "leave"]
<1>1. Facts(w) /\ UNCHANGED <<config, past, stored, lock, newest>> /\ troubles' \in 0 .. MaxTroubles
  BY AtWork, TroubleCounts DEF StopRebuild, AbortRebuild, BInv
<1>2. s \in RunRecord /\ s.pc = "leave" /\ s.job = runs[w].job
  BY <1>1 DEF Facts, RunRecord
<1>3. runs' = [runs EXCEPT ![w] = s]
  BY DEF StopRebuild, AbortRebuild, GoesTo
<1> HIDE DEF s
<1>4. ScopesStay /\ JobsFit(rebuilds')
  <2>1. CASE UNCHANGED rebuilds
    BY <2>1, JobsStay
  <2>2. ASSUME NEW status \in {"cancelled", "failed"}, Ends(w, status),
               rebuilds[runs[w].job].status \in {"running", "cancel_requested"}
        PROVE  ScopesStay /\ JobsFit(rebuilds')
    BY <1>1, <2>2, StatusChanges DEF Ends, Facts
  <2> QED
    BY <2>1, <2>2 DEF StopRebuild, AbortRebuild, StillMine, JobOf
<1> QED
  BY <1>1, <1>2, <1>3, <1>4, Onward

LEMMA LeaveKeeps ==
  ASSUME BInv, NEW w \in Executions, LeaveRebuild(w) \/ WorkerDies(w) PROVE BInv'
<1>1. /\ runs' = [runs EXCEPT ![w] = IdleRun] /\ ReleaseLock(w)
      /\ UNCHANGED <<config, past, stored, rebuilds, newest>> /\ troubles' \in 0 .. MaxTroubles
  BY TroubleCounts DEF LeaveRebuild, WorkerDies, BInv
<1>2. IdleRun \in RunRecord /\ IdleRun.pc = "idle"
  BY DEF IdleRun, RunRecord
<1>3. RunFits(w, IdleRun, rebuilds', lock', newest', config.at)
  BY <1>2 DEF RunFits
<1>4. lock' \in Executions \cup {NoExecution} /\ (lock' # lock => lock = w)
  BY <1>1 DEF ReleaseLock, BInv
<1> QED
  BY <1>1, <1>2, <1>3, <1>4, JobsStay, RunMoves DEF BInv

LEMMA BInvStep == ASSUME BInv, [RebuildNext]_rebuildVars PROVE BInv'
<1>1. CASE UNCHANGED rebuildVars
  <2>1. config.at \in Nat
    BY RebuildBounds DEF BInv, Settings
  <2> QED
    BY <1>1, <2>1, JobsStay, RunsStay DEF rebuildVars, BInv, SameScan
<1>2. ASSUME NEW w \in Executions, RebuildStep(w) PROVE BInv'
  BY <1>2, StartKeeps, VisitKeeps, AcquireKeeps, BeginKeeps, EmbedKeeps, CommitKeeps,
     FinishKeeps, StopKeeps, LeaveKeeps DEF RebuildStep
<1> QED
  BY <1>1, <1>2, ChangeSettingsKeeps, ReconcileKeeps, RequestKeeps, CancelKeeps, IndexingKeeps
  DEF RebuildNext

-----------------------------------------------------------------------------
(* What the documents are.                                                 *)

LEMMA DocumentsFirst == RebuildInit => DInv
<1> SUFFICES ASSUME RebuildInit PROVE DInv
  OBVIOUS
<1> DEFINE made == [NoDocument EXCEPT !.status = "indexed", !.vectors = config.is]
<1>1. config.is \in Configs
  BY DEF RebuildInit
<1>2. made \in DocRecord /\ NoDocument \in DocRecord
  BY <1>1 DEF NoDocument, DocRecord
<1>3. documents = [d \in Docs |-> IF d \in Uploads THEN NoDocument ELSE made]
  BY DEF RebuildInit
<1> HIDE DEF made
<1> QED
  BY <1>2, <1>3 DEF DInv

LEMMA DocumentChanges ==
  ASSUME DInv, NEW d \in Docs, NEW r \in DocRecord, documents' = [documents EXCEPT ![d] = r]
  PROVE  DInv'
BY DEF DInv, DocRecord

LEMMA DocumentsStep == ASSUME BInv, DInv, [RebuildNext]_rebuildVars PROVE DInv'
<1>1. CASE UNCHANGED documents
  BY <1>1 DEF DInv, DocRecord
<1>2. ASSUME NEW w \in Executions, CommitDocument(w) PROVE DInv'
  <2> DEFINE d == runs[w].doc
             status == IF runs[w].was = "failed" THEN "indexed" ELSE documents[d].status
             r == [documents[d] EXCEPT !.vectors = runs[w].provider.is, !.status = status]
  <2>1. Facts(w) /\ d \in Docs
    BY <1>2, AtWork DEF CommitDocument, Facts, RunFits
  <2>2. runs[w].provider.is \in Configs \cup {NoConfig}
    BY <2>1 DEF Facts, RunRecord, Settings, NoSettings
  <2>3. documents[d] \in DocRecord
    BY <2>1 DEF DInv
  <2>4. status \in {"absent", "processing", "indexed", "failed"}
    BY <2>3 DEF DocRecord
  <2>5. documents' = [documents EXCEPT ![d] = r]
    BY <1>2, <2>1, <2>3 DEF CommitDocument, DInv, DocRecord
  <2> HIDE DEF status
  <2>6. r \in DocRecord
    BY <2>2, <2>3, <2>4 DEF DocRecord
  <2> HIDE DEF r, d
  <2> QED
    BY <2>1, <2>5, <2>6, DocumentChanges
<1>3. ASSUME NEW w \in Executions, DocumentFails(w) PROVE DInv'
  <2> DEFINE d == runs[w].doc
             r == [documents[d] EXCEPT !.status = "failed"]
  <2>1. d \in Docs
    BY <1>3, AtWork DEF DocumentFails, Facts, RunFits
  <2>2. r \in DocRecord
    BY <2>1 DEF DInv, DocRecord
  <2>3. documents' = [documents EXCEPT ![d] = r] \/ UNCHANGED documents
    BY <1>3, <2>1 DEF DocumentFails, DInv
  <2> HIDE DEF r, d
  <2> QED
    BY <1>1, <2>1, <2>2, <2>3, DocumentChanges
<1>4. ASSUME NEW d \in Docs, IndexingSlices(d) \/ DocumentDeleted(d) PROVE DInv'
  <2> DEFINE r == [NoDocument EXCEPT !.status = "processing", !.indexing = "sliced"]
  <2>1. r \in DocRecord /\ NoDocument \in DocRecord
    BY DEF NoDocument, DocRecord
  <2>2. documents' = [documents EXCEPT ![d] = r] \/ documents' = [documents EXCEPT ![d] = NoDocument]
    BY <1>4 DEF IndexingSlices, DocumentDeleted
  <2> HIDE DEF r
  <2> QED
    BY <2>1, <2>2, DocumentChanges
<1>5. ASSUME NEW d \in Docs, IndexingBegins(d) PROVE DInv'
  <2> DEFINE r == [documents[d] EXCEPT !.status = "processing", !.indexing = "parsing"]
  <2>1. r \in DocRecord
    BY DEF DInv, DocRecord
  <2>2. documents' = [documents EXCEPT ![d] = r]
    BY <1>5 DEF IndexingBegins, DInv
  <2> HIDE DEF r
  <2> QED
    BY <2>1, <2>2, DocumentChanges
<1>6. ASSUME NEW d \in Docs, IndexingEmbeds(d) PROVE DInv'
  <2> DEFINE r == [documents[d] EXCEPT !.indexer = config.is]
  <2>1. r \in DocRecord
    BY DEF DInv, BInv, Settings, DocRecord
  <2>2. documents' = [documents EXCEPT ![d] = r]
    BY <1>6 DEF IndexingEmbeds, DInv
  <2> HIDE DEF r
  <2> QED
    BY <2>1, <2>2, DocumentChanges
<1>7. ASSUME NEW d \in Docs, IndexingEnds(d) PROVE DInv'
  <2> DEFINE r == [NoDocument EXCEPT !.status = "indexed", !.vectors = documents[d].indexer]
  <2>1. r \in DocRecord
    BY DEF NoDocument, DInv, DocRecord
  <2>2. documents' = [documents EXCEPT ![d] = r]
    BY <1>7 DEF IndexingEnds
  <2> HIDE DEF r
  <2> QED
    BY <2>1, <2>2, DocumentChanges
<1>8. ASSUME NEW w \in Executions, RebuildStep(w) PROVE DInv'
  <2>1. CommitDocument(w) \/ DocumentFails(w) \/ UNCHANGED documents
    BY <1>8 DEF RebuildStep, StartRebuild, ResumeRebuild, VisitDocument, AcquireLock, BeginScan,
       EmbedDocument, FinishRebuild, StopRebuild, AbortRebuild, LeaveRebuild, WorkerDies
  <2> QED
    BY <1>1, <1>2, <1>3, <2>1
<1>9. ASSUME NEW j \in Rebuilds,
             \/ CancelRebuild(j) \/ CancelAbandoned(j)
             \/ \E c \in Configs : Reconcile(j, c)
             \/ \E scope \in Kinds, c \in Configs \cup {NoConfig} : RequestRebuild(j, scope, c)
      PROVE  UNCHANGED documents
  BY <1>9 DEF Reconcile, CancelRebuild, CancelAbandoned, RequestRebuild
<1>10. ASSUME NEW c \in Configs, ChangeSettings(c) PROVE UNCHANGED documents
  BY <1>10 DEF ChangeSettings
<1> QED
  BY <1>1, <1>4, <1>5, <1>6, <1>7, <1>8, <1>9, <1>10 DEF RebuildNext, rebuildVars

-----------------------------------------------------------------------------
THEOREM RebuildInvariant == RebuildSpec => [](BInv /\ DInv)
<1>1. RebuildInit => BInv /\ DInv
  BY BInvFirst, DocumentsFirst
<1>2. BInv /\ DInv /\ [RebuildNext]_rebuildVars => BInv' /\ DInv'
  BY BInvStep, DocumentsStep
<1> QED
  BY <1>1, <1>2, PTL DEF RebuildSpec

\* Types, and that whoever is past the advisory lock holds it.
THEOREM RebuildTyped == RebuildSpec => []RebuildTypeOK
<1>1. BInv /\ DInv => RebuildTypeOK
  <2> SUFFICES ASSUME BInv, DInv PROVE RebuildTypeOK
    OBVIOUS
  <2>1. ASSUME NEW w \in Executions, runs[w].pc \in {"ready", "next", "embed", "commit"},
               JobOf(w).scope = "all"
        PROVE  lock = w
    BY <2>1 DEF BInv, RunFits, Inside, JobOf
  <2> QED
    BY <2>1 DEF BInv, DInv, RebuildTypeOK, DocRecord, JobRecord
<1> QED
  BY <1>1, RebuildInvariant, PTL

\* No commit of a rebuild of all accounts puts vectors of older settings in the place of
\* those a later rebuild has made.
THEOREM NewestStands == RebuildSpec => NewestRebuildStands
<1> DEFINE Stands ==
      \A w \in Executions :
        runs[w].pc = "commit" /\ JobOf(w).scope = "all" /\ documents' # documents /\ runs'[w] # runs[w]
        => runs[w].provider.at >= newest
<1>1. BInv => Stands
  <2> SUFFICES ASSUME BInv, NEW w \in Executions, runs[w].pc = "commit", JobOf(w).scope = "all"
               PROVE  runs[w].provider.at >= newest
    OBVIOUS
  <2>1. newest <= runs[w].provider.at /\ runs[w].provider.at \in Nat /\ newest \in Nat
    BY RebuildBounds DEF BInv, RunFits, JobOf, Provided
  <2> QED
    BY <2>1
<1>2. BInv /\ DInv /\ [RebuildNext]_rebuildVars => [Stands]_rebuildVars
  BY <1>1
<1> QED
  BY <1>2, RebuildInvariant, PTL DEF RebuildSpec, NewestRebuildStands

=============================================================================
