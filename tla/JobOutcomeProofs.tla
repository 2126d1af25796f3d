---------------------------- MODULE JobOutcomeProofs ----------------------------
(***************************************************************************)
(* What a document shows when its jobs end, for any number of documents,   *)
(* jobs and executions.                                                    *)
(*                                                                         *)
(* JobLifecycleProofs fences the rows of jobs; nothing fences the writes   *)
(* of a document.  They are right as long as nobody competes for it        *)
(* (raced), for two reasons.  An execution without competition holds the   *)
(* one open job of its document (SoleExecution), so nobody else writes it, *)
(* and at its points the document shows what Stage says.  A document       *)
(* without an execution is written only by a cancel request or a scan,     *)
(* which leave it cancelled.                                               *)
(***************************************************************************)
EXTENDS MCJobLifecycle, JobLifecycleProofs

\* A job that names a document names one that exists.
Linked == \A j \in Jobs : jobs[j].doc # NoDoc => Exists(jobs[j].doc)

\* An execution and its job row agree on the document, until a deletion takes it
\* out of the row.
SameDocument ==
  \A r \in Runs : Live(r) /\ JobOf(r).st # "absent"
     => JobOf(r).doc = (IF Exists(runs[r].doc) THEN runs[r].doc ELSE NoDoc)

\* What an execution knows by itself: it takes a document for missing only when it
\* is, and the flag index_ready is up exactly after the embeddings are committed.
BeforeReady == {"queued", "loaded", "claimed", "parsing", "parsed", "chunking", "slicing",
                "sliced", "embedding", "embedded"}
AfterReady == {"ready", "enriching", "summarizing", "enriched", "finishing"}
Local(r) ==
  /\ \/ runs[r].pc = "orphaned"
     \/ runs[r].pc \in {"loaded", "claimed"} /\ runs[r].seen = "absent"
     => ~Exists(runs[r].doc)
  /\ runs[r].pc \in BeforeReady => ~runs[r].ready
  /\ runs[r].pc \in AfterReady => runs[r].ready

\* What the document shows at the points of an execution that has it to itself.
Stage(r) ==
  /\ runs[r].pc \in {"chunking", "slicing", "sliced"} => docs[runs[r].doc] = "chunking"
  /\ runs[r].pc = "finishing" => docs[runs[r].doc] = "indexed"
  /\ runs[r].pc = "failJob" => docs[runs[r].doc] = "failed"
  /\ runs[r].pc = "marking" => docs[runs[r].doc] \in {"indexed", "cancelled"}
  /\ runs[r].ready => vectors[runs[r].doc]

Searchable(d) == docs[d] = "indexed" => vectors[d]

-----------------------------------------------------------------------------
(* One step of an execution, seen from its document.                       *)

\* The execution leaves, or stays with its document.
Steps(r, pc) ==
  /\ runs'[r].pc = pc /\ runs'[r].doc = runs[r].doc /\ runs'[r].ready = runs[r].ready
  /\ runs'[r].seen \in {runs[r].seen, "other"}

LEMMA GotoSteps ==
  ASSUME TypeOK, NEW r \in Runs, NEW pc, Goto(r, pc)
  PROVE  Steps(r, pc)
BY DEF TypeOK, Execution, Goto, Steps

LEMMA LeaveSteps ==
  ASSUME TypeOK, NEW r \in Runs, NEW pc, Leave(r, pc)
  PROVE  Steps(r, pc)
BY DEF TypeOK, Execution, Leave, Steps

LEMMA FinishSteps ==
  ASSUME TypeOK, NEW r \in Runs, Finish(r)
  PROVE  runs'[r].pc = "idle"
BY DEF TypeOK, Finish, IdleRun

LEMMA StoppedSteps ==
  ASSUME TypeOK, NEW r \in Runs, Stopped(r)
  PROVE  Steps(r, "cancelling") \/ runs'[r].pc = "idle"
BY GotoSteps, FinishSteps DEF Stopped

\* The execution writes nothing but its own document, and that only past its
\* first read; if the document showed its stage, it does so after the step.
Good(r) == (Started(r) => Stage(r)) /\ Searchable(runs[r].doc)
Kept(r) ==
  /\ runs'[r].pc # "idle" => runs'[r].doc = runs[r].doc
  /\ \/ docs' = docs
     \/ /\ Started(r) /\ Exists(runs[r].doc)
        /\ \E s \in DocStatuses : docs' = [docs EXCEPT ![runs[r].doc] = s]
  /\ \/ vectors' = vectors
     \/ Started(r) /\ \E b \in BOOLEAN : vectors' = [vectors EXCEPT ![runs[r].doc] = b]
  /\ Local(r)'
  /\ Exists(runs[r].doc) /\ Good(r)
     => /\ Started(r)' => Stage(r)'
        /\ docs'[runs[r].doc] = "indexed" => vectors'[runs[r].doc]

LEMMA IdleKept ==
  ASSUME TypeOK, NEW r \in Runs, runs'[r].pc = "idle", UNCHANGED <<docs, vectors>>
  PROVE  Kept(r)
BY DEF Kept, Local, Good, Searchable, Started, BeforeReady, AfterReady

\* A step between two points at which the document need not show anything.
LEMMA SilentKept ==
  ASSUME TypeOK, NEW r \in Runs, Local(r), NEW pc, Steps(r, pc), UNCHANGED <<docs, vectors>>,
         Started(r) \/ (pc = "cancelling" /\ ~runs[r].ready),
         pc \notin {"queued", "loaded", "claimed", "orphaned", "chunking", "finishing", "failJob",
                    "marking"},
         pc \in {"slicing", "sliced"} => runs[r].pc \in {"chunking", "slicing"},
         pc \in BeforeReady => ~runs[r].ready,
         pc \in AfterReady => runs[r].ready
  PROVE  Kept(r)
<1>1. Local(r)'
  BY DEF Steps, Local
<1>2. Good(r) /\ Exists(runs[r].doc) => (Started(r)' => Stage(r)')
  BY DEF Good, Steps, Stage, Started
<1> QED BY <1>1, <1>2 DEF Kept, Steps, Good, Searchable

LEMMA StoppedKept ==
  ASSUME TypeOK, NEW r \in Runs, Local(r), Stopped(r), UNCHANGED <<docs, vectors>>,
         Started(r) \/ ~runs[r].ready
  PROVE  Kept(r)
<1>1. CASE Steps(r, "cancelling")
  BY <1>1, SilentKept DEF BeforeReady, AfterReady
<1>2. CASE runs'[r].pc = "idle"
  BY <1>2, IdleKept
<1> QED BY <1>1, <1>2, StoppedSteps

LEMMA CheckKept ==
  ASSUME TypeOK, NEW r \in Runs, Local(r), NEW from, NEW to, Check(r, from, to),
         <<from, to>> \in {<<"parsing", "parsed">>, <<"summarizing", "enriched">>,
                          <<"failing", "failDoc">>}
  PROVE  Kept(r)
<1>1. Started(r) /\ runs[r].pc = from /\ UNCHANGED <<docs, vectors>>
  BY DEF Check, Started
<1>2. CASE Stopped(r)
  BY <1>1, <1>2, StoppedKept
<1>3. CASE Goto(r, to)
  <2>1. Steps(r, to)
    BY <1>3, GotoSteps
  <2> QED BY <1>1, <2>1, SilentKept DEF Local, BeforeReady, AfterReady
<1> QED BY <1>2, <1>3 DEF Check

LEMMA ProgressKept ==
  ASSUME TypeOK, NEW r \in Runs, Local(r), NEW from, NEW to, Progress(r, from, to),
         <<from, to>> \in {<<"chunking", "slicing">>, <<"ready", "enriching">>}
  PROVE  Kept(r)
<1>1. Started(r) /\ runs[r].pc = from /\ UNCHANGED <<docs, vectors>>
  BY DEF Progress, Started
<1>2. CASE Stopped(r)
  BY <1>1, <1>2, StoppedKept
<1>3. CASE Goto(r, to)
  <2>1. Steps(r, to)
    BY <1>3, GotoSteps
  <2> QED BY <1>1, <2>1, SilentKept DEF Local, BeforeReady, AfterReady
<1> QED BY <1>2, <1>3 DEF Progress

LEMMA TerminateKept ==
  ASSUME TypeOK, NEW r \in Runs, Local(r), NEW from, NEW st, Terminate(r, from, st),
         from \in {"finishing", "failJob", "orphaned"}
  PROVE  Kept(r)
<1>1. Started(r) /\ UNCHANGED <<docs, vectors>>
  BY DEF Terminate, Started
<1> QED BY <1>1, StoppedKept, FinishSteps, IdleKept DEF Terminate

\* The writes of the document, with what the point after them needs.
LEMMA WriteKept ==
  ASSUME TypeOK, NEW r \in Runs, Local(r), Started(r), NEW s \in DocStatuses, NEW to, Steps(r, to),
         docs' = IF Exists(runs[r].doc) THEN [docs EXCEPT ![runs[r].doc] = s] ELSE docs,
         vectors' = vectors,
         to \notin {"queued", "loaded", "claimed", "orphaned", "slicing", "sliced"},
         to = "chunking" => s = "chunking" \/ ~Exists(runs[r].doc),
         to = "finishing" => s = "indexed" \/ ~Exists(runs[r].doc),
         to = "failJob" => s = "failed" \/ ~Exists(runs[r].doc),
         to = "marking" => s \in {"indexed", "cancelled"} \/ ~Exists(runs[r].doc),
         s = "indexed" => runs[r].ready,
         to \in BeforeReady => ~runs[r].ready,
         to \in AfterReady => runs[r].ready
  PROVE  Kept(r)
<1>1. Local(r)'
  BY DEF Steps, Local
<1>2. Exists(runs[r].doc) => docs'[runs[r].doc] = s
  BY DEF TypeOK, Execution, Exists
<1>3. Good(r) /\ Exists(runs[r].doc) => Stage(r)'
  BY <1>2 DEF Good, Steps, Stage
<1>4. Good(r) /\ Exists(runs[r].doc) => (docs'[runs[r].doc] = "indexed" => vectors'[runs[r].doc])
  BY <1>2 DEF Good, Stage
<1> QED BY <1>1, <1>3, <1>4 DEF Kept, Steps

LEMMA MarkKept ==
  ASSUME TypeOK, NEW r \in Runs, Local(r), NEW from, NEW s, NEW to, Mark(r, from, s, to),
         <<from, s, to>> \in {<<"parsed", "chunking", "chunking">>,
                              <<"enriching", "summarizing", "summarizing">>,
                              <<"enriched", "indexed", "finishing">>}
  PROVE  Kept(r)
<1>1. Started(r) /\ runs[r].pc = from /\ vectors' = vectors /\ s \in DocStatuses
  BY DEF Mark, Started, DocStatuses
<1>2. CASE Exists(runs[r].doc)
  <2>1. Steps(r, to) /\ docs' = [docs EXCEPT ![runs[r].doc] = s]
    BY <1>2, LeaveSteps DEF Mark, CommitDocStatus
  <2> QED BY <1>1, <1>2, <2>1, WriteKept DEF Local, BeforeReady, AfterReady
<1>3. CASE ~Exists(runs[r].doc)
  <2>1. Steps(r, "failing") /\ docs' = docs
    BY <1>3, LeaveSteps DEF Mark, CommitDocStatus
  <2> QED BY <1>1, <2>1, SilentKept DEF BeforeReady, AfterReady
<1> QED BY <1>2, <1>3

LEMMA SettleDocKept ==
  ASSUME TypeOK, NEW r \in Runs, Local(r), NEW from, NEW s, NEW to, SettleDoc(r, from, s, to),
         \/ from = "failDoc" /\ s = "failed" /\ to = "failJob"
         \/ /\ from = "cancelling" /\ s = (IF runs[r].ready THEN "indexed" ELSE "cancelled")
            /\ to = "marking"
  PROVE  Kept(r)
<1>1. Started(r) /\ vectors' = vectors /\ s \in DocStatuses
  BY DEF SettleDoc, Started, DocStatuses
<1>2. Steps(r, to) /\ docs' = IF Exists(runs[r].doc) THEN [docs EXCEPT ![runs[r].doc] = s] ELSE docs
  BY GotoSteps DEF SettleDoc
<1> QED BY <1>1, <1>2, WriteKept DEF BeforeReady, AfterReady

LEMMA LoadKept ==
  ASSUME TypeOK, NEW r \in Runs, Local(r), Load(r)
  PROVE  Kept(r)
<1>1. /\ UNCHANGED <<docs, vectors>> /\ runs[r].pc = "queued" /\ ~runs[r].ready /\ ~Started(r)
      /\ runs[r].doc # NoDoc
  BY DEF Load, Local, BeforeReady, Started
<1>2. CASE Finish(r)
  BY <1>1, <1>2, FinishSteps, IdleKept
<1>3. CASE runs' = [runs EXCEPT ![r] = [@ EXCEPT !.pc = "cancelling", !.tok = JobOf(r).tok,
                                                  !.resumed = FALSE]]
  <2>1. Steps(r, "cancelling")
    BY <1>3 DEF TypeOK, Execution, Steps
  <2> QED BY <1>1, <2>1, SilentKept DEF BeforeReady, AfterReady
<1>4. CASE runs' = [runs EXCEPT ![r] = [@ EXCEPT !.pc = "loaded", !.seen =
                     IF docs[runs[r].doc] \in {"absent", "parsing"} THEN docs[runs[r].doc] ELSE "other"]]
  <2>1. /\ runs'[r].pc = "loaded" /\ runs'[r].doc = runs[r].doc /\ ~runs'[r].ready
        /\ runs'[r].seen = "absent" => docs[runs[r].doc] = "absent"
    BY <1>1, <1>4 DEF TypeOK, Execution
  <2>2. Local(r)'
    BY <1>1, <2>1 DEF Local, Exists, BeforeReady, AfterReady
  <2> QED BY <1>1, <2>1, <2>2 DEF Kept, Good, Searchable, Started
<1> QED BY <1>2, <1>3, <1>4 DEF Load

LEMMA LoadOrphanKept ==
  ASSUME TypeOK, NEW r \in Runs, Local(r), LoadOrphan(r)
  PROVE  Kept(r)
<1>1. UNCHANGED <<docs, vectors>> /\ ~runs[r].ready /\ ~Exists(runs[r].doc)
  BY DEF LoadOrphan, Local, BeforeReady, Exists
<1>2. CASE Finish(r)
  BY <1>1, <1>2, FinishSteps, IdleKept
<1>3. CASE Leave(r, "orphaned")
  <2>1. Steps(r, "orphaned")
    BY <1>3, LeaveSteps
  <2>2. Local(r)'
    BY <1>1, <2>1 DEF Local, Steps, Exists, BeforeReady, AfterReady
  <2> QED BY <1>1, <2>1, <2>2 DEF Kept, Steps
<1> QED BY <1>2, <1>3 DEF LoadOrphan

LEMMA ClaimKept ==
  ASSUME TypeOK, NEW r \in Runs, Local(r), Claim(r)
  PROVE  Kept(r)
<1>1. UNCHANGED <<docs, vectors>> /\ runs[r].pc = "loaded" /\ ~runs[r].ready /\ ~Started(r)
  BY DEF Claim, Local, BeforeReady, Started
<1>2. CASE runs' = [runs EXCEPT ![r] = [@ EXCEPT !.pc = "claimed", !.resumed = FALSE]]
  <2>1. /\ runs'[r].pc = "claimed" /\ runs'[r].doc = runs[r].doc /\ ~runs'[r].ready
        /\ runs'[r].seen = runs[r].seen
    BY <1>1, <1>2 DEF TypeOK, Execution
  <2>2. Local(r)' /\ Stage(r)'
    BY <1>1, <2>1 DEF Local, Stage, Exists, BeforeReady, AfterReady
  <2> QED BY <1>1, <2>1, <2>2 DEF Kept, Good, Searchable
<1>3. CASE Leave(r, "cancelling")
  <2>1. Steps(r, "cancelling")
    BY <1>3, LeaveSteps
  <2> QED BY <1>1, <2>1, SilentKept DEF BeforeReady, AfterReady
<1>4. CASE Finish(r)
  BY <1>1, <1>4, FinishSteps, IdleKept
<1> QED BY <1>2, <1>3, <1>4 DEF Claim

LEMMA StartParsingKept ==
  ASSUME TypeOK, NEW r \in Runs, Local(r), StartParsing(r)
  PROVE  Kept(r)
<1>1. /\ vectors' = vectors /\ runs[r].pc = "claimed" /\ ~runs[r].ready /\ Started(r)
      /\ "parsing" \in DocStatuses
  BY DEF StartParsing, Local, BeforeReady, Started, DocStatuses
<1>2. CASE runs[r].seen = "absent"
  <2>1. Steps(r, "orphaned") /\ docs' = docs /\ ~Exists(runs[r].doc)
    BY <1>1, <1>2, LeaveSteps DEF StartParsing, Local
  <2>2. Local(r)'
    BY <1>1, <2>1 DEF Local, Steps, Exists, BeforeReady, AfterReady
  <2> QED BY <1>1, <2>1, <2>2 DEF Kept, Steps
<1>3. CASE runs[r].seen = "parsing"
  <2>1. Steps(r, "parsing") /\ docs' = docs
    BY <1>3, LeaveSteps DEF StartParsing
  <2> QED BY <1>1, <2>1, SilentKept DEF BeforeReady, AfterReady
<1>4. CASE CommitDocStatus(r, "parsing", "parsing") /\ Exists(runs[r].doc)
  <2>1. Steps(r, "parsing") /\ docs' = [docs EXCEPT ![runs[r].doc] = "parsing"]
    BY <1>4, LeaveSteps DEF CommitDocStatus
  <2> QED BY <1>1, <1>4, <2>1, WriteKept DEF BeforeReady, AfterReady
<1>5. CASE CommitDocStatus(r, "parsing", "parsing") /\ ~Exists(runs[r].doc)
  <2>1. Steps(r, "failing") /\ docs' = docs
    BY <1>5, LeaveSteps DEF CommitDocStatus
  <2> QED BY <1>1, <2>1, SilentKept DEF BeforeReady, AfterReady
<1> QED BY <1>2, <1>3, <1>4, <1>5 DEF StartParsing

LEMMA RecreateChunksKept ==
  ASSUME TypeOK, NEW r \in Runs, Local(r), RecreateChunks(r)
  PROVE  Kept(r)
<1>1. UNCHANGED <<docs, vectors>> /\ runs[r].pc = "slicing" /\ ~runs[r].ready /\ Started(r)
  BY DEF RecreateChunks, Local, BeforeReady, Started
<1>2. CASE Stopped(r)
  BY <1>1, <1>2, StoppedKept
<1>3. ASSUME NEW pc \in {"sliced", "failing"}, Goto(r, pc) PROVE Kept(r)
  <2>1. Steps(r, pc)
    BY <1>3, GotoSteps
  <2> QED BY <1>1, <2>1, SilentKept DEF BeforeReady, AfterReady
<1> QED BY <1>2, <1>3 DEF RecreateChunks

LEMMA EmbedChunksKept ==
  ASSUME TypeOK, NEW r \in Runs, Local(r), EmbedChunks(r)
  PROVE  Kept(r)
<1>1. UNCHANGED <<docs, vectors>> /\ runs[r].pc = "embedding" /\ ~runs[r].ready /\ Started(r)
  BY DEF EmbedChunks, Local, BeforeReady, Started
<1>2. CASE Stopped(r)
  BY <1>1, <1>2, StoppedKept
<1>3. ASSUME NEW pc \in {"embedded", "failing"}, Goto(r, pc) PROVE Kept(r)
  <2>1. Steps(r, pc)
    BY <1>3, GotoSteps
  <2> QED BY <1>1, <2>1, SilentKept DEF BeforeReady, AfterReady
<1> QED BY <1>2, <1>3 DEF EmbedChunks

\* The old embeddings go with the old chunks while the document says chunking.
LEMMA CommitChunksKept ==
  ASSUME TypeOK, NEW r \in Runs, Local(r), CommitChunks(r)
  PROVE  Kept(r)
<1>1. /\ docs' = docs /\ vectors' = [vectors EXCEPT ![runs[r].doc] = FALSE]
      /\ runs[r].pc = "sliced" /\ ~runs[r].ready /\ Started(r)
  BY DEF CommitChunks, Local, BeforeReady, Started
<1>2. Steps(r, "embedding") \/ Steps(r, "cancelling") \/ runs'[r].pc = "idle"
  BY GotoSteps, StoppedSteps DEF CommitChunks
<1>3. Local(r)'
  BY <1>1, <1>2 DEF Local, Steps, BeforeReady, AfterReady
<1>4. Started(r)' => Stage(r)'
  BY <1>1, <1>2 DEF Stage, Steps, Started
<1>5. Good(r) => docs[runs[r].doc] = "chunking"
  BY <1>1 DEF Good, Stage
<1> QED BY <1>1, <1>2, <1>3, <1>4, <1>5 DEF Kept, Steps

LEMMA CommitEmbeddingsKept ==
  ASSUME TypeOK, NEW r \in Runs, Local(r), CommitEmbeddings(r)
  PROVE  Kept(r)
<1>1. /\ docs' = docs /\ vectors' = [vectors EXCEPT ![runs[r].doc] = TRUE]
      /\ runs[r].pc = "embedded" /\ Started(r)
  BY DEF CommitEmbeddings, Started
<1>2. runs'[r].pc = "ready" /\ runs'[r].ready /\ runs'[r].doc = runs[r].doc
  BY DEF TypeOK, Execution, CommitEmbeddings
<1>3. Local(r)'
  BY <1>2 DEF Local, BeforeReady, AfterReady
<1>4. Exists(runs[r].doc) => vectors'[runs[r].doc]
  BY <1>1 DEF TypeOK, Execution, Exists
<1>5. Exists(runs[r].doc) => Stage(r)'
  BY <1>2, <1>4 DEF Stage
<1> QED BY <1>1, <1>2, <1>3, <1>4, <1>5 DEF Kept

LEMMA MarkCancelledKept ==
  ASSUME TypeOK, NEW r \in Runs, Local(r), MarkCancelled(r)
  PROVE  Kept(r)
BY FinishSteps, IdleKept DEF MarkCancelled

LEMMA RaiseKept ==
  ASSUME TypeOK, NEW r \in Runs, Local(r), Raise(r)
  PROVE  Kept(r)
<1>1. Started(r) /\ UNCHANGED <<docs, vectors>>
  BY DEF Raise, Started, Working, WorkingPoints
<1>2. Steps(r, "failing")
  BY LeaveSteps DEF Raise
<1> QED BY <1>1, <1>2, SilentKept DEF BeforeReady, AfterReady

LEMMA StepKept ==
  ASSUME TypeOK, NEW r \in Runs, Local(r), Step(r) \/ Raise(r) \/ Die(r)
  PROVE  Kept(r)
<1>1. CASE Parse(r) \/ Enrich(r) \/ CheckFailing(r)
  BY <1>1, CheckKept DEF Parse, Enrich, CheckFailing
<1>2. CASE ReportChunking(r) \/ ReportEnriching(r)
  BY <1>2, ProgressKept DEF ReportChunking, ReportEnriching
<1>3. CASE StartChunking(r) \/ StartSummarizing(r) \/ MarkIndexed(r)
  BY <1>3, MarkKept DEF StartChunking, StartSummarizing, MarkIndexed
<1>4. CASE Complete(r) \/ FailJob(r) \/ FailOrphan(r)
  BY <1>4, TerminateKept DEF Complete, FailJob, FailOrphan
<1>5. CASE FailDoc(r) \/ CancelDoc(r)
  BY <1>5, SettleDocKept DEF FailDoc, CancelDoc
<1>6. CASE Die(r)
  BY <1>6, FinishSteps, IdleKept DEF Die
<1> QED
  BY <1>1, <1>2, <1>3, <1>4, <1>5, <1>6, LoadKept, LoadOrphanKept, ClaimKept, StartParsingKept,
     RecreateChunksKept, EmbedChunksKept, CommitChunksKept, CommitEmbeddingsKept,
     MarkCancelledKept, RaiseKept DEF Step

-----------------------------------------------------------------------------
(* One step of an execution, seen from the job table.                      *)

\* Where an execution ends a job, and how.
Settles(r) ==
  /\ JobOf(r).tok = runs[r].tok
  /\ \/ /\ runs[r].pc = "finishing" /\ JobOf(r).st = "running"
        /\ Write(runs[r].job, "success", NoRun)
     \/ /\ runs[r].pc \in {"failJob", "orphaned"} /\ JobOf(r).st = "running"
        /\ Write(runs[r].job, "failed", NoRun)
     \/ /\ runs[r].pc = "marking" /\ JobOf(r).st \in {"cancel_requested", "cancelled"}
        /\ Write(runs[r].job, "cancelled", NoRun)
  /\ UNCHANGED docs

LEMMA StepSettles ==
  ASSUME NEW r \in Runs, Step(r) \/ Raise(r) \/ Die(r)
  PROVE  UNCHANGED jobs \/ Renews(r) \/ Takes(r) \/ Settles(r)
<1>1. CASE Claim(r)
  <2>1. CASE Claimable(r)
    <3>1. JobOf(r).st = "pending" \/ (JobOf(r).st = "running" /\ JobOf(r).tok = r)
      BY <2>1, Zenon DEF Claimable
    <3> QED BY <1>1, <2>1, <3>1 DEF Claim, Takes
  <2> QED BY <1>1, <2>1 DEF Claim
<1>2. CASE ReportChunking(r) \/ ReportEnriching(r) \/ CommitChunks(r)
  BY <1>2 DEF ReportChunking, ReportEnriching, CommitChunks, Progress, GoesOn, Owns, Renews
<1>3. CASE Complete(r) \/ FailJob(r) \/ FailOrphan(r)
  BY <1>3 DEF Complete, FailJob, FailOrphan, Terminate, GoesOn, Owns, Settles
<1>4. CASE MarkCancelled(r)
  BY <1>4 DEF MarkCancelled, Settles, JobOf
<1>5. CASE \/ Load(r) \/ LoadOrphan(r) \/ StartParsing(r) \/ RecreateChunks(r) \/ EmbedChunks(r)
           \/ CommitEmbeddings(r) \/ Raise(r) \/ Die(r)
  BY <1>5 DEF Load, LoadOrphan, StartParsing, RecreateChunks, EmbedChunks, CommitEmbeddings, Raise, Die
<1>6. CASE \/ Parse(r) \/ Enrich(r) \/ CheckFailing(r) \/ StartChunking(r) \/ StartSummarizing(r)
           \/ MarkIndexed(r) \/ FailDoc(r) \/ CancelDoc(r)
  BY <1>6 DEF Parse, Enrich, CheckFailing, StartChunking, StartSummarizing, MarkIndexed, FailDoc,
     CancelDoc, Check, Mark, SettleDoc
<1> QED BY <1>1, <1>2, <1>3, <1>4, <1>5, <1>6 DEF Step

\* An update of a row leaves its document alone.
LEMMA WriteKeepsDoc ==
  ASSUME TypeOK, NEW j \in Jobs, NEW st, NEW tok, Write(j, st, tok)
  PROVE  /\ jobs'[j].st = st /\ jobs'[j].tok = tok /\ jobs'[j].doc = jobs[j].doc
         /\ \A i \in Jobs \ {j} : jobs'[i] = jobs[i]
BY DEF TypeOK, JobRow, Write

\* The job table after a step of an execution: documents stay, and a job that ends
\* is the one that the execution settles.
JobsKept(r) ==
  /\ \A j \in Jobs : jobs'[j].doc = jobs[j].doc
  /\ \A j \in Jobs : jobs[j].st = "absent" <=> jobs'[j].st = "absent"
  /\ \A j \in Jobs : jobs'[j].st # jobs[j].st => j = runs[r].job
  /\ \A j \in Jobs : jobs'[j].st \in TerminalStatuses /\ jobs'[j].st # jobs[j].st => Settles(r)

LEMMA StepJobsKept ==
  ASSUME TypeOK, LiveHasJob, NEW r \in Runs, Step(r) \/ Raise(r) \/ Die(r)
  PROVE  JobsKept(r)
<1> DEFINE j == runs[r].job
<1>1. j \in Jobs
  BY StepEffect, RaiseEffect, DieEffect DEF Effect, LiveHasJob
<1>2. CASE UNCHANGED jobs
  BY <1>2 DEF JobsKept
<1>3. CASE Renews(r)
  <2>1. Write(j, jobs[j].st, jobs[j].tok)
    BY <1>3 DEF Renews, Touch
  <2> QED BY <1>1, <2>1, WriteKeepsDoc DEF JobsKept
<1>4. CASE Takes(r)
  <2>1. Write(j, "running", r) /\ jobs[j].st # "absent"
    BY <1>4 DEF Takes, JobOf
  <2> QED BY <1>1, <2>1, WriteKeepsDoc DEF JobsKept, TerminalStatuses
<1>5. CASE Settles(r)
  <2>1. PICK st \in {"success", "failed", "cancelled"} : Write(j, st, NoRun)
    BY <1>5 DEF Settles
  <2>2. jobs[j].st # "absent"
    BY <1>5 DEF Settles, JobOf
  <2> HIDE DEF j
  <2> QED BY <1>1, <1>5, <2>1, <2>2, WriteKeepsDoc DEF JobsKept, j
<1> QED BY <1>2, <1>3, <1>4, <1>5, StepSettles

-----------------------------------------------------------------------------
(* The invariant of the documents.                                         *)

StageOK(d) == \A r \in Runs : Started(r) /\ runs[r].doc = d => Stage(r)
ScanSaw(d) ==
  \A j \in Jobs : scan[j] = "keep" /\ jobs[j].doc = d => docs[d] \in {"indexed", "cancelled"}
Settled(d) ==
  /\ \E j \in Jobs : jobs[j].doc = d
  /\ \A j \in Jobs : jobs[j].doc = d => jobs[j].st \notin ActiveStatuses
  => docs[d] \in {"indexed", "failed", "cancelled"}
DocOK(d) == StageOK(d) /\ Searchable(d) /\ ScanSaw(d) /\ Settled(d)

RacedKnown == \A d \in Docs : Exists(d) /\ Competing(d) => d \in raced
Bound == Linked /\ SameDocument /\ \A r \in Runs : Local(r)

DInv == IInv /\ Bound /\ RacedKnown /\ \A d \in Docs : Exists(d) /\ d \notin raced => DocOK(d)

-----------------------------------------------------------------------------
(* An execution that nobody competes with holds the one open job of its    *)
(* document.                                                               *)

LEMMA SoleExecution ==
  ASSUME IInv, SameDocument, NEW r \in Runs, Started(r), Exists(runs[r].doc),
         ~Competing(runs[r].doc)
  PROVE  /\ runs[r].job \in Jobs
         /\ JobOf(r).doc = runs[r].doc
         /\ JobOf(r).st \in {"running", "cancel_requested"}
         /\ \A q \in Runs \ {r} : Started(q) => runs[q].doc # runs[r].doc
         /\ \A j \in Jobs : jobs[j].doc = runs[r].doc => scan[j] = "no"
         /\ \A j \in Jobs : jobs[j].doc = runs[r].doc /\ jobs[j].st \in ActiveStatuses
              => j = runs[r].job
<1>1. Live(r) /\ runs[r].job \in Jobs
  BY DEF Started, Live, IInv, LiveHasJob
<1>2. /\ JobOf(r).tok = r
      /\ \A q \in Runs \ {r} : ~(Started(q) /\ runs[q].doc = runs[r].doc)
      /\ \A j \in Jobs : ~(scan[j] # "no" /\ jobs[j].doc = runs[r].doc)
  BY DEF Competing, Loose
<1>3. JobOf(r).st \in {"running", "cancel_requested"}
  BY <1>1, <1>2, NullAssumption DEF IInv, TokenWhileActive, JobOf
<1>4. JobOf(r).doc = runs[r].doc
  BY <1>1, <1>3 DEF SameDocument
<1>5. \A j \in Jobs : jobs[j].doc = runs[r].doc /\ jobs[j].st \in ActiveStatuses => j = runs[r].job
  BY <1>1, <1>3, <1>4 DEF Competing, ActiveStatuses, JobOf
<1> QED BY <1>1, <1>2, <1>3, <1>4, <1>5

\* A document whose open job is another's, or waits in a scan, has no execution.
LEMMA NoExecution ==
  ASSUME IInv, SameDocument, NEW d \in Docs, Exists(d), ~Competing(d),
         NEW j \in Jobs, jobs[j].doc = d, jobs[j].st = "pending" \/ scan[j] # "no"
  PROVE  \A r \in Runs : Started(r) => runs[r].doc # d
BY SoleExecution DEF ActiveStatuses, JobOf

LEMMA NoOpenJob ==
  ASSUME IInv, SameDocument, NEW d \in Docs, Exists(d), ~Competing(d),
         \A j \in Jobs : jobs[j].doc = d => jobs[j].st \notin ActiveStatuses
  PROVE  \A r \in Runs : Started(r) => runs[r].doc # d
BY SoleExecution DEF ActiveStatuses, JobOf

-----------------------------------------------------------------------------
(* Rows and documents stay bound to each other.                            *)

SameDocs == \A d \in Docs \cup {NoDoc} : Exists(d)' <=> Exists(d)

LEMMA KeptSameDocs ==
  ASSUME TypeOK, NEW r \in Runs, Kept(r)
  PROVE  SameDocs
BY DEF TypeOK, Kept, SameDocs, Exists, DocStatuses

LEMMA ExecutionBound ==
  ASSUME IInv, Bound, NEW r \in Runs, Step(r) \/ Raise(r) \/ Die(r)
  PROVE  Bound'
<1>1. TypeOK /\ LiveHasJob /\ Local(r) /\ runs[r] \in Execution
  BY DEF IInv, Bound, TypeOK
<1>2. Kept(r) /\ JobsKept(r) /\ SameDocs /\ MovesOnly(r) /\ Live(r)
  BY <1>1, StepKept, StepJobsKept, KeptSameDocs, StepEffect, RaiseEffect, DieEffect DEF Effect
<1>3. Linked'
  BY <1>1, <1>2 DEF Bound, Linked, JobsKept, SameDocs, TypeOK, JobRow
<1>4. SameDocument'
  <2>1. ASSUME NEW q \in Runs, Live(q)', JobOf(q).st' # "absent"
        PROVE  JobOf(q).doc' = (IF Exists(runs[q].doc) THEN runs[q].doc ELSE NoDoc)'
    <3>1. Live(q) /\ runs'[q].job = runs[q].job /\ runs'[q].doc = runs[q].doc
      BY <1>2, <2>1 DEF MovesOnly, Kept, Live
    <3>2. runs[q].job \in Jobs /\ runs[q].doc \in Docs \cup {NoDoc}
      BY <1>1, <3>1 DEF LiveHasJob, TypeOK, Execution
    <3>3. JobOf(q).st # "absent" /\ JobOf(q).doc' = JobOf(q).doc
      BY <1>2, <2>1, <3>1, <3>2 DEF JobsKept, JobOf
    <3> QED BY <1>2, <3>1, <3>2, <3>3 DEF Bound, SameDocument, SameDocs
  <2> QED BY <2>1 DEF SameDocument
<1>5. ASSUME NEW q \in Runs PROVE Local(q)'
  <2>1. CASE q = r
    BY <1>2, <2>1 DEF Kept
  <2>2. CASE q # r
    <3>1. runs'[q] = runs[q] /\ runs[q].doc \in Docs \cup {NoDoc}
      BY <1>1, <1>2, <2>2 DEF MovesOnly, TypeOK, Execution
    <3> QED BY <1>2, <3>1 DEF Bound, Local, SameDocs
  <2> QED BY <2>1, <2>2
<1> QED BY <1>3, <1>4, <1>5 DEF Bound

\* Steps that move no execution and write no row that was not there.
LEMMA RowsBound ==
  ASSUME IInv, Bound, UNCHANGED runs, SameDocs,
         \A j \in Jobs : jobs[j].st = "absent" => jobs'[j].st = "absent",
         \A j \in Jobs : \/ jobs'[j].doc = jobs[j].doc
                         \/ jobs'[j].st = "absent" /\ jobs'[j].doc = NoDoc
  PROVE  Bound'
<1>1. TypeOK /\ LiveHasJob
  BY DEF IInv
<1>2. Linked'
  BY <1>1 DEF Bound, Linked, SameDocs, TypeOK, JobRow
<1>3. SameDocument'
  BY <1>1 DEF Bound, SameDocument, SameDocs, LiveHasJob, Live, JobOf, TypeOK, Execution
<1>4. \A r \in Runs : Local(r)'
  BY <1>1 DEF Bound, Local, SameDocs, TypeOK, Execution
<1> QED BY <1>2, <1>3, <1>4 DEF Bound

\* The new execution of a claim, an upload or a retry.
LEMMA DispatchBound ==
  ASSUME IInv, Bound, NEW j \in Jobs, NEW d \in Docs \cup {NoDoc}, NEW r \in Runs, Fresh(r),
         NEW resumed \in BOOLEAN, runs' = [runs EXCEPT ![r] = QueuedRun(r, j, d, resumed)],
         jobs'[j].doc = d, d # NoDoc => Exists(d)',
         \A i \in Jobs \ {j} : jobs'[i] = jobs[i],
         jobs[j].doc = d \/ (\A q \in Runs : Live(q) => runs[q].job # j),
         jobs[j].st # "absent" \/ (\A q \in Runs : Live(q) => runs[q].job # j),
         \A e \in Docs \cup {NoDoc} : Exists(e)' <=> Exists(e) \/ (e = d /\ d # NoDoc),
         Exists(d) \/ d = NoDoc \/ (\A q \in Runs : Live(q) => runs[q].doc # d)
  PROVE  Bound'
<1>1. TypeOK /\ LiveHasJob
  BY DEF IInv
<1>2. Linked'
  BY <1>1 DEF Bound, Linked, TypeOK, JobRow, Exists
<1>3. /\ runs'[r].pc = "queued" /\ runs'[r].doc = d /\ runs'[r].job = j /\ ~runs'[r].ready
      /\ \A q \in Runs \ {r} : runs'[q] = runs[q]
  BY <1>1 DEF TypeOK, QueuedRun
<1>4. SameDocument'
  <2>1. ASSUME NEW q \in Runs, Live(q)', JobOf(q).st' # "absent"
        PROVE  JobOf(q).doc' = (IF Exists(runs[q].doc) THEN runs[q].doc ELSE NoDoc)'
    <3>1. CASE q = r
      BY <1>3, <3>1 DEF JobOf
    <3>2. CASE q # r
      <4>1. Live(q) /\ runs'[q] = runs[q] /\ runs[q].job \in Jobs /\ runs[q].doc \in Docs \cup {NoDoc}
        BY <1>1, <1>3, <2>1, <3>2 DEF Live, LiveHasJob, TypeOK, Execution
      <4>2. JobOf(q).doc' = JobOf(q).doc /\ JobOf(q).st # "absent"
        BY <2>1, <4>1 DEF JobOf
      <4>3. Exists(runs[q].doc)' <=> Exists(runs[q].doc)
        BY <4>1
      <4> QED BY <4>1, <4>2, <4>3 DEF Bound, SameDocument
    <3> QED BY <3>1, <3>2
  <2> QED BY <2>1 DEF SameDocument
<1>5. ASSUME NEW q \in Runs PROVE Local(q)'
  <2>1. CASE q = r
    BY <1>3, <2>1 DEF Local, BeforeReady, AfterReady
  <2>2. CASE q # r /\ Live(q)
    <3>1. runs'[q] = runs[q] /\ runs[q].doc \in Docs \cup {NoDoc}
      BY <1>1, <1>3, <2>2 DEF TypeOK, Execution
    <3>2. Exists(runs[q].doc)' <=> Exists(runs[q].doc)
      BY <2>2, <3>1
    <3> QED BY <3>1, <3>2 DEF Bound, Local
  <2>3. CASE q # r /\ ~Live(q)
    BY <1>3, <2>3 DEF Local, Live, BeforeReady, AfterReady
  <2> QED BY <2>1, <2>2, <2>3
<1> QED BY <1>2, <1>4, <1>5 DEF Bound

LEMMA AddMissingJobBound ==
  ASSUME IInv, Bound, NEW d \in Docs, NEW j \in Jobs, AddMissingJob(d, j)
  PROVE  Bound'
<1>1. /\ TypeOK /\ LiveHasJob /\ Exists(d) /\ UNCHANGED <<runs, docs>>
      /\ \A q \in Runs : Live(q) => runs[q].job # j
  BY NullAssumption DEF IInv, AddMissingJob, FreeJob, Exists
<1>2. jobs'[j].doc = d /\ \A i \in Jobs \ {j} : jobs'[i] = jobs[i]
  BY <1>1 DEF TypeOK, AddMissingJob, PendingRow
<1>3. Linked'
  BY <1>1, <1>2 DEF Bound, Linked, Exists
<1>4. SameDocument'
  BY <1>1, <1>2 DEF Bound, SameDocument, LiveHasJob, Live, JobOf, Exists
<1>5. \A r \in Runs : Local(r)'
  BY <1>1 DEF Bound, Local, Exists
<1> QED BY <1>3, <1>4, <1>5 DEF Bound

LEMMA DeletionBound ==
  ASSUME IInv, Bound, NEW d \in Docs, DeleteDocument(d)
  PROVE  Bound'
<1>1. TypeOK /\ LiveHasJob /\ runs' = runs
  BY DEF IInv, DeleteDocument
<1>2. \A e \in Docs \cup {NoDoc} : Exists(e)' <=> Exists(e) /\ e # d
  BY <1>1, NullAssumption DEF TypeOK, DeleteDocument, Exists
<1>3. ASSUME NEW j \in Jobs
      PROVE  /\ jobs'[j].doc = IF jobs[j].doc = d THEN NoDoc ELSE jobs[j].doc
             /\ jobs'[j].st = jobs[j].st /\ jobs[j].doc \in Docs \cup {NoDoc}
  <2>1. jobs[j] \in JobRow
    BY <1>1 DEF TypeOK
  <2>2. jobs'[j] = IF jobs[j].doc = d THEN [jobs[j] EXCEPT !.doc = NoDoc] ELSE jobs[j]
    BY DEF DeleteDocument
  <2> QED BY <2>1, <2>2 DEF JobRow
<1>4. Linked'
  BY <1>2, <1>3 DEF Bound, Linked
<1>5. SameDocument'
  <2>1. ASSUME NEW q \in Runs, Live(q)', JobOf(q).st' # "absent"
        PROVE  JobOf(q).doc' = (IF Exists(runs[q].doc) THEN runs[q].doc ELSE NoDoc)'
    <3>1. Live(q) /\ runs[q].job \in Jobs /\ runs[q].doc \in Docs \cup {NoDoc}
      BY <1>1, <2>1 DEF Live, LiveHasJob, TypeOK, Execution
    <3>2. JobOf(q).doc = IF Exists(runs[q].doc) THEN runs[q].doc ELSE NoDoc
      BY <1>1, <1>3, <2>1, <3>1 DEF Bound, SameDocument, JobOf
    <3>3. JobOf(q).doc' = IF JobOf(q).doc = d THEN NoDoc ELSE JobOf(q).doc
      BY <1>1, <1>3, <3>1 DEF JobOf
    <3> QED BY <1>1, <1>2, <3>1, <3>2, <3>3, NullAssumption
  <2> QED BY <2>1 DEF SameDocument
<1>6. \A r \in Runs : Local(r)'
  <2>1. ASSUME NEW r \in Runs PROVE runs[r].doc \in Docs \cup {NoDoc}
    BY <1>1 DEF TypeOK, Execution
  <2> QED BY <1>1, <1>2, <2>1 DEF Bound, Local
<1> QED BY <1>4, <1>5, <1>6 DEF Bound

-----------------------------------------------------------------------------
(* One document under each kind of step.                                   *)

\* The step of an execution that has the document, or of one that has another.
LEMMA ExecutionDoc ==
  ASSUME IInv, Bound, NEW r \in Runs, Step(r) \/ Raise(r) \/ Die(r),
         NEW d \in Docs, Exists(d), ~Competing(d), DocOK(d)
  PROVE  DocOK(d)'
<1>1. TypeOK /\ LiveHasJob /\ SameDocument /\ Local(r)
  BY DEF IInv, Bound
<1>2. Kept(r) /\ JobsKept(r) /\ MovesOnly(r) /\ Live(r) /\ scan' = scan
  BY <1>1, StepKept, StepJobsKept, StepEffect, RaiseEffect, DieEffect DEF Effect
<1>3. runs[r].job \in Jobs
  BY <1>1, <1>2 DEF LiveHasJob
<1>4. CASE runs[r].doc # d
  <2>1. docs'[d] = docs[d] /\ vectors'[d] = vectors[d]
    BY <1>1, <1>2, <1>4 DEF Kept, TypeOK
  <2>2. StageOK(d)'
    <3>1. ASSUME NEW q \in Runs, Started(q)', runs'[q].doc = d PROVE Stage(q)'
      <4>1. q # r /\ runs'[q] = runs[q]
        BY <1>2, <1>4, <3>1 DEF MovesOnly, Kept, Started
      <4>2. Stage(q) /\ runs[q].doc = d
        BY <3>1, <4>1 DEF DocOK, StageOK, Started
      <4> QED BY <2>1, <4>1, <4>2 DEF Stage
    <3> QED BY <3>1 DEF StageOK
  <2>3. Searchable(d)' /\ ScanSaw(d)'
    BY <1>2, <2>1 DEF DocOK, Searchable, ScanSaw, JobsKept
  <2>4. jobs[runs[r].job].st # "absent" => jobs[runs[r].job].doc # d
    BY <1>2, <1>4, NullAssumption DEF Bound, SameDocument, JobOf
  <2>5. \A j \in Jobs : jobs[j].doc = d => jobs'[j].doc = d /\ jobs'[j].st = jobs[j].st
    BY <1>2, <2>4 DEF JobsKept
  <2>6. Settled(d)'
    BY <1>2, <2>1, <2>5 DEF DocOK, Settled, JobsKept
  <2> QED BY <2>2, <2>3, <2>6 DEF DocOK
<1>5. CASE runs[r].doc = d /\ Started(r)
  <2>1. /\ JobOf(r).doc = d /\ JobOf(r).st \in ActiveStatuses
        /\ \A q \in Runs \ {r} : Started(q) => runs[q].doc # d
        /\ \A j \in Jobs : jobs[j].doc = d => scan[j] = "no"
    BY <1>1, <1>5, SoleExecution DEF ActiveStatuses
  <2>2. Stage(r) /\ Searchable(d)
    BY <1>5 DEF DocOK, StageOK
  <2>3. (Started(r)' => Stage(r)') /\ (docs'[d] = "indexed" => vectors'[d])
    BY <1>2, <1>5, <2>2 DEF Kept, Good
  <2>4. StageOK(d)'
    <3>1. ASSUME NEW q \in Runs, Started(q)', runs'[q].doc = d PROVE q = r
      BY <1>2, <2>1, <3>1 DEF MovesOnly, Started
    <3> QED BY <2>3, <3>1 DEF StageOK
  <2>5. ScanSaw(d)'
    BY <1>2, <2>1 DEF ScanSaw, JobsKept
  <2>6. Settled(d)'
    <3>1. SUFFICES ASSUME jobs'[runs[r].job].st \notin ActiveStatuses
                   PROVE  docs'[d] \in {"indexed", "failed", "cancelled"}
      BY <1>2, <1>3, <2>1 DEF Settled, JobsKept, JobOf
    <3>2. jobs'[runs[r].job].st # jobs[runs[r].job].st
      BY <2>1, <3>1 DEF JobOf
    <3>3. jobs'[runs[r].job].st \in TerminalStatuses
      <4>1. jobs'[runs[r].job].st # "absent"
        BY <1>2, <1>3, <2>1 DEF JobsKept, JobOf, ActiveStatuses
      <4>2. jobs' \in [Jobs -> JobRow]
        BY ExecutionKeeps DEF IInv, TypeOK
      <4> QED BY <1>3, <3>1, <4>1, <4>2 DEF JobRow, JobStatuses
    <3>4. Settles(r)
      BY <1>2, <1>3, <3>2, <3>3 DEF JobsKept
    <3>5. runs[r].pc # "orphaned"
      BY <1>1, <1>5 DEF Local
    <3> QED BY <1>5, <2>2, <3>4, <3>5 DEF Settles, Stage
  <2> QED BY <2>3, <2>4, <2>5, <2>6 DEF DocOK, Searchable
<1>6. CASE runs[r].doc = d /\ ~Started(r)
  <2>1. docs' = docs /\ vectors' = vectors
    BY <1>2, <1>6 DEF Kept
  <2>2. Searchable(d) /\ (Started(r)' => Stage(r)')
    BY <1>2, <1>6 DEF DocOK, Kept, Good
  <2>3. StageOK(d)'
    <3>1. ASSUME NEW q \in Runs, Started(q)', runs'[q].doc = d, q # r PROVE Stage(q)'
      <4>1. runs'[q] = runs[q]
        BY <1>2, <3>1 DEF MovesOnly
      <4>2. Stage(q)
        BY <3>1, <4>1 DEF DocOK, StageOK, Started
      <4> QED BY <2>1, <4>1, <4>2 DEF Stage
    <3> QED BY <2>2, <3>1 DEF StageOK
  <2>4. Searchable(d)' /\ ScanSaw(d)'
    BY <1>2, <2>1 DEF DocOK, Searchable, ScanSaw, JobsKept
  <2>5. \A j \in Jobs : jobs'[j].st \in TerminalStatuses => jobs'[j].st = jobs[j].st
    BY <1>2, <1>6 DEF JobsKept, Settles, Started
  <2>6. Settled(d)'
    <3>1. \A j \in Jobs : jobs'[j].st \in JobStatuses \cup {"absent"}
      BY ExecutionKeeps DEF IInv, TypeOK, JobRow
    <3>2. \A j \in Jobs : jobs'[j].st \notin ActiveStatuses => jobs[j].st \notin ActiveStatuses
      BY <1>2, <2>5, <3>1 DEF JobsKept, JobStatuses, ActiveStatuses
    <3> QED BY <1>2, <2>1, <3>2 DEF DocOK, Settled, JobsKept
  <2> QED BY <2>3, <2>4, <2>6 DEF DocOK
<1> QED BY <1>4, <1>5, <1>6

\* A step of others that leaves the document alone and ends none of its jobs.
LEMMA UntouchedDoc ==
  ASSUME NEW d \in Docs, DocOK(d), docs'[d] = docs[d], vectors'[d] = vectors[d],
         \A q \in Runs : Started(q)' /\ runs'[q].doc = d => runs'[q] = runs[q],
         \A j \in Jobs : scan'[j] = "keep" /\ jobs'[j].doc = d
            => \/ scan[j] = "keep" /\ jobs[j].doc = d
               \/ docs[d] \in {"indexed", "cancelled"},
         \A j \in Jobs : jobs'[j].doc = d
            => \/ jobs[j].doc = d
               \/ jobs'[j].st \in ActiveStatuses,
         \A j \in Jobs : jobs[j].doc = d /\ jobs[j].st \in ActiveStatuses
            => jobs'[j].doc = d /\ jobs'[j].st \in ActiveStatuses
  PROVE  DocOK(d)'
<1>1. StageOK(d)'
  <2>1. ASSUME NEW q \in Runs, Started(q)', runs'[q].doc = d PROVE Stage(q)'
    <3>1. runs'[q] = runs[q]
      BY <2>1
    <3>2. Stage(q)
      BY <2>1, <3>1 DEF DocOK, StageOK, Started
    <3> QED BY <2>1, <3>1, <3>2 DEF Stage
  <2> QED BY <2>1 DEF StageOK
<1>2. Searchable(d)' /\ ScanSaw(d)'
  BY DEF DocOK, Searchable, ScanSaw
<1>3. Settled(d)'
  BY DEF DocOK, Settled
<1> QED BY <1>1, <1>2, <1>3 DEF DocOK

\* A document that a scan or a cancel request of its only job marks cancelled.
LEMMA CancelledDoc ==
  ASSUME NEW d \in Docs, docs'[d] = "cancelled", UNCHANGED runs,
         \A q \in Runs : Started(q) => runs[q].doc # d
  PROVE  DocOK(d)'
BY DEF DocOK, StageOK, Started, Searchable, ScanSaw, Settled

LEMMA ScanCommitDoc ==
  ASSUME IInv, Bound, NEW j \in Jobs, ScanCommit(j),
         NEW d \in Docs, Exists(d), ~Competing(d), DocOK(d)
  PROVE  DocOK(d)'
<1>1. TypeOK /\ SameDocument /\ UNCHANGED <<vectors, runs>>
  BY DEF IInv, Bound, ScanCommit
<1>2. /\ jobs'[j].st = "cancelled" /\ jobs'[j].doc = jobs[j].doc
      /\ \A i \in Jobs \ {j} : jobs'[i] = jobs[i]
      /\ \A i \in Jobs : scan'[i] = "keep" => scan[i] = "keep"
  BY <1>1, WriteKeepsDoc DEF ScanCommit, TypeOK
<1>3. CASE jobs[j].doc # d
  <2>1. docs'[d] = docs[d]
    BY <1>1, <1>3 DEF ScanCommit, TypeOK
  <2> QED BY <1>1, <1>2, <1>3, <2>1, UntouchedDoc
<1>4. CASE jobs[j].doc = d
  <2>1. \A q \in Runs : Started(q) => runs[q].doc # d
    BY <1>1, <1>4, NoExecution DEF ScanCommit
  <2>2. CASE scan[j] = "cancel"
    <3>1. docs'[d] = "cancelled"
      BY <1>1, <1>4, <2>2 DEF ScanCommit, TypeOK
    <3> QED BY <1>1, <2>1, <3>1, CancelledDoc
  <2>3. CASE scan[j] = "keep"
    <3>1. docs' = docs /\ docs[d] \in {"indexed", "cancelled"}
      BY <1>4, <2>3 DEF ScanCommit, DocOK, ScanSaw
    <3> QED BY <1>1, <2>1, <3>1 DEF DocOK, StageOK, Started, Searchable, ScanSaw, Settled
  <2> QED BY <1>1, <2>2, <2>3 DEF ScanCommit, TypeOK
<1> QED BY <1>3, <1>4

LEMMA CancelJobDoc ==
  ASSUME IInv, Bound, NEW j \in Jobs, CancelJob(j),
         NEW d \in Docs, Exists(d), ~Competing(d), DocOK(d)
  PROVE  DocOK(d)'
<1>1. TypeOK /\ SameDocument /\ UNCHANGED <<vectors, runs, scan>>
  BY DEF IInv, Bound, CancelJob
<1>2. CASE /\ jobs[j].st = "pending" /\ Write(j, "cancelled", NoRun)
           /\ docs' = IF jobs[j].doc = NoDoc THEN docs
                      ELSE [docs EXCEPT ![jobs[j].doc] = "cancelled"]
  <2>1. jobs'[j].doc = jobs[j].doc /\ \A i \in Jobs \ {j} : jobs'[i] = jobs[i]
    BY <1>1, <1>2, WriteKeepsDoc
  <2>2. CASE jobs[j].doc # d
    <3>1. docs'[d] = docs[d]
      BY <1>1, <1>2, <2>2 DEF TypeOK
    <3> QED BY <1>1, <2>1, <2>2, <3>1, UntouchedDoc
  <2>3. CASE jobs[j].doc = d
    <3>1. \A q \in Runs : Started(q) => runs[q].doc # d
      BY <1>1, <1>2, <2>3, NoExecution
    <3>2. docs'[d] = "cancelled"
      BY <1>1, <1>2, <2>3, NullAssumption DEF TypeOK
    <3> QED BY <1>1, <3>1, <3>2, CancelledDoc
  <2> QED BY <2>2, <2>3
<1>3. CASE jobs[j].st = "running" /\ Write(j, "cancel_requested", jobs[j].tok) /\ UNCHANGED docs
  <2>1. /\ jobs'[j].doc = jobs[j].doc /\ jobs'[j].st \in ActiveStatuses
        /\ \A i \in Jobs \ {j} : jobs'[i] = jobs[i]
    BY <1>1, <1>3, WriteKeepsDoc DEF ActiveStatuses
  <2> QED BY <1>1, <1>3, <2>1, UntouchedDoc
<1> QED BY <1>2, <1>3 DEF CancelJob

\* Requests, scans and the clock, where they only touch a row that is or stays
\* inactive, a lock or a time.
LEMMA RowStepDoc ==
  ASSUME TypeOK, NEW d \in Docs, Exists(d), DocOK(d),
         \/ \E r \in Runs : runs[r].job \in Jobs /\ Heartbeat(r)
         \/ \E j \in Jobs : \/ Age(j) \/ ScanRead(j) \/ ScanAbort(j) \/ RetryCheck(j) \/ RetryAbort(j)
                            \/ PurgeJob(j)
  PROVE  DocOK(d)'
<1>1. UNCHANGED <<docs, vectors, runs>>
  BY DEF Heartbeat, Age, ScanRead, ScanAbort, RetryCheck, RetryAbort, PurgeJob
<1>2. CASE \E r \in Runs : runs[r].job \in Jobs /\ Heartbeat(r)
  <2>1. PICK j \in Jobs : Write(j, jobs[j].st, jobs[j].tok)
    BY <1>2 DEF Heartbeat, Touch
  <2>2. \A i \in Jobs : jobs'[i].doc = jobs[i].doc /\ jobs'[i].st = jobs[i].st
    BY <2>1, WriteKeepsDoc
  <2> QED BY <1>1, <1>2, <2>2, UntouchedDoc DEF Heartbeat
<1>3. ASSUME NEW j \in Jobs, Age(j) PROVE DocOK(d)'
  <2>1. \A i \in Jobs : jobs'[i].doc = jobs[i].doc /\ jobs'[i].st = jobs[i].st
    BY <1>3 DEF Age, TypeOK, JobRow
  <2> QED BY <1>1, <1>3, <2>1, UntouchedDoc DEF Age
<1>4. ASSUME NEW j \in Jobs, ScanRead(j) PROVE DocOK(d)'
  <2>1. \A i \in Jobs : scan'[i] = "keep" /\ jobs[i].doc = d
           => scan[i] = "keep" \/ docs[d] \in {"indexed", "cancelled"}
    BY <1>4, NullAssumption DEF ScanRead, TypeOK, Exists
  <2> QED BY <1>1, <1>4, <2>1, UntouchedDoc DEF ScanRead
<1>5. ASSUME NEW j \in Jobs, ScanAbort(j) PROVE DocOK(d)'
  <2>1. jobs' = jobs /\ \A i \in Jobs : scan'[i] = "keep" => scan[i] = "keep"
    BY <1>5 DEF ScanAbort, TypeOK
  <2> QED BY <1>1, <2>1, UntouchedDoc
<1>6. ASSUME NEW j \in Jobs, RetryCheck(j) \/ RetryAbort(j) PROVE DocOK(d)'
  BY <1>1, <1>6, UntouchedDoc DEF RetryCheck, RetryAbort
<1>7. ASSUME NEW j \in Jobs, PurgeJob(j) PROVE DocOK(d)'
  <2>1. /\ jobs'[j].doc = NoDoc /\ jobs[j].st \notin ActiveStatuses /\ scan' = scan
        /\ \A i \in Jobs \ {j} : jobs'[i] = jobs[i]
    BY <1>7 DEF PurgeJob, TypeOK, NoJobRow, TerminalStatuses, ActiveStatuses
  <2> QED BY <1>1, <2>1, NullAssumption, UntouchedDoc
<1> QED BY <1>2, <1>3, <1>4, <1>5, <1>6, <1>7

\* A claim, an upload or a retry opens job j of document e for a new execution.
LEMMA DispatchDoc ==
  ASSUME IInv, NEW j \in Jobs, NEW e \in Docs \cup {NoDoc}, NEW r \in Runs, NEW resumed,
         runs' = [runs EXCEPT ![r] = QueuedRun(r, j, e, resumed)],
         jobs'[j].doc = e, jobs'[j].st \in ActiveStatuses,
         \A i \in Jobs \ {j} : jobs'[i] = jobs[i],
         jobs[j].st = "absent" \/ jobs[j].doc = e, UNCHANGED <<scan, vectors>>,
         NEW d \in Docs, docs'[d] = docs[d], DocOK(d)
  PROVE  DocOK(d)'
<1>1. \A q \in Runs : Started(q)' => runs'[q] = runs[q]
  BY DEF IInv, TypeOK, Started, QueuedRun
<1>2. jobs[j].st = "absent" => scan[j] = "no"
  BY DEF IInv, LockedRowsKeep
<1> QED BY <1>1, <1>2, UntouchedDoc DEF ActiveStatuses

LEMMA ScanClaimDoc ==
  ASSUME IInv, NEW j \in Jobs, NEW r \in Runs, ScanClaim(j, r),
         NEW d \in Docs, DocOK(d)
  PROVE  DocOK(d)'
<1>1. TypeOK /\ jobs[j].doc \in Docs \cup {NoDoc} /\ Write(j, "running", r)
  BY DEF IInv, TypeOK, JobRow, ScanClaim
<1>2. /\ jobs'[j].st = "running" /\ jobs'[j].doc = jobs[j].doc
      /\ \A i \in Jobs \ {j} : jobs'[i] = jobs[i]
  BY <1>1, WriteKeepsDoc
<1> QED BY <1>1, <1>2, DispatchDoc DEF ScanClaim, ActiveStatuses

LEMMA PendingRowWritten ==
  ASSUME TypeOK, NEW j \in Jobs, NEW e, jobs' = [jobs EXCEPT ![j] = PendingRow(e)]
  PROVE  /\ jobs'[j].doc = e /\ jobs'[j].st = "pending" /\ jobs'[j].st \in ActiveStatuses
         /\ \A i \in Jobs \ {j} : jobs'[i] = jobs[i]
BY DEF TypeOK, PendingRow, ActiveStatuses

LEMMA RetryCommitDoc ==
  ASSUME IInv, NEW j \in Jobs, NEW i \in Jobs, NEW r \in Runs, RetryCommit(j, i, r),
         NEW d \in Docs, DocOK(d)
  PROVE  DocOK(d)'
<1>1. TypeOK /\ jobs[j].doc \in Docs \cup {NoDoc} /\ jobs[i].st = "absent"
  BY DEF IInv, TypeOK, JobRow, RetryCommit, FreeJob
<1>2. /\ jobs'[i].doc = jobs[j].doc /\ jobs'[i].st \in ActiveStatuses
      /\ \A k \in Jobs \ {i} : jobs'[k] = jobs[k]
  BY <1>1, PendingRowWritten DEF RetryCommit
<1>3. /\ runs' = [runs EXCEPT ![r] = QueuedRun(r, i, jobs[j].doc, FALSE)]
      /\ UNCHANGED <<docs, vectors, scan>>
  BY DEF RetryCommit
<1> QED BY <1>1, <1>2, <1>3, DispatchDoc

LEMMA AddMissingJobDoc ==
  ASSUME IInv, NEW e \in Docs, NEW j \in Jobs, AddMissingJob(e, j),
         NEW d \in Docs, DocOK(d)
  PROVE  DocOK(d)'
<1>1. TypeOK /\ jobs[j].st = "absent" /\ UNCHANGED <<docs, vectors, runs, scan>> /\ scan[j] = "no"
  BY DEF IInv, LockedRowsKeep, AddMissingJob, FreeJob
<1>2. /\ jobs'[j].doc = e /\ jobs'[j].st \in ActiveStatuses
      /\ \A i \in Jobs \ {j} : jobs'[i] = jobs[i]
  BY <1>1, PendingRowWritten DEF AddMissingJob
<1> QED BY <1>1, <1>2, UntouchedDoc DEF ActiveStatuses

\* The new document of an upload has one open job and nothing else.
LEMMA UploadDoc ==
  ASSUME IInv, Bound, NEW e \in Docs, NEW j \in Jobs, NEW r \in Runs, Upload(e, j, r),
         NEW d \in Docs, d # e => DocOK(d)
  PROVE  DocOK(d)'
<1>1. TypeOK /\ jobs[j].st = "absent" /\ UNCHANGED <<vectors, scan>>
  BY DEF IInv, Upload, FreeJob
<1>2. /\ jobs'[j].doc = e /\ jobs'[j].st \in ActiveStatuses
      /\ \A i \in Jobs \ {j} : jobs'[i] = jobs[i]
  BY <1>1, PendingRowWritten DEF Upload
<1>3. CASE d # e
  <2>1. docs'[d] = docs[d]
    BY <1>1, <1>3 DEF Upload, TypeOK
  <2> QED BY <1>1, <1>2, <1>3, <2>1, DispatchDoc DEF Upload
<1>4. CASE d = e
  <2>1. docs'[d] = "uploaded" /\ ~Exists(d)
    BY <1>1, <1>4 DEF Upload, FreeDoc, TypeOK
  <2>2. \A q \in Runs : Started(q)' => runs'[q].doc # d
    <3>1. \A q \in Runs : Live(q) => runs[q].doc # d
      BY <1>4 DEF Upload, FreeDoc
    <3> QED BY <1>1, <3>1 DEF Upload, TypeOK, QueuedRun, Started, Live
  <2>3. \A i \in Jobs : jobs'[i].doc = d => i = j
    BY <1>2, <2>1, NullAssumption DEF Bound, Linked
  <2>4. scan'[j] = "no"
    BY <1>1 DEF IInv, LockedRowsKeep
  <2> QED BY <1>2, <1>4, <2>1, <2>2, <2>3, <2>4 DEF DocOK, StageOK, Searchable, ScanSaw, Settled
<1> QED BY <1>3, <1>4

LEMMA DeletionDoc ==
  ASSUME IInv, NEW e \in Docs, DeleteDocument(e), NEW d \in Docs, d # e, DocOK(d)
  PROVE  DocOK(d)'
<1>1. TypeOK /\ UNCHANGED <<runs, scan>>
  BY DEF IInv, DeleteDocument
<1>2. docs'[d] = docs[d] /\ vectors'[d] = vectors[d]
  BY <1>1 DEF DeleteDocument, TypeOK
<1>3. ASSUME NEW j \in Jobs
      PROVE  jobs'[j].st = jobs[j].st /\ (jobs'[j].doc = d <=> jobs[j].doc = d)
  <2>1. jobs[j] \in JobRow
    BY <1>1 DEF TypeOK
  <2>2. jobs'[j] = IF jobs[j].doc = e THEN [jobs[j] EXCEPT !.doc = NoDoc] ELSE jobs[j]
    BY DEF DeleteDocument
  <2> QED BY <2>1, <2>2, NullAssumption DEF JobRow
<1> QED BY <1>1, <1>2, <1>3, UntouchedDoc

-----------------------------------------------------------------------------
(* The steps of the program.                                               *)

LEMMA RequestBound ==
  ASSUME IInv, Bound, NEW j \in Jobs,
         \/ Age(j) \/ ScanRead(j) \/ ScanCommit(j) \/ ScanAbort(j)
         \/ CancelJob(j) \/ RetryCheck(j) \/ RetryAbort(j) \/ PurgeJob(j)
  PROVE  Bound'
<1>1. TypeOK /\ UNCHANGED runs
  BY DEF IInv, Age, ScanRead, ScanCommit, ScanAbort, CancelJob, RetryCheck, RetryAbort, PurgeJob
<1>2. CASE ScanRead(j) \/ ScanAbort(j) \/ RetryCheck(j) \/ RetryAbort(j)
  <2>1. UNCHANGED <<jobs, docs>>
    BY <1>2 DEF ScanRead, ScanAbort, RetryCheck, RetryAbort
  <2> QED BY <1>1, <2>1, RowsBound DEF SameDocs, Exists
<1>3. CASE Age(j)
  <2>1. /\ UNCHANGED docs
        /\ \A i \in Jobs : jobs'[i].doc = jobs[i].doc /\ jobs'[i].st = jobs[i].st
    BY <1>1, <1>3 DEF Age, TypeOK, JobRow
  <2> QED BY <1>1, <2>1, RowsBound DEF SameDocs, Exists
<1>4. CASE PurgeJob(j)
  <2>1. /\ UNCHANGED docs /\ jobs'[j].doc = NoDoc /\ jobs'[j].st = "absent"
        /\ \A i \in Jobs \ {j} : jobs'[i] = jobs[i]
    BY <1>1, <1>4 DEF PurgeJob, TypeOK, NoJobRow
  <2> QED BY <1>1, <2>1, RowsBound DEF SameDocs, Exists
<1>5. CASE ScanCommit(j) \/ CancelJob(j)
  <2>1. jobs[j].doc = NoDoc \/ docs[jobs[j].doc] # "absent"
    BY DEF Bound, Linked, Exists
  <2>2. SameDocs
    BY <1>1, <1>5, <2>1 DEF ScanCommit, CancelJob, SameDocs, Exists, TypeOK
  <2>3. jobs[j].st # "absent"
    BY <1>5 DEF ScanCommit, CancelJob, IInv, LockedRowsKeep
  <2>4. jobs'[j].doc = jobs[j].doc /\ \A i \in Jobs \ {j} : jobs'[i] = jobs[i]
    BY <1>1, <1>5, WriteKeepsDoc DEF ScanCommit, CancelJob
  <2> QED BY <1>1, <2>2, <2>3, <2>4, RowsBound
<1> QED BY <1>2, <1>3, <1>4, <1>5

LEMMA HeartbeatBound ==
  ASSUME IInv, Bound, NEW r \in Runs, Heartbeat(r)
  PROVE  Bound'
<1>1. TypeOK /\ UNCHANGED <<docs, runs>> /\ runs[r].job \in Jobs
  BY PointNames DEF IInv, LiveHasJob, Live, Heartbeat, Beating, Working
<1>2. \A i \in Jobs : jobs'[i].doc = jobs[i].doc /\ jobs'[i].st = jobs[i].st
  BY <1>1, WriteKeepsDoc DEF Heartbeat, Touch
<1> QED BY <1>1, <1>2, RowsBound DEF SameDocs, Exists

LEMMA CreationBound ==
  ASSUME IInv, Bound, NEW j \in Jobs, NEW r \in Runs,
         \/ ScanClaim(j, r)
         \/ \E i \in Jobs : RetryCommit(i, j, r)
         \/ \E d \in Docs : Upload(d, j, r)
  PROVE  Bound'
<1>1. TypeOK
  BY DEF IInv
<1>2. CASE ScanClaim(j, r)
  <2>0. PICK d \in Docs \cup {NoDoc} : d = jobs[j].doc
    BY <1>1 DEF TypeOK, JobRow
  <2>1. /\ Fresh(r) /\ UNCHANGED docs /\ runs' = [runs EXCEPT ![r] = QueuedRun(r, j, d, TRUE)]
        /\ jobs[j].st # "absent" /\ Write(j, "running", r)
    BY <1>2, <2>0 DEF ScanClaim
  <2>2. jobs'[j].doc = d /\ \A i \in Jobs \ {j} : jobs'[i] = jobs[i]
    BY <1>1, <2>0, <2>1, WriteKeepsDoc
  <2>3. (d # NoDoc => Exists(d)) /\ (d # NoDoc => Exists(d)')
    BY <2>0, <2>1 DEF Bound, Linked, Exists
  <2>4. \A e \in Docs \cup {NoDoc} : Exists(e)' <=> Exists(e) \/ (e = d /\ d # NoDoc)
    BY <2>1, <2>3 DEF Exists
  <2> QED BY <2>0, <2>1, <2>2, <2>3, <2>4, DispatchBound
<1>3. ASSUME NEW i \in Jobs, RetryCommit(i, j, r) PROVE Bound'
  <2>0. PICK d \in Docs \cup {NoDoc} : d = jobs[i].doc
    BY <1>1 DEF TypeOK, JobRow
  <2>1. /\ Fresh(r) /\ UNCHANGED docs /\ runs' = [runs EXCEPT ![r] = QueuedRun(r, j, d, FALSE)]
        /\ \A q \in Runs : Live(q) => runs[q].job # j
    BY <1>3, <2>0 DEF RetryCommit, FreeJob
  <2>2. jobs'[j].doc = d /\ \A k \in Jobs \ {j} : jobs'[k] = jobs[k]
    BY <1>1, <1>3, <2>0, PendingRowWritten DEF RetryCommit
  <2>3. (d # NoDoc => Exists(d)) /\ (d # NoDoc => Exists(d)')
    BY <2>0, <2>1 DEF Bound, Linked, Exists
  <2>4. \A e \in Docs \cup {NoDoc} : Exists(e)' <=> Exists(e) \/ (e = d /\ d # NoDoc)
    BY <2>1, <2>3 DEF Exists
  <2> QED BY <2>1, <2>2, <2>3, <2>4, DispatchBound
<1>4. ASSUME NEW d \in Docs, Upload(d, j, r) PROVE Bound'
  <2>1. /\ Fresh(r) /\ runs' = [runs EXCEPT ![r] = QueuedRun(r, j, d, FALSE)]
        /\ \A q \in Runs : Live(q) => runs[q].job # j
        /\ \A q \in Runs : Live(q) => runs[q].doc # d
    BY <1>4 DEF Upload, FreeJob, FreeDoc
  <2>2. jobs'[j].doc = d /\ \A i \in Jobs \ {j} : jobs'[i] = jobs[i]
    BY <1>1, <1>4, PendingRowWritten DEF Upload
  <2>3. \A e \in Docs \cup {NoDoc} : Exists(e)' <=> Exists(e) \/ (e = d /\ d # NoDoc)
    BY <1>1, <1>4, NullAssumption DEF Upload, Exists, TypeOK
  <2>4. d \in Docs \cup {NoDoc} /\ Exists(d)' /\ jobs[j].st = "absent"
    BY <2>3, <1>4, NullAssumption DEF Upload, FreeJob
  <2> QED BY <2>1, <2>2, <2>3, <2>4, DispatchBound
<1> QED BY <1>2, <1>3, <1>4

LEMMA BoundKept == IInv /\ Bound /\ Next => Bound'
<1> SUFFICES ASSUME IInv, Bound, Next PROVE Bound'
  OBVIOUS
<1> QED
  BY ExecutionBound, HeartbeatBound, RequestBound, CreationBound, AddMissingJobBound, DeletionBound
     DEF Next

\* A document that is there after a step and without competition so far was in order
\* before the step, or the step uploads it.
LEMMA NextDoc ==
  ASSUME DInv, Next, NEW d \in Docs, Exists(d)', d \notin raced
  PROVE  DocOK(d)'
<1>1. IInv /\ Bound /\ TypeOK /\ LiveHasJob
  BY DEF DInv, IInv
<1>2. Exists(d) => ~Competing(d) /\ DocOK(d)
  BY DEF DInv, RacedKnown
<1>3. CASE \E e \in Docs, j \in Jobs, r \in Runs : Upload(e, j, r)
  <2>1. PICK e \in Docs, j \in Jobs, r \in Runs : Upload(e, j, r)
    BY <1>3
  <2>2. d # e => Exists(d)
    BY <1>1, <2>1 DEF Upload, Exists, TypeOK
  <2> QED BY <1>1, <1>2, <2>1, <2>2, UploadDoc
<1>4. CASE \E e \in Docs : DeleteDocument(e)
  <2>1. PICK e \in Docs : DeleteDocument(e)
    BY <1>4
  <2>2. d # e /\ Exists(d)
    BY <1>1, <2>1 DEF DeleteDocument, Exists, TypeOK
  <2> QED BY <1>1, <1>2, <2>1, <2>2, DeletionDoc
<1>5. CASE \E r \in Runs : Step(r) \/ Raise(r) \/ Die(r)
  <2>1. PICK r \in Runs : Step(r) \/ Raise(r) \/ Die(r)
    BY <1>5
  <2>2. SameDocs
    BY <1>1, <2>1, StepKept, KeptSameDocs DEF Bound
  <2>3. Exists(d)
    BY <2>2 DEF SameDocs
  <2> QED BY <1>1, <1>2, <2>1, <2>3, ExecutionDoc
<1>6. ASSUME UNCHANGED docs PROVE Exists(d)
  BY <1>6 DEF Exists
<1>7. CASE \E r \in Runs : Heartbeat(r)
  <2>1. \E r \in Runs : runs[r].job \in Jobs /\ Heartbeat(r)
    BY <1>1, <1>7, PointNames DEF LiveHasJob, Live, Heartbeat, Beating, Working
  <2>2. UNCHANGED docs
    BY <1>7 DEF Heartbeat
  <2> QED BY <1>1, <1>2, <1>6, <2>1, <2>2, RowStepDoc
<1>8. CASE \E j \in Jobs : \/ Age(j) \/ ScanRead(j) \/ ScanAbort(j) \/ RetryCheck(j) \/ RetryAbort(j)
                          \/ PurgeJob(j)
  <2>1. UNCHANGED docs
    BY <1>8 DEF Age, ScanRead, ScanAbort, RetryCheck, RetryAbort, PurgeJob
  <2> QED BY <1>1, <1>2, <1>6, <1>8, <2>1, RowStepDoc
<1>9. CASE \E j \in Jobs : ScanCommit(j) \/ CancelJob(j)
  <2>1. PICK j \in Jobs : ScanCommit(j) \/ CancelJob(j)
    BY <1>9
  <2>2. jobs[j].doc = NoDoc \/ docs[jobs[j].doc] # "absent"
    BY <1>1 DEF Bound, Linked, Exists
  <2>3. Exists(d)
    BY <1>1, <2>1, <2>2 DEF ScanCommit, CancelJob, Exists, TypeOK
  <2> QED BY <1>1, <1>2, <2>1, <2>3, ScanCommitDoc, CancelJobDoc
<1>10. CASE \/ \E j \in Jobs, r \in Runs : ScanClaim(j, r)
            \/ \E e \in Docs, j \in Jobs : AddMissingJob(e, j)
            \/ \E j, i \in Jobs, r \in Runs : RetryCommit(j, i, r)
  <2>1. UNCHANGED docs
    BY <1>10 DEF ScanClaim, AddMissingJob, RetryCommit
  <2> QED BY <1>1, <1>2, <1>6, <1>10, <2>1, ScanClaimDoc, AddMissingJobDoc, RetryCommitDoc
<1> QED BY <1>3, <1>4, <1>5, <1>7, <1>8, <1>9, <1>10 DEF Next

-----------------------------------------------------------------------------
(* Invariance.                                                             *)

LEMMA DInvInit == MCInit => DInv
<1> SUFFICES ASSUME MCInit PROVE DInv
  OBVIOUS
<1>1. IInv
  BY InitHolds DEF MCInit
<1>2. /\ \A j \in Jobs : jobs[j].st = "absent" /\ jobs[j].doc = NoDoc /\ scan[j] = "no"
      /\ \A r \in Runs : runs[r].pc = "idle"
      /\ \A d \in Docs : docs[d] # "indexed"
  BY DEF MCInit, Init, NoJobRow, IdleRun
<1>3. Bound
  BY <1>2 DEF Bound, Linked, SameDocument, Live, Local, BeforeReady, AfterReady
<1>4. \A d \in Docs : ~Competing(d) /\ DocOK(d)
  BY <1>2, NullAssumption
     DEF Competing, Started, ActiveStatuses, DocOK, StageOK, Searchable, ScanSaw, Settled
<1> QED BY <1>1, <1>3, <1>4 DEF DInv, RacedKnown

LEMMA DInvStutter == DInv /\ UNCHANGED mcvars => DInv'
<1> SUFFICES ASSUME DInv, UNCHANGED mcvars PROVE DInv'
  OBVIOUS
<1>1. UNCHANGED vars /\ raced' = raced
  BY DEF mcvars
<1>2. IInv'
  BY <1>1, StutterKeeps DEF DInv
<1>3. Bound'
  BY <1>1 DEF DInv, Bound, vars, Linked, SameDocument, Local, Live, JobOf, Exists
<1>4. \A d \in Docs : /\ Exists(d)' <=> Exists(d)
                      /\ Competing(d)' <=> Competing(d)
                      /\ DocOK(d) => DocOK(d)'
  BY <1>1 DEF vars, Exists, Competing, Started, Loose, JobOf, DocOK, StageOK, Stage, Searchable, ScanSaw,
     Settled
<1> QED BY <1>1, <1>2, <1>3, <1>4 DEF DInv, RacedKnown

LEMMA DInvStep == DInv /\ [MCNext]_mcvars => DInv'
<1> SUFFICES ASSUME DInv, MCNext PROVE DInv'
  BY DInvStutter
<1>1. IInv' /\ Bound'
  BY NextKeeps, BoundKept DEF DInv, MCNext
<1>2. RacedKnown'
  BY DEF RacedKnown, MCNext
<1>3. ASSUME NEW d \in Docs, Exists(d)', d \notin raced' PROVE DocOK(d)'
  BY <1>3, NextDoc DEF MCNext
<1> QED BY <1>1, <1>2, <1>3 DEF DInv

LEMMA DocumentInvariance == MCSpec => []DInv
BY DInvInit, DInvStep, PTL DEF MCSpec

\* A document that says indexed can be searched: whatever crashed, was cancelled,
\* retried or reindexed, process_document writes the status only after the
\* embeddings, and takes them back only under the status chunking.
THEOREM SearchCorrect == MCSpec => []IndexedIsSearchable
<1>1. DInv => IndexedIsSearchable
  BY NullAssumption DEF DInv, IndexedIsSearchable, DocOK, Searchable, Exists
<1> QED BY DocumentInvariance, <1>1, PTL

\* A document whose jobs have all ended shows how it ended: none is left in parsing,
\* chunking or summarizing by the crash, cancel, failure and retry paths.
THEOREM SettledCorrect == MCSpec => []SettledOutcome
<1>1. DInv => SettledOutcome
  BY DEF DInv, SettledOutcome, DocOK, Settled, Quiet
<1> QED BY DocumentInvariance, <1>1, PTL

\* Only an execution ends a running job in success or failure.
LEMMA OthersDoNotEnd ==
  ASSUME IInv, Next, NEW j \in Jobs, jobs[j].st = "running", jobs'[j].st \in {"success", "failed"}
  PROVE  \E r \in Runs : Step(r) \/ Raise(r) \/ Die(r)
<1>1. TypeOK /\ ~Locked(j)
  BY LockedStatus DEF IInv
<1>2. ASSUME NEW i \in Jobs, NEW st, NEW tok, Write(i, st, tok), st \notin {"success", "failed"}
      PROVE  FALSE
  BY <1>1, <1>2, WriteKeepsDoc
<1>3. ASSUME NEW i \in Jobs, NEW d, jobs[i].st = "absent", jobs' = [jobs EXCEPT ![i] = PendingRow(d)]
      PROVE  FALSE
  BY <1>1, <1>3, PendingRowWritten
<1>4. ASSUME UNCHANGED jobs PROVE FALSE
  BY <1>4
<1>5. ASSUME NEW r \in Runs, Heartbeat(r) PROVE FALSE
  <2>1. runs[r].job \in Jobs /\ Write(runs[r].job, "running", JobOf(r).tok)
    BY <1>5, PointNames DEF IInv, LiveHasJob, Live, Heartbeat, Beating, Working, Touch, JobOf
  <2> QED BY <1>2, <2>1
<1>6. ASSUME NEW i \in Jobs, Age(i) PROVE FALSE
  BY <1>1, <1>6 DEF Age, TypeOK, JobRow
<1>7. ASSUME NEW i \in Jobs, PurgeJob(i) PROVE FALSE
  BY <1>1, <1>7 DEF PurgeJob, TypeOK, NoJobRow
<1>8. ASSUME NEW i \in Jobs, ScanCommit(i) \/ CancelJob(i) PROVE FALSE
  BY <1>2, <1>8 DEF ScanCommit, CancelJob
<1>9. ASSUME NEW i \in Jobs, ScanRead(i) \/ ScanAbort(i) \/ RetryCheck(i) \/ RetryAbort(i) PROVE FALSE
  BY <1>4, <1>9 DEF ScanRead, ScanAbort, RetryCheck, RetryAbort
<1>10. ASSUME NEW i \in Jobs, NEW r \in Runs, ScanClaim(i, r) PROVE FALSE
  BY <1>2, <1>10 DEF ScanClaim
<1>11. ASSUME NEW d \in Docs, NEW i \in Jobs, AddMissingJob(d, i) \/ \E r \in Runs : Upload(d, i, r) PROVE FALSE
  BY <1>3, <1>11 DEF AddMissingJob, Upload, FreeJob
<1>12. ASSUME NEW i \in Jobs, NEW k \in Jobs, NEW r \in Runs, RetryCommit(i, k, r) PROVE FALSE
  BY <1>3, <1>12 DEF RetryCommit, FreeJob
<1>13. ASSUME NEW d \in Docs, DeleteDocument(d) PROVE FALSE
  <2>1. jobs[j] \in JobRow
    BY <1>1 DEF TypeOK
  <2>2. jobs'[j] = IF jobs[j].doc = d THEN [jobs[j] EXCEPT !.doc = NoDoc] ELSE jobs[j]
    BY <1>13 DEF DeleteDocument
  <2> QED BY <2>1, <2>2 DEF JobRow
<1> QED
  BY <1>5, <1>6, <1>7, <1>8, <1>9, <1>10, <1>11, <1>12, <1>13 DEF Next

\* A job ends in success only over an indexed document, and in failed only over a
\* failed one.
THEOREM OutcomesCorrect == MCSpec => OutcomesAgree
<1> DEFINE Agrees(j) ==
      LET d == jobs[j].doc IN
       /\ jobs[j].st = "running" /\ d # NoDoc /\ d \notin raced
       => /\ jobs'[j].st = "success" => docs[d] = "indexed"
          /\ jobs'[j].st = "failed" /\ Exists(d) => docs[d] = "failed"
<1>1. ASSUME DInv, MCNext, NEW j \in Jobs PROVE Agrees(j)
  <2>1. SUFFICES ASSUME jobs[j].st = "running", jobs[j].doc # NoDoc, jobs[j].doc \notin raced,
                        jobs'[j].st \in {"success", "failed"}
                 PROVE  /\ jobs'[j].st = "success" => docs[jobs[j].doc] = "indexed"
                        /\ jobs'[j].st = "failed" => docs[jobs[j].doc] = "failed"
    OBVIOUS
  <2>2. IInv /\ Bound /\ TypeOK /\ LiveHasJob /\ jobs[j].doc \in Docs /\ Exists(jobs[j].doc)
    BY <1>1, <2>1 DEF DInv, IInv, Bound, Linked, TypeOK, JobRow
  <2>3. PICK r \in Runs : Step(r) \/ Raise(r) \/ Die(r)
    BY <1>1, <2>1, <2>2, OthersDoNotEnd DEF MCNext
  <2>4. JobsKept(r) /\ Live(r)
    BY <2>2, <2>3, StepJobsKept, StepEffect, RaiseEffect, DieEffect DEF Effect
  <2>5. Settles(r) /\ j = runs[r].job
    BY <2>1, <2>4 DEF JobsKept, TerminalStatuses
  <2>6. runs[r].doc = jobs[j].doc /\ Started(r)
    BY <2>1, <2>2, <2>4, <2>5 DEF Bound, SameDocument, JobOf, Settles, Started
  <2>7. Stage(r) /\ runs[r].pc # "orphaned"
    BY <1>1, <2>1, <2>2, <2>6 DEF DInv, DocOK, StageOK, Bound, Local
  <2>8. \E st \in {"success", "failed", "cancelled"} : Write(j, st, NoRun) /\ jobs'[j].st = st
    BY <2>2, <2>5, WriteKeepsDoc DEF Settles
  <2>9. \/ runs[r].pc = "finishing" /\ jobs'[j].st = "success"
        \/ runs[r].pc = "failJob" /\ jobs'[j].st = "failed"
    BY <2>1, <2>2, <2>5, <2>7, WriteKeepsDoc DEF Settles, JobOf
  <2> QED BY <2>6, <2>7, <2>9 DEF Stage
<1>2. DInv /\ [MCNext]_mcvars => [\A j \in Jobs : Agrees(j)]_mcvars
  BY <1>1
<1> QED BY DocumentInvariance, <1>2, PTL DEF MCSpec, OutcomesAgree

=============================================================================
