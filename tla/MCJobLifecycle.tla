---------------------------- MODULE MCJobLifecycle ----------------------------
(***************************************************************************)
(* JobLifecycle for TLC, with a history variable that remembers which      *)
(* documents two writers ever competed for.                                *)
(***************************************************************************)
EXTENDS JobLifecycle, TLC

VARIABLE raced   \* documents for which writers have competed

mcvars == <<vars, raced>>

\* Executions past their first read of the rows, and past their claim without
\* the row carrying their token.
Started(r) == runs[r].pc \notin {"idle", "queued", "loaded"}
Loose(r) == Started(r) /\ JobOf(r).tok # r

\* Two writers of one document's status: an execution without the lease, two
\* executions, an execution and a scan, or two open jobs, which each allow one.
Competing(d) ==
  \/ \E r \in Runs :
       /\ Started(r) /\ runs[r].doc = d
       /\ \/ Loose(r)
          \/ \E q \in Runs \ {r} : Started(q) /\ runs[q].doc = d
          \/ \E j \in Jobs : scan[j] # "no" /\ jobs[j].doc = d
  \/ \E i, j \in Jobs :
       /\ i # j /\ jobs[i].doc = d /\ jobs[j].doc = d
       /\ jobs[i].st \in ActiveStatuses /\ jobs[j].st \in ActiveStatuses

MCInit == Init /\ raced = {}
MCNext == Next /\ raced' = {d \in Docs : Exists(d)' /\ (d \in raced \/ Competing(d)')}
MCSpec == MCInit /\ [][MCNext]_mcvars
MCFairSpec == MCSpec /\ Fairness

Symmetry == Permutations(Runs) \cup Permutations(Jobs) \cup Permutations(Docs)

-----------------------------------------------------------------------------
\* No job of the document is open and no execution is past its first read.
Quiet(d) == /\ \A j \in Jobs : jobs[j].doc = d => jobs[j].st \notin ActiveStatuses
            /\ \A r \in Runs : runs[r].doc = d => runs[r].pc \in {"idle", "queued", "loaded"}

\* A document that was ever worked on and is quiet shows a final status; the
\* crash, cancel, failure and retry paths of a single execution at a time never
\* leave it in parsing, chunking or summarizing.
SettledOutcome ==
  \A d \in Docs : /\ Exists(d) /\ d \notin raced /\ Quiet(d)
                  /\ \E j \in Jobs : jobs[j].doc = d
                  => docs[d] \in {"indexed", "failed", "cancelled"}

\* A document that says indexed has embeddings for the chunks it has.
IndexedIsSearchable ==
  \A d \in Docs : d \notin raced /\ docs[d] = "indexed" => vectors[d]

\* The outcome of the job and of its document agree when the job ends.
OutcomesAgree ==
  [][\A j \in Jobs : LET d == jobs[j].doc IN
       /\ jobs[j].st = "running" /\ d # NoDoc /\ d \notin raced
       => /\ jobs'[j].st = "success" => docs[d] = "indexed"
          /\ jobs'[j].st = "failed" /\ Exists(d) => docs[d] = "failed"]_mcvars

\* At most one active index job per document.
OneActiveJob ==
  \A i, j \in Jobs : /\ i # j /\ jobs[i].doc = jobs[j].doc /\ jobs[i].doc # NoDoc
                     => ~(jobs[i].st \in ActiveStatuses /\ jobs[j].st \in ActiveStatuses)

\* An execution that worked under its lease and lost it to another one leaves
\* without touching the document.
Superseded(r) == Working(r) /\ JobOf(r).tok \notin {r, NoRun}
NoSideEffects ==
  [][\A r \in Runs : Superseded(r) /\ runs'[r] # runs[r] => docs' = docs]_mcvars

\* A cancel that comes after the index of a document was committed keeps the
\* document indexed.
CommittedIndexKept ==
  [][\A d \in Docs : docs[d] # "cancelled" /\ docs'[d] = "cancelled"
       => \A r \in Runs : runs[r].doc = d => ~runs[r].ready]_mcvars

-----------------------------------------------------------------------------
\* Every job that is open ends, whatever its execution met: it was lost before or
\* after its claim, cancelled, or superseded.
JobsEnd == \A j \in Jobs : (jobs[j].st \in ActiveStatuses) ~> (jobs[j].st \notin ActiveStatuses)

\* A document that was uploaded is taken up, also one that has no job.
UploadsAreTaken == \A d \in Docs : (docs[d] = "uploaded") ~> (docs[d] # "uploaded")

\* A document in the middle of its indexing gets out of it, unless executions
\* competed for it.
StagesEnd ==
  \A d \in Docs : (docs[d] \in {"parsing", "chunking", "summarizing"})
                 ~> (docs[d] \in {"indexed", "failed", "cancelled", "absent"} \/ d \in raced)

=============================================================================
