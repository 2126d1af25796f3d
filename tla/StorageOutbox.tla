----------------------------- MODULE StorageOutbox -----------------------------
(***************************************************************************)
(* Files of documents: uploads that save the file before the row, deletions *)
(* that put a row into the table storage_deletions in the transaction that *)
(* deletes the document, workers that lease such rows and delete the file, *)
(* operators that dispose of orphans or hurry a retry, and a storage       *)
(* configuration that may change between restarts.                         *)
(*                                                                         *)
(* One step is one transaction or one call of the storage backend.         *)
(***************************************************************************)
EXTENDS Naturals, FiniteSets

CONSTANTS
  Scopes,     \* storage backend and scope: a root directory, a bucket
  Keys,       \* storage keys, a uuid4 each
  Workers,    \* batches that may be at work, one per process
  Tokens,     \* lease tokens
  NoToken,    \* the NULL lease_token
  Batch,      \* storage_deletion_batch_size
  MaxFaults   \* bound on crashes, errors, restarts and batches slower than their lease

ASSUME TokenAssumption == NoToken \notin Tokens
ASSUME BatchAssumption == Batch \in Nat \ {0} /\ MaxFaults \in Nat

Locations == Scopes \X Keys
ScopeOf(l) == l[1]
KeyOf(l) == l[2]

VARIABLES
  conf,      \* the current storage backend and scope
  objects,   \* the files that exist
  docs,      \* locations that a document row refers to
  uploads,   \* files that were saved by a request whose commit is still to come
  rows,      \* [Locations -> row of storage_deletions]
  workers,   \* [Workers -> batch]
  suspects,  \* orphans that an operator has verified and not yet enqueued
  disposed,  \* history: locations that were enqueued as orphans
  faults     \* faults so far

vars == <<conf, objects, docs, uploads, rows, workers, suspects, disposed, faults>>

-----------------------------------------------------------------------------
\* lease: lease_expires_at is null, ahead or over; due: next_attempt_at is over;
\* tried: attempts > 0.
NoRow == [there |-> FALSE, tok |-> NoToken, lease |-> "none", due |-> FALSE, tried |-> FALSE]
NewRow == [NoRow EXCEPT !.there = TRUE, !.due = TRUE]

\* A batch: the claims that are left, and the one whose file was deleted or could
\* not be deleted while its row does not know yet.
Claims == [loc : Locations, tok : Tokens]
Idle == [left |-> {}, deleted |-> {}, failed |-> {}]
Held(w) == workers[w].left \cup workers[w].deleted \cup workers[w].failed

\* INSERT ... ON CONFLICT DO NOTHING.
Enqueued(S) == [l \in Locations |-> IF l \in S /\ ~rows[l].there THEN NewRow ELSE rows[l]]

Busy(l) == \E w \in Workers : \E c \in Held(w) : c.loc = l
FreshTokens == {t \in Tokens : /\ \A l \in Locations : rows[l].tok # t
                               /\ \A w \in Workers : \A c \in Held(w) : c.tok # t}

\* A key that nothing refers to: a new uuid4.
FreshKey(k) == \A l \in Locations : KeyOf(l) = k =>
  /\ l \notin objects \cup docs \cup suspects
  /\ ~rows[l].there /\ ~Busy(l)

Fault == faults < MaxFaults /\ faults' = faults + 1

-----------------------------------------------------------------------------
(* Uploads and deletions.                                                  *)

\* save_upload.
SaveUpload(k) ==
  LET l == <<conf, k>> IN
  /\ FreshKey(k)
  /\ objects' = objects \cup {l}
  /\ uploads' = uploads \cup {l}
  /\ disposed' = disposed \ {l}
  /\ UNCHANGED <<conf, docs, rows, workers, suspects, faults>>

CommitUpload(l) ==
  /\ l \in uploads
  /\ docs' = docs \cup {l}
  /\ uploads' = uploads \ {l}
  /\ UNCHANGED <<conf, objects, rows, workers, suspects, disposed, faults>>

\* The file is empty or the rows were refused: the file is deleted, unless that
\* fails too.
AbortUpload(l) ==
  /\ l \in uploads
  /\ objects' \in {objects, objects \ {l}}
  /\ uploads' = uploads \ {l}
  /\ UNCHANGED <<conf, docs, rows, workers, suspects, disposed, faults>>

\* Mutant of LoseCommit: the file is deleted as for any other failure.
LoseCommitDeletes(l) ==
  /\ l \in uploads
  /\ docs' \in {docs, docs \cup {l}}
  /\ objects' = objects \ {l}
  /\ uploads' = uploads \ {l}
  /\ UNCHANGED <<conf, rows, workers, suspects, disposed, faults>>

\* The commit raised or the request was lost, and nobody knows whether the rows are
\* there: the file stays.
LoseCommit(l) ==
  /\ l \in uploads
  /\ docs' \in {docs, docs \cup {l}}
  /\ uploads' = uploads \ {l}
  /\ UNCHANGED <<conf, objects, rows, workers, suspects, disposed, faults>>

\* delete_document, or delete_account for the documents of one user: rows for the
\* files and the end of the documents are one transaction.
DeleteDocuments(S) ==
  /\ S # {} /\ S \subseteq docs
  /\ docs' = docs \ S
  /\ rows' = Enqueued(S)
  /\ UNCHANGED <<conf, objects, uploads, workers, suspects, disposed, faults>>

-----------------------------------------------------------------------------
(* Operators.                                                              *)

\* inspect_orphan_status, and then the insert of enqueue_orphan_deletion.
Inspect(l) ==
  /\ ScopeOf(l) = conf
  /\ l \in objects \ docs /\ ~rows[l].there
  /\ suspects' = suspects \cup {l}
  /\ UNCHANGED <<conf, objects, docs, uploads, rows, workers, disposed, faults>>

EnqueueOrphan(l) ==
  /\ l \in suspects
  /\ suspects' = suspects \ {l}
  /\ disposed' = disposed \cup {l}
  /\ rows' = Enqueued({l})
  /\ UNCHANGED <<conf, objects, docs, uploads, workers, faults>>

\* retry_storage_deletion_now, for a row that waits for its next attempt.
RetryNow(l) ==
  /\ ScopeOf(l) = conf
  /\ rows[l].there /\ rows[l].tried
  /\ rows[l].lease # "live" /\ ~rows[l].due
  /\ rows' = [rows EXCEPT ![l].due = TRUE, ![l].tok = NoToken, ![l].lease = "none"]
  /\ UNCHANGED <<conf, objects, docs, uploads, workers, suspects, disposed, faults>>

\* A file is copied to another root or bucket, outside of the program.
CopyFile(l) ==
  /\ l \notin objects \cup docs /\ ~rows[l].there
  /\ \E m \in objects : KeyOf(m) = KeyOf(l)
  /\ objects' = objects \cup {l}
  /\ UNCHANGED <<conf, docs, uploads, rows, workers, suspects, disposed, faults>>

\* A restart with another configuration: requests and batches are gone.
Reconfigure(s) ==
  /\ s # conf /\ Fault
  /\ conf' = s
  /\ uploads' = {}
  /\ workers' = [w \in Workers |-> Idle]
  /\ UNCHANGED <<objects, docs, rows, suspects, disposed>>

-----------------------------------------------------------------------------
(* process_storage_deletion_batch.                                         *)

Eligible == {l \in Locations : rows[l].there /\ rows[l].due /\ rows[l].lease # "live"}

\* Every row of S gets a lease and a token of its own.
Lease(w, S) ==
  \E token \in [S -> FreshTokens] :
    /\ \A l, m \in S : l # m => token[l] # token[m]
    /\ rows' = [l \in Locations |->
                  IF l \in S
                  THEN [rows[l] EXCEPT !.tok = token[l], !.lease = "live", !.tried = TRUE]
                  ELSE rows[l]]
    /\ workers' = [workers EXCEPT ![w].left = {[loc |-> l, tok |-> token[l]] : l \in S}]
    /\ UNCHANGED <<conf, objects, docs, uploads, suspects, disposed, faults>>

\* Mutant of ClaimRows: a live lease is not respected.
ClaimLeasedRows(w, S) ==
  /\ workers[w] = Idle
  /\ S # {} /\ S \subseteq {l \in Locations : rows[l].there /\ rows[l].due}
  /\ Cardinality(S) <= Batch
  /\ Lease(w, S)

\* claim_storage_deletions.  The oldest rows come first, but rows that another claim
\* has locked are skipped: S may be any of them.
ClaimRows(w, S) ==
  /\ workers[w] = Idle
  /\ S # {} /\ S \subseteq Eligible
  /\ Cardinality(S) <= Batch
  /\ Lease(w, S)

\* The next claim of the batch.
Upcoming(w, c) == c \in workers[w].left /\ workers[w].deleted \cup workers[w].failed = {}

\* Mutant of DeleteFile: a configuration that changed is not noticed.
DeleteFileHere(w, c) ==
  /\ Upcoming(w, c)
  /\ objects' = objects \ {<<conf, KeyOf(c.loc)>>}
  /\ workers' = [workers EXCEPT ![w].left = @ \ {c}, ![w].deleted = {c}]
  /\ UNCHANGED <<conf, docs, uploads, rows, suspects, disposed, faults>>

\* delete_key_for_backend: only in the configuration of the row; a file that is not
\* there is as good as deleted.
DeleteFile(w, c) ==
  /\ Upcoming(w, c)
  /\ ScopeOf(c.loc) = conf
  /\ objects' = objects \ {<<conf, KeyOf(c.loc)>>}
  /\ workers' = [workers EXCEPT ![w].left = @ \ {c}, ![w].deleted = {c}]
  /\ UNCHANGED <<conf, docs, uploads, rows, suspects, disposed, faults>>

\* ... and otherwise an error, as when the storage fails, before or after the file
\* was deleted.
DeleteFails(w, c) ==
  /\ Upcoming(w, c)
  /\ \/ ScopeOf(c.loc) # conf /\ UNCHANGED <<objects, faults>>
     \/ ScopeOf(c.loc) = conf /\ Fault /\ objects' \in {objects, objects \ {c.loc}}
  /\ workers' = [workers EXCEPT ![w].left = @ \ {c}, ![w].failed = {c}]
  /\ UNCHANGED <<conf, docs, uploads, rows, suspects, disposed>>

\* Mutant of Owned: the token is not compared.
OwnedByAnyone(c) == rows[c.loc].there

\* WHERE id = claim.id AND lease_token = claim.lease_token.
Owned(c) == rows[c.loc].tok = c.tok

\* Mutant of Release: the token stays in the row.
ReleaseKeepsToken(r) == [r EXCEPT !.lease = "none", !.due = FALSE]

\* The row waits for its next attempt.
Release(r) == [r EXCEPT !.tok = NoToken, !.lease = "none", !.due = FALSE]

\* Mutant of Complete: the row is released as after a failure.
CompleteReleases(w, c) ==
  /\ c \in workers[w].deleted
  /\ rows' = IF Owned(c) THEN [rows EXCEPT ![c.loc] = Release(@)] ELSE rows
  /\ workers' = [workers EXCEPT ![w].deleted = {}]
  /\ UNCHANGED <<conf, objects, docs, uploads, suspects, disposed, faults>>

\* complete_storage_deletion.
Complete(w, c) ==
  /\ c \in workers[w].deleted
  /\ rows' = IF Owned(c) THEN [rows EXCEPT ![c.loc] = NoRow] ELSE rows
  /\ workers' = [workers EXCEPT ![w].deleted = {}]
  /\ UNCHANGED <<conf, objects, docs, uploads, suspects, disposed, faults>>

\* fail_storage_deletion.
Fail(w, c) ==
  /\ c \in workers[w].failed
  /\ rows' = IF Owned(c) THEN [rows EXCEPT ![c.loc] = Release(@)] ELSE rows
  /\ workers' = [workers EXCEPT ![w].failed = {}]
  /\ UNCHANGED <<conf, objects, docs, uploads, suspects, disposed, faults>>

\* The database refuses: an error of fail_storage_deletion is logged, one of
\* complete_storage_deletion ends the batch.  The leases run out.
FailRaises(w) ==
  /\ workers[w].failed # {} /\ Fault
  /\ workers' = [workers EXCEPT ![w].failed = {}]
  /\ UNCHANGED <<conf, objects, docs, uploads, rows, suspects, disposed>>

\* ... as does the end of the process, anywhere in the batch.
BatchEnds(w) ==
  /\ workers[w] # Idle /\ Fault
  /\ workers' = [workers EXCEPT ![w] = Idle]
  /\ UNCHANGED <<conf, objects, docs, uploads, rows, suspects, disposed>>

-----------------------------------------------------------------------------
(* Time.                                                                   *)

\* It is a fault if a batch is slower than its lease.
LeaseExpires(l) ==
  /\ rows[l].lease = "live"
  /\ IF \E w \in Workers : [loc |-> l, tok |-> rows[l].tok] \in Held(w)
     THEN Fault ELSE UNCHANGED faults
  /\ rows' = [rows EXCEPT ![l].lease = "over"]
  /\ UNCHANGED <<conf, objects, docs, uploads, workers, suspects, disposed>>

BackoffEnds(l) ==
  /\ rows[l].there /\ ~rows[l].due
  /\ rows' = [rows EXCEPT ![l].due = TRUE]
  /\ UNCHANGED <<conf, objects, docs, uploads, workers, suspects, disposed, faults>>

-----------------------------------------------------------------------------
\* Files that nobody refers to may be there from the beginning.
Init ==
  /\ conf \in Scopes
  /\ objects \in SUBSET Locations
  /\ docs = {} /\ uploads = {}
  /\ rows = [l \in Locations |-> NoRow]
  /\ workers = [w \in Workers |-> Idle]
  /\ suspects = {} /\ disposed = {}
  /\ faults = 0

WorkerStep(w) == \E c \in Claims : DeleteFile(w, c) \/ DeleteFails(w, c) \/ Complete(w, c) \/ Fail(w, c)

Next ==
  \/ \E k \in Keys : SaveUpload(k)
  \/ \E l \in Locations : \/ CommitUpload(l) \/ AbortUpload(l) \/ LoseCommit(l)
                           \/ Inspect(l) \/ EnqueueOrphan(l) \/ RetryNow(l) \/ CopyFile(l)
                           \/ LeaseExpires(l) \/ BackoffEnds(l)
  \/ \E S \in SUBSET Locations : DeleteDocuments(S) \/ (\E w \in Workers : ClaimRows(w, S))
  \/ \E s \in Scopes : Reconfigure(s)
  \/ \E w \in Workers : WorkerStep(w) \/ FailRaises(w) \/ BatchEnds(w)

Spec == Init /\ [][Next]_vars

\* Batches go on, since every call has a timeout; time passes; and the loop starts
\* batches again and again, which take every row that is due and that no other claim
\* has locked at that moment, when Batch is not less than the number of rows.
Fairness ==
  /\ \A w \in Workers : WF_vars(WorkerStep(w))
  /\ \A l \in Locations :
       /\ WF_vars(LeaseExpires(l)) /\ WF_vars(BackoffEnds(l))
       /\ SF_vars(\E w \in Workers, S \in SUBSET Locations : l \in S /\ ClaimRows(w, S))

FairSpec == Spec /\ Fairness

-----------------------------------------------------------------------------
(* Properties.                                                             *)

\* Types, and a row has a token exactly if it has an expiry: the status
\* invalid_lease of the inspection never occurs.
Row == [there : BOOLEAN, tok : Tokens \cup {NoToken}, lease : {"none", "live", "over"},
        due : BOOLEAN, tried : BOOLEAN]
BatchRecord == [left : SUBSET Claims, deleted : SUBSET Claims, failed : SUBSET Claims]
TypeOK ==
  /\ conf \in Scopes
  /\ objects \in SUBSET Locations /\ docs \in SUBSET Locations
  /\ uploads \in SUBSET Locations /\ suspects \in SUBSET Locations
  /\ disposed \in SUBSET Locations
  /\ rows \in [Locations -> Row]
  /\ \A l \in Locations : rows[l].tok = NoToken <=> rows[l].lease = "none"
  /\ workers \in [Workers -> BatchRecord]
  /\ faults \in 0 .. MaxFaults

\* A document has its file, whatever uploads failed, workers were late and roots
\* were switched; only an operator who took the file of an unfinished upload for an
\* orphan can have it deleted.
DocsKeepFiles == \A l \in docs \ disposed : l \in objects

\* A lease that is not over is ended only by the batch that holds it: neither another
\* batch nor an operator who hurries the retry takes the row away.
LeasesRespected ==
  [][\A l \in Locations : rows[l].lease = "live" /\ rows'[l].tok # rows[l].tok
       => \E w \in Workers : \E c \in Held(w) :
            /\ c = [loc |-> l, tok |-> rows[l].tok]
            /\ workers'[w] # workers[w]]_vars

\* A batch that was slower than its lease settles no row that was leased again.
LateBatchesHarmless ==
  [][\A w \in Workers : \A c \in workers[w].deleted \cup workers[w].failed :
       rows[c.loc].tok # c.tok /\ workers'[w] # workers[w] => rows' = rows]_vars

\* Files follow the contract of StorageContract: in particular a row goes only after
\* its file.
fileStatus == [l \in Locations |->
                 CASE l \in docs -> "kept"
                   [] l \notin docs /\ rows[l].there -> "owed"
                   [] l \in objects \ docs /\ ~rows[l].there -> "loose"
                   [] OTHER -> "none"]
Contract == INSTANCE StorageContract WITH file <- fileStatus
ContractSpec == Contract!Spec

\* A deletion that was accepted is carried out, unless the configuration is another
\* one by then.
DeletionsEnd == \A l \in Locations : rows[l].there ~> (~rows[l].there \/ conf # ScopeOf(l))

=============================================================================
