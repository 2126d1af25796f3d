-------------------------- MODULE StorageOutboxProofs --------------------------
(***************************************************************************)
(* The safety properties of StorageOutbox for every value of its           *)
(* constants.                                                              *)
(*                                                                         *)
(* A document keeps its file because nothing that deletes files can get    *)
(* hold of it: it has no row and no batch holds a claim on it, and the     *)
(* same goes for an upload that still waits for its commit (Protected).    *)
(* A row ends after its file because the token of a claim whose file was   *)
(* deleted is in no row of a file that came back (GoneForGood).            *)
(***************************************************************************)
EXTENDS StorageOutbox, TLAPS

\* An empty row is empty all over.
RowsClean == \A l \in Locations : ~rows[l].there => rows[l] = NoRow

Untouched == (docs \cup uploads) \ disposed
Protected == \A l \in Untouched : l \in objects /\ ~rows[l].there /\ ~Busy(l)

\* A claim that deleted its file and still owns its row.
GoneForGood ==
  \A w \in Workers : \A c \in workers[w].deleted :
    rows[c.loc].tok = c.tok => c.loc \notin objects

\* A batch settles one claim at a time.
OneAtATime ==
  \A w \in Workers : \A c, d \in workers[w].deleted \cup workers[w].failed : c = d

OInv ==
  /\ TypeOK
  /\ RowsClean
  /\ docs \cap uploads = {}
  /\ Protected
  /\ GoneForGood
  /\ OneAtATime

-----------------------------------------------------------------------------
(* Types.                                                                  *)

LEMMA RowTypes ==
  /\ NoRow \in Row /\ NewRow \in Row
  /\ NoRow.tok = NoToken /\ NoRow.lease = "none" /\ ~NoRow.there
  /\ NewRow.tok = NoToken /\ NewRow.lease = "none" /\ NewRow.there
  BY DEF NoRow, NewRow, Row

LEMMA IdleType == Idle \in BatchRecord /\ Idle.left = {} /\ Idle.deleted = {} /\ Idle.failed = {}
  BY DEF Idle, BatchRecord

LEMMA InitOInv == Init => OInv
  <1> SUFFICES ASSUME Init PROVE OInv
    OBVIOUS
  <1>1. TypeOK
    BY RowTypes, IdleType, BatchAssumption DEF Init, TypeOK
  <1>2. RowsClean /\ docs \cap uploads = {} /\ Protected
    BY DEF Init, RowsClean, Protected, Untouched
  <1>3. GoneForGood /\ OneAtATime
    BY IdleType DEF Init, GoneForGood, OneAtATime
  <1> QED
    BY <1>1, <1>2, <1>3 DEF OInv

\* What a row may become, one field at a time.
LEMMA RowUpdate ==
  ASSUME NEW r \in Row, NEW t \in Tokens \cup {NoToken}, NEW e \in {"none", "live", "over"},
         NEW d \in BOOLEAN, NEW a \in BOOLEAN
  PROVE  /\ [r EXCEPT !.lease = e] \in Row
         /\ [r EXCEPT !.due = d] \in Row
         /\ [r EXCEPT !.due = d, !.tok = t, !.lease = e] \in Row
         /\ [r EXCEPT !.tok = t, !.lease = e, !.tried = a] \in Row
         /\ [r EXCEPT !.tok = t, !.lease = e, !.due = d] \in Row
  BY DEF Row

LEMMA BatchUpdate ==
  ASSUME NEW b \in BatchRecord, NEW S \in SUBSET Claims, NEW T \in SUBSET Claims
  PROVE  /\ [b EXCEPT !.left = S] \in BatchRecord
         /\ [b EXCEPT !.left = S, !.deleted = T] \in BatchRecord
         /\ [b EXCEPT !.left = S, !.failed = T] \in BatchRecord
         /\ [b EXCEPT !.deleted = T] \in BatchRecord
         /\ [b EXCEPT !.failed = T] \in BatchRecord
  BY DEF BatchRecord

LEMMA FaultType ==
  ASSUME faults \in 0 .. MaxFaults, Fault
  PROVE  faults' \in 0 .. MaxFaults
  BY BatchAssumption DEF Fault

LEMMA EnqueuedType ==
  ASSUME TypeOK, NEW S \in SUBSET Locations
  PROVE  /\ Enqueued(S) \in [Locations -> Row]
         /\ \A l \in Locations : Enqueued(S)[l].tok = NoToken <=> Enqueued(S)[l].lease = "none"
  BY RowTypes DEF Enqueued, TypeOK

\* TypeOK is kept: one step per action.
LEMMA NextType == TypeOK /\ [Next]_vars => TypeOK'
  <1> SUFFICES ASSUME TypeOK, [Next]_vars PROVE TypeOK'
    OBVIOUS
  <1> USE DEF TypeOK
  <1>1. ASSUME NEW k \in Keys, SaveUpload(k) PROVE TypeOK'
    BY <1>1 DEF SaveUpload, Locations
  <1>2. ASSUME NEW l \in Locations, CommitUpload(l) PROVE TypeOK'
    BY <1>2 DEF CommitUpload
  <1>3. ASSUME NEW l \in Locations, AbortUpload(l) PROVE TypeOK'
    BY <1>3 DEF AbortUpload
  <1>4. ASSUME NEW l \in Locations, LoseCommit(l) PROVE TypeOK'
    BY <1>4 DEF LoseCommit
  <1>5. ASSUME NEW l \in Locations, Inspect(l) PROVE TypeOK'
    BY <1>5 DEF Inspect
  <1>6. ASSUME NEW l \in Locations, EnqueueOrphan(l) PROVE TypeOK'
    BY <1>6, EnqueuedType DEF EnqueueOrphan
  <1>7. ASSUME NEW l \in Locations, RetryNow(l) PROVE TypeOK'
    <2>1. rows' \in [Locations -> Row]
      BY <1>7, RowUpdate DEF RetryNow
    <2>2. \A m \in Locations : rows'[m].tok = NoToken <=> rows'[m].lease = "none"
      BY <1>7 DEF RetryNow, Row
    <2> QED
      BY <1>7, <2>1, <2>2 DEF RetryNow
  <1>8. ASSUME NEW l \in Locations, CopyFile(l) PROVE TypeOK'
    BY <1>8 DEF CopyFile
  <1>9. ASSUME NEW l \in Locations, LeaseExpires(l) PROVE TypeOK'
    <2>1. rows' \in [Locations -> Row]
      BY <1>9, RowUpdate DEF LeaseExpires
    <2>2. \A m \in Locations : rows'[m].tok = NoToken <=> rows'[m].lease = "none"
      BY <1>9 DEF LeaseExpires, Row
    <2>3. faults' \in 0 .. MaxFaults
      BY <1>9, FaultType DEF LeaseExpires
    <2> QED
      BY <1>9, <2>1, <2>2, <2>3 DEF LeaseExpires
  <1>10. ASSUME NEW l \in Locations, BackoffEnds(l) PROVE TypeOK'
    <2>1. rows' \in [Locations -> Row]
      BY <1>10, RowUpdate DEF BackoffEnds
    <2>2. \A m \in Locations : rows'[m].tok = NoToken <=> rows'[m].lease = "none"
      BY <1>10 DEF BackoffEnds, Row
    <2> QED
      BY <1>10, <2>1, <2>2 DEF BackoffEnds
  <1>11. ASSUME NEW S \in SUBSET Locations, DeleteDocuments(S) PROVE TypeOK'
    BY <1>11, EnqueuedType DEF DeleteDocuments
  <1>12. ASSUME NEW S \in SUBSET Locations, NEW w \in Workers, ClaimRows(w, S) PROVE TypeOK'
    <2>1. PICK token \in [S -> FreshTokens] :
            /\ rows' = [l \in Locations |->
                 IF l \in S
                 THEN [rows[l] EXCEPT !.tok = token[l], !.lease = "live", !.tried = TRUE]
                 ELSE rows[l]]
            /\ workers' = [workers EXCEPT ![w].left = {[loc |-> l, tok |-> token[l]] : l \in S}]
            /\ UNCHANGED <<conf, objects, docs, uploads, suspects, disposed, faults>>
      BY <1>12 DEF ClaimRows, Lease
    <2>2. \A l \in S : token[l] \in Tokens /\ token[l] # NoToken
      BY <2>1, TokenAssumption DEF FreshTokens
    <2>3. rows' \in [Locations -> Row]
      BY <2>1, <2>2, RowUpdate
    <2>4. \A m \in Locations : rows'[m].tok = NoToken <=> rows'[m].lease = "none"
      BY <2>1, <2>2 DEF Row
    <2>5. {[loc |-> l, tok |-> token[l]] : l \in S} \in SUBSET Claims
      BY <2>2 DEF Claims
    <2>6. workers' \in [Workers -> BatchRecord]
      BY <2>1, <2>5, BatchUpdate
    <2> QED
      BY <2>1, <2>3, <2>4, <2>6
  <1>13. ASSUME NEW s \in Scopes, Reconfigure(s) PROVE TypeOK'
    BY <1>13, IdleType, FaultType DEF Reconfigure
  <1>14. ASSUME NEW w \in Workers, NEW c \in Claims, DeleteFile(w, c) PROVE TypeOK'
    <2>1. workers' \in [Workers -> BatchRecord]
      <3>1. workers[w].left \ {c} \in SUBSET Claims /\ {c} \in SUBSET Claims
        BY DEF BatchRecord
      <3> QED
        BY <1>14, <3>1, BatchUpdate DEF DeleteFile
    <2> QED
      BY <1>14, <2>1 DEF DeleteFile
  <1>15. ASSUME NEW w \in Workers, NEW c \in Claims, DeleteFails(w, c) PROVE TypeOK'
    <2>1. workers' \in [Workers -> BatchRecord]
      <3>1. workers[w].left \ {c} \in SUBSET Claims /\ {c} \in SUBSET Claims
        BY DEF BatchRecord
      <3> QED
        BY <1>15, <3>1, BatchUpdate DEF DeleteFails
    <2> QED
      BY <1>15, <2>1, FaultType DEF DeleteFails
  <1>16. ASSUME NEW w \in Workers, NEW c \in Claims, Complete(w, c) PROVE TypeOK'
    <2>1. workers' \in [Workers -> BatchRecord]
      BY <1>16, BatchUpdate DEF Complete
    <2>2. rows' \in [Locations -> Row]
      BY <1>16, RowTypes DEF Complete
    <2>3. \A m \in Locations : rows'[m].tok = NoToken <=> rows'[m].lease = "none"
      BY <1>16, RowTypes DEF Complete
    <2> QED
      BY <1>16, <2>1, <2>2, <2>3 DEF Complete
  <1>17. ASSUME NEW w \in Workers, NEW c \in Claims, Fail(w, c) PROVE TypeOK'
    <2>1. workers' \in [Workers -> BatchRecord]
      BY <1>17, BatchUpdate DEF Fail
    <2>2. rows' \in [Locations -> Row]
      BY <1>17, RowUpdate DEF Fail, Release
    <2>3. \A m \in Locations : rows'[m].tok = NoToken <=> rows'[m].lease = "none"
      BY <1>17 DEF Fail, Release, Row
    <2> QED
      BY <1>17, <2>1, <2>2, <2>3 DEF Fail
  <1>18. ASSUME NEW w \in Workers, FailRaises(w) PROVE TypeOK'
    <2>1. workers' \in [Workers -> BatchRecord]
      BY <1>18, BatchUpdate DEF FailRaises
    <2> QED
      BY <1>18, <2>1, FaultType DEF FailRaises
  <1>19. ASSUME NEW w \in Workers, BatchEnds(w) PROVE TypeOK'
    BY <1>19, IdleType, FaultType DEF BatchEnds
  <1>20. CASE UNCHANGED vars
    BY <1>20 DEF vars
  <1> QED
    BY <1>1, <1>2, <1>3, <1>4, <1>5, <1>6, <1>7, <1>8, <1>9, <1>10, <1>11, <1>12, <1>13, <1>14,
       <1>15, <1>16, <1>17, <1>18, <1>19, <1>20 DEF Next, WorkerStep

-----------------------------------------------------------------------------
(* What one step can do to rows, claims and files.                         *)

\* Only a row that is there gets a claim.
NewClaims == \A l \in Locations : Busy(l)' => Busy(l) \/ rows[l].there
\* A row has the token it had, none, or one that no batch knows.
NewTokens == \A l \in Locations : rows'[l].tok \in {rows[l].tok, NoToken} \cup FreshTokens
NewDeleted == \A w \in Workers : \A c \in workers'[w].deleted :
                c \in workers[w].deleted \/ c.loc \notin objects'
NewObjects == \A l \in objects' \ objects : ~Busy(l) \/ ~rows[l].there
NewRows == \A l \in Locations : rows'[l].there => rows[l].there \/ l \notin Untouched'
NewUntouched == \A l \in Untouched' \ Untouched : l \in objects' /\ ~rows[l].there /\ ~Busy(l)
LostObjects == \A l \in objects \ objects' : l \notin Untouched' \/ Busy(l)

StepFacts == /\ NewClaims /\ NewTokens /\ NewDeleted /\ NewObjects
             /\ NewRows /\ NewUntouched /\ LostObjects
             /\ RowsClean' /\ docs' \cap uploads' = {} /\ OneAtATime'

LEMMA SameWorkers ==
  ASSUME UNCHANGED workers
  PROVE  /\ \A l : Busy(l)' <=> Busy(l)
         /\ NewDeleted /\ NewClaims
         /\ OneAtATime => OneAtATime'
  BY DEF Busy, Held, NewDeleted, NewClaims, OneAtATime

LEMMA SameRows ==
  ASSUME UNCHANGED rows
  PROVE  NewTokens /\ NewRows /\ (RowsClean => RowsClean')
  BY DEF NewTokens, NewRows, RowsClean

LEMMA SameFiles ==
  ASSUME UNCHANGED objects
  PROVE  NewObjects /\ LostObjects
  BY DEF NewObjects, LostObjects

LEMMA SameReferences ==
  ASSUME UNCHANGED <<docs, uploads, disposed>>
  PROVE  Untouched' = Untouched /\ NewUntouched
  BY DEF NewUntouched, Untouched

\* New rows of Enqueued: only the empty ones change, and they get no token.
LEMMA EnqueuedRows ==
  ASSUME TypeOK, RowsClean, NEW S \in SUBSET Locations, rows' = Enqueued(S)
  PROVE  /\ NewTokens /\ RowsClean'
         /\ \A l \in Locations : rows'[l].there <=> rows[l].there \/ l \in S
         /\ \A l \in Locations : rows[l].there => rows'[l] = rows[l]
         /\ \A l \in Locations : rows'[l].tok = rows[l].tok
  <1>1. \A l \in Locations : rows'[l] = IF l \in S /\ ~rows[l].there THEN NewRow ELSE rows[l]
    BY DEF Enqueued
  <1>2. \A l \in Locations : rows'[l].tok = rows[l].tok
    BY <1>1, RowTypes DEF RowsClean
  <1>3. RowsClean'
    BY <1>1, RowTypes DEF RowsClean
  <1> QED
    BY <1>1, <1>2, <1>3, RowTypes DEF NewTokens

\* Rows that stay where they are.
Staying ==
  \A m \in Locations :
    /\ rows'[m].there <=> rows[m].there
    /\ rows'[m].tok \in {rows[m].tok, NoToken} \cup FreshTokens
    /\ ~rows[m].there => rows'[m] = rows[m]

LEMMA StayingRows ==
  ASSUME RowsClean, Staying
  PROVE  NewTokens /\ NewRows /\ RowsClean'
  <1>1. NewTokens
    BY DEF NewTokens, Staying
  <1>2. NewRows
    BY DEF NewRows, Staying
  <1>3. RowsClean'
    BY DEF RowsClean, Staying
  <1> QED
    BY <1>1, <1>2, <1>3

\* A step of a batch that settles a claim or loses it.
LEMMA ShrinkingBatch ==
  ASSUME NEW w \in Workers, NEW b, workers' = [workers EXCEPT ![w] = b], TypeOK, OneAtATime,
         b.left \subseteq workers[w].left, b.deleted \subseteq workers[w].deleted,
         b.failed \subseteq workers[w].failed
  PROVE  NewClaims /\ NewDeleted /\ OneAtATime'
  <1>1. \A v \in Workers : /\ workers'[v].left \subseteq workers[v].left
                            /\ workers'[v].deleted \subseteq workers[v].deleted
                            /\ workers'[v].failed \subseteq workers[v].failed
    BY DEF TypeOK
  <1> QED
    BY <1>1 DEF NewClaims, NewDeleted, OneAtATime, Busy, Held

\* ... and one that takes up the next claim.
LEMMA NextClaim ==
  ASSUME NEW w \in Workers, NEW c, Upcoming(w, c), TypeOK, OneAtATime,
         NEW D \in SUBSET {c}, NEW F \in SUBSET {c},
         workers' = [workers EXCEPT ![w] =
           [left |-> workers[w].left \ {c}, deleted |-> D, failed |-> F]]
  PROVE  NewClaims /\ OneAtATime' /\ Busy(c.loc)
         /\ \A v \in Workers : \A d \in workers'[v].deleted : d \in workers[v].deleted \/ d = c
  <1>1. \A v \in Workers : v # w => workers'[v] = workers[v]
    BY DEF TypeOK
  <1>2. /\ workers'[w].left = workers[w].left \ {c}
        /\ workers'[w].deleted = D /\ workers'[w].failed = F
    BY DEF TypeOK
  <1>3. c \in Held(w)
    BY DEF Upcoming, Held
  <1>4. \A v \in Workers : Held(v)' \subseteq Held(v)
    BY <1>1, <1>2, <1>3 DEF Held
  <1>5. NewClaims
    BY <1>4 DEF NewClaims, Busy
  <1>6. OneAtATime'
    BY <1>1, <1>2 DEF OneAtATime
  <1> QED
    BY <1>1, <1>2, <1>3, <1>5, <1>6 DEF Busy

\* Claims are locations of the current configuration, or not.
LEMMA Here ==
  ASSUME NEW c \in Claims
  PROVE  ScopeOf(c.loc) = conf => <<conf, KeyOf(c.loc)>> = c.loc
  BY DEF Claims, Locations, ScopeOf, KeyOf

LEMMA Settled ==
  ASSUME TypeOK, RowsClean, NEW c \in Claims, Owned(c)
  PROVE  rows[c.loc].there
  BY RowTypes, TokenAssumption DEF TypeOK, RowsClean, Claims, Owned

LEMMA NextFacts == OInv /\ [Next]_vars => StepFacts
  <1> SUFFICES ASSUME OInv, [Next]_vars PROVE StepFacts
    OBVIOUS
  <1> USE DEF OInv
  <1>1. ASSUME NEW k \in Keys, SaveUpload(k) PROVE StepFacts
    <2>1. <<conf, k>> \in Locations /\ KeyOf(<<conf, k>>) = k
      BY DEF TypeOK, Locations, KeyOf
    <2> DEFINE l == <<conf, k>>
    <2>2. l \notin objects \cup docs /\ ~rows[l].there /\ ~Busy(l)
      BY <1>1, <2>1 DEF SaveUpload, FreshKey
    <2>3. /\ objects' = objects \cup {l} /\ uploads' = uploads \cup {l} /\ docs' = docs
          /\ disposed' = disposed \ {l} /\ UNCHANGED <<rows, workers>>
      BY <1>1 DEF SaveUpload
    <2> HIDE DEF l
    <2>4. NewObjects /\ LostObjects /\ NewUntouched
      BY <2>2, <2>3 DEF NewObjects, LostObjects, NewUntouched, Untouched
    <2> QED
      BY <2>2, <2>3, <2>4, SameWorkers, SameRows DEF StepFacts
  <1>2. ASSUME NEW l \in Locations, CommitUpload(l) PROVE StepFacts
    <2>1. NewUntouched /\ docs' \cap uploads' = {}
      BY <1>2 DEF CommitUpload, NewUntouched, Untouched
    <2> QED
      BY <1>2, <2>1, SameWorkers, SameRows, SameFiles DEF CommitUpload, StepFacts
  <1>3. ASSUME NEW l \in Locations, AbortUpload(l) PROVE StepFacts
    <2>1. NewUntouched /\ NewObjects /\ LostObjects /\ docs' \cap uploads' = {}
      BY <1>3 DEF AbortUpload, NewUntouched, NewObjects, LostObjects, Untouched
    <2> QED
      BY <1>3, <2>1, SameWorkers, SameRows DEF AbortUpload, StepFacts
  <1>4. ASSUME NEW l \in Locations, LoseCommit(l) PROVE StepFacts
    <2>1. NewUntouched /\ docs' \cap uploads' = {}
      BY <1>4 DEF LoseCommit, NewUntouched, Untouched
    <2> QED
      BY <1>4, <2>1, SameWorkers, SameRows, SameFiles DEF LoseCommit, StepFacts
  <1>5. ASSUME NEW l \in Locations, Inspect(l) PROVE StepFacts
    BY <1>5, SameWorkers, SameRows, SameFiles, SameReferences DEF Inspect, StepFacts
  <1>6. ASSUME NEW l \in Locations, EnqueueOrphan(l) PROVE StepFacts
    <2>1. rows' = Enqueued({l}) /\ disposed' = disposed \cup {l}
          /\ UNCHANGED <<objects, docs, uploads, workers>>
      BY <1>6 DEF EnqueueOrphan
    <2>2. NewUntouched /\ l \notin Untouched'
      BY <2>1 DEF NewUntouched, Untouched
    <2>3. {l} \in SUBSET Locations
      OBVIOUS
    <2>4. NewTokens /\ RowsClean'
          /\ \A m \in Locations : rows'[m].there <=> rows[m].there \/ m \in {l}
      BY <2>1, <2>3, EnqueuedRows
    <2>5. NewRows
      BY <2>2, <2>4 DEF NewRows
    <2> QED
      BY <2>1, <2>2, <2>4, <2>5, SameWorkers, SameFiles DEF StepFacts
  <1>7. ASSUME NEW l \in Locations, RetryNow(l) PROVE StepFacts
    <2>1. /\ rows[l].there
          /\ rows' = [rows EXCEPT ![l].due = TRUE, ![l].tok = NoToken, ![l].lease = "none"]
      BY <1>7 DEF RetryNow
    <2>2. Staying
      BY <2>1 DEF TypeOK, Row, Staying
    <2>3. NewTokens /\ NewRows /\ RowsClean'
      BY <2>2, StayingRows
    <2> QED
      BY <1>7, <2>3, SameWorkers, SameFiles, SameReferences DEF RetryNow, StepFacts
  <1>8. ASSUME NEW l \in Locations, CopyFile(l) PROVE StepFacts
    <2>1. NewObjects /\ LostObjects
      BY <1>8 DEF CopyFile, NewObjects, LostObjects
    <2> QED
      BY <1>8, <2>1, SameWorkers, SameRows, SameReferences DEF CopyFile, StepFacts
  <1>9. ASSUME NEW l \in Locations, LeaseExpires(l) PROVE StepFacts
    <2>1. rows[l].lease = "live" /\ rows' = [rows EXCEPT ![l].lease = "over"]
      BY <1>9 DEF LeaseExpires
    <2>2. rows[l].there
      BY <2>1, RowTypes DEF RowsClean
    <2>3. Staying
      BY <2>1, <2>2 DEF TypeOK, Row, Staying
    <2>4. NewTokens /\ NewRows /\ RowsClean'
      BY <2>3, StayingRows
    <2> QED
      BY <1>9, <2>4, SameWorkers, SameFiles, SameReferences DEF LeaseExpires, StepFacts
  <1>10. ASSUME NEW l \in Locations, BackoffEnds(l) PROVE StepFacts
    <2>1. rows[l].there /\ rows' = [rows EXCEPT ![l].due = TRUE]
      BY <1>10 DEF BackoffEnds
    <2>2. Staying
      BY <2>1 DEF TypeOK, Row, Staying
    <2>3. NewTokens /\ NewRows /\ RowsClean'
      BY <2>2, StayingRows
    <2> QED
      BY <1>10, <2>3, SameWorkers, SameFiles, SameReferences DEF BackoffEnds, StepFacts
  <1>11. ASSUME NEW S \in SUBSET Locations, DeleteDocuments(S) PROVE StepFacts
    <2>1. rows' = Enqueued(S) /\ S \subseteq docs /\ docs' = docs \ S
          /\ UNCHANGED <<objects, uploads, workers, disposed>>
      BY <1>11 DEF DeleteDocuments
    <2>2. NewUntouched /\ S \cap Untouched' = {} /\ docs' \cap uploads' = {}
      BY <2>1 DEF NewUntouched, Untouched
    <2>3. NewTokens /\ RowsClean' /\ NewRows
      BY <2>1, <2>2, EnqueuedRows DEF NewRows
    <2> QED
      BY <2>1, <2>2, <2>3, SameWorkers, SameFiles DEF StepFacts
  <1>12. ASSUME NEW S \in SUBSET Locations, NEW w \in Workers, ClaimRows(w, S) PROVE StepFacts
    <2>1. PICK token \in [S -> FreshTokens] :
            /\ rows' = [l \in Locations |->
                 IF l \in S
                 THEN [rows[l] EXCEPT !.tok = token[l], !.lease = "live", !.tried = TRUE]
                 ELSE rows[l]]
            /\ workers' = [workers EXCEPT ![w].left = {[loc |-> l, tok |-> token[l]] : l \in S}]
            /\ UNCHANGED <<conf, objects, docs, uploads, suspects, disposed, faults>>
      BY <1>12 DEF ClaimRows, Lease
    <2>2. workers[w] = Idle /\ \A l \in S : rows[l].there
      BY <1>12 DEF ClaimRows, Eligible
    <2>3. Staying
      <3> SUFFICES ASSUME NEW m \in Locations
                   PROVE  /\ rows'[m].there <=> rows[m].there
                          /\ rows'[m].tok \in {rows[m].tok, NoToken} \cup FreshTokens
                          /\ ~rows[m].there => rows'[m] = rows[m]
        BY DEF Staying
      <3>1. CASE m \notin S
        BY <2>1, <3>1
      <3>2. CASE m \in S
        <4>1. rows'[m] = [rows[m] EXCEPT !.tok = token[m], !.lease = "live", !.tried = TRUE]
          BY <2>1, <3>2
        <4>2. rows'[m].tok = token[m] /\ (rows'[m].there <=> rows[m].there)
          BY <4>1 DEF TypeOK, Row
        <4>3. token[m] \in FreshTokens
          BY <2>1, <3>2
        <4> QED
          BY <2>2, <3>2, <4>2, <4>3
      <3> QED
        BY <3>1, <3>2
    <2>4. NewTokens /\ NewRows /\ RowsClean'
      BY <2>3, StayingRows
    <2>5. \A v \in Workers : v # w => workers'[v] = workers[v]
      BY <2>1 DEF TypeOK
    <2>6. /\ workers'[w].left = {[loc |-> l, tok |-> token[l]] : l \in S}
          /\ workers'[w].deleted = {} /\ workers'[w].failed = {}
      BY <2>1, <2>2, IdleType DEF TypeOK, BatchRecord
    <2>7. \A c \in Held(w)' : c.loc \in S
      BY <2>6 DEF Held
    <2>8. NewClaims
      BY <2>2, <2>5, <2>7 DEF NewClaims, Busy, Held
    <2>9. NewDeleted /\ OneAtATime'
      BY <2>5, <2>6 DEF NewDeleted, OneAtATime
    <2> QED
      BY <2>1, <2>4, <2>8, <2>9, SameFiles, SameReferences DEF StepFacts
  <1>13. ASSUME NEW s \in Scopes, Reconfigure(s) PROVE StepFacts
    <2>1. \A w \in Workers : workers'[w] = Idle
      BY <1>13 DEF Reconfigure
    <2>2. NewClaims /\ NewDeleted /\ OneAtATime'
      BY <2>1, IdleType DEF NewClaims, NewDeleted, OneAtATime, Busy, Held
    <2>3. NewUntouched /\ docs' \cap uploads' = {}
      BY <1>13 DEF Reconfigure, NewUntouched, Untouched
    <2> QED
      BY <1>13, <2>2, <2>3, SameRows, SameFiles DEF Reconfigure, StepFacts
  <1>14. ASSUME NEW w \in Workers, NEW c \in Claims, DeleteFile(w, c) PROVE StepFacts
    <2>1. objects' = objects \ {c.loc}
      BY <1>14, Here DEF DeleteFile
    <2>2. workers' = [workers EXCEPT ![w] =
            [left |-> workers[w].left \ {c}, deleted |-> {c}, failed |-> {}]]
      <3>1. workers[w] = [left |-> workers[w].left, deleted |-> {}, failed |-> {}]
        BY <1>14 DEF DeleteFile, Upcoming, TypeOK, BatchRecord
      <3>2. workers' = [workers EXCEPT ![w].left = @ \ {c}, ![w].deleted = {c}]
        BY <1>14 DEF DeleteFile
      <3> QED
        BY <3>1, <3>2 DEF TypeOK
    <2>3. Upcoming(w, c) /\ UNCHANGED <<docs, uploads, rows, disposed>>
      BY <1>14 DEF DeleteFile
    <2>4. NewClaims /\ OneAtATime' /\ Busy(c.loc)
          /\ \A v \in Workers : \A d \in workers'[v].deleted : d \in workers[v].deleted \/ d = c
      BY <2>2, <2>3, NextClaim
    <2>5. NewObjects /\ LostObjects /\ NewDeleted
      BY <2>1, <2>4 DEF NewObjects, LostObjects, NewDeleted
    <2> QED
      BY <2>3, <2>4, <2>5, SameRows, SameReferences DEF StepFacts
  <1>15. ASSUME NEW w \in Workers, NEW c \in Claims, DeleteFails(w, c) PROVE StepFacts
    <2>1. objects' \in {objects, objects \ {c.loc}}
      BY <1>15 DEF DeleteFails
    <2>2. workers' = [workers EXCEPT ![w] =
            [left |-> workers[w].left \ {c}, deleted |-> {}, failed |-> {c}]]
      <3>1. workers[w] = [left |-> workers[w].left, deleted |-> {}, failed |-> {}]
        BY <1>15 DEF DeleteFails, Upcoming, TypeOK, BatchRecord
      <3>2. workers' = [workers EXCEPT ![w].left = @ \ {c}, ![w].failed = {c}]
        BY <1>15 DEF DeleteFails
      <3> QED
        BY <3>1, <3>2, SMTT(20) DEF TypeOK
    <2>3. Upcoming(w, c) /\ UNCHANGED <<docs, uploads, rows, disposed>>
      BY <1>15 DEF DeleteFails
    <2>4. NewClaims /\ OneAtATime' /\ Busy(c.loc)
      BY <2>2, <2>3, NextClaim
    <2>5. NewDeleted
      BY <2>2 DEF NewDeleted, TypeOK
    <2>6. NewObjects /\ LostObjects
      BY <2>1, <2>4 DEF NewObjects, LostObjects
    <2> QED
      BY <2>3, <2>4, <2>5, <2>6, SameRows, SameReferences DEF StepFacts
  <1>16. ASSUME NEW w \in Workers, NEW c \in Claims, Complete(w, c) PROVE StepFacts
    <2>1. workers' = [workers EXCEPT ![w] = [workers[w] EXCEPT !.deleted = {}]]
      BY <1>16 DEF Complete, TypeOK, BatchRecord
    <2>2. NewClaims /\ NewDeleted /\ OneAtATime'
      BY <2>1, ShrinkingBatch DEF TypeOK, BatchRecord
    <2>3. \A m \in Locations : rows'[m] = rows[m] \/ rows'[m] = NoRow
      BY <1>16 DEF Complete, TypeOK
    <2>4. NewTokens /\ NewRows /\ RowsClean'
      BY <2>3, RowTypes DEF NewTokens, NewRows, RowsClean
    <2> QED
      BY <1>16, <2>2, <2>4, SameFiles, SameReferences DEF Complete, StepFacts
  <1>17. ASSUME NEW w \in Workers, NEW c \in Claims, Fail(w, c) PROVE StepFacts
    <2>1. workers' = [workers EXCEPT ![w] = [workers[w] EXCEPT !.failed = {}]]
      BY <1>17 DEF Fail, TypeOK, BatchRecord
    <2>2. NewClaims /\ NewDeleted /\ OneAtATime'
      BY <2>1, ShrinkingBatch DEF TypeOK, BatchRecord
    <2>3. Staying
      BY <1>17, Settled DEF Fail, Release, TypeOK, Row, Staying
    <2>4. NewTokens /\ NewRows /\ RowsClean'
      BY <2>3, StayingRows
    <2> QED
      BY <1>17, <2>2, <2>4, SameFiles, SameReferences DEF Fail, StepFacts
  <1>18. ASSUME NEW w \in Workers, FailRaises(w) PROVE StepFacts
    <2>1. workers' = [workers EXCEPT ![w] = [workers[w] EXCEPT !.failed = {}]]
      BY <1>18 DEF FailRaises, TypeOK, BatchRecord
    <2>2. NewClaims /\ NewDeleted /\ OneAtATime'
      BY <2>1, ShrinkingBatch DEF TypeOK, BatchRecord
    <2> QED
      BY <1>18, <2>2, SameRows, SameFiles, SameReferences DEF FailRaises, StepFacts
  <1>19. ASSUME NEW w \in Workers, BatchEnds(w) PROVE StepFacts
    <2>1. workers' = [workers EXCEPT ![w] = Idle]
      BY <1>19 DEF BatchEnds
    <2>2. NewClaims /\ NewDeleted /\ OneAtATime'
      BY <2>1, ShrinkingBatch, IdleType
    <2> QED
      BY <1>19, <2>2, SameRows, SameFiles, SameReferences DEF BatchEnds, StepFacts
  <1>20. CASE UNCHANGED vars
    BY <1>20, SameWorkers, SameRows, SameFiles, SameReferences DEF vars, StepFacts
  <1> QED
    BY <1>1, <1>2, <1>3, <1>4, <1>5, <1>6, <1>7, <1>8, <1>9, <1>10, <1>11, <1>12, <1>13, <1>14,
       <1>15, <1>16, <1>17, <1>18, <1>19, <1>20 DEF Next, WorkerStep


-----------------------------------------------------------------------------
(* The invariant.                                                          *)

LEMMA NextOInv == OInv /\ [Next]_vars => OInv'
  <1> SUFFICES ASSUME OInv, [Next]_vars PROVE OInv'
    OBVIOUS
  <1>1. TypeOK'
    BY NextType DEF OInv
  <1>2. StepFacts
    BY NextFacts
  <1>3. Protected'
    <2> SUFFICES ASSUME NEW l \in Untouched'
                 PROVE  l \in objects' /\ ~rows'[l].there /\ ~Busy(l)'
      BY DEF Protected
    <2>1. l \in Locations
      BY <1>1 DEF TypeOK, Untouched
    <2>2. ~rows[l].there /\ ~Busy(l) /\ l \in objects \cup objects'
      BY <1>2 DEF StepFacts, NewUntouched, OInv, Protected
    <2>3. l \in objects'
      BY <1>2, <2>2 DEF StepFacts, LostObjects
    <2> QED
      BY <1>2, <2>1, <2>2, <2>3 DEF StepFacts, NewRows, NewClaims
  <1>4. GoneForGood'
    <2> SUFFICES ASSUME NEW w \in Workers, NEW c \in workers'[w].deleted,
                        rows'[c.loc].tok = c.tok, c.loc \in objects'
                 PROVE  FALSE
      BY DEF GoneForGood
    <2>1. c \in workers[w].deleted
      BY <1>2 DEF StepFacts, NewDeleted
    <2>2. c \in Held(w) /\ c.loc \in Locations /\ c.tok \in Tokens /\ c.tok # NoToken
      BY <2>1, TokenAssumption DEF Held, OInv, TypeOK, BatchRecord, Claims
    <2>3. c.tok \notin FreshTokens /\ Busy(c.loc)
      BY <2>2 DEF FreshTokens, Busy
    <2>4. rows[c.loc].tok = c.tok
      BY <1>2, <2>2, <2>3 DEF StepFacts, NewTokens
    <2>5. c.loc \notin objects
      BY <2>1, <2>4 DEF OInv, GoneForGood
    <2>6. ~rows[c.loc].there
      BY <1>2, <2>3, <2>5 DEF StepFacts, NewObjects
    <2> QED
      BY <2>2, <2>4, <2>6, RowTypes DEF OInv, RowsClean
  <1> QED
    BY <1>1, <1>2, <1>3, <1>4 DEF OInv, StepFacts

\* OInv is an invariant of the specification.
THEOREM OutboxInvariant == Spec => []OInv
  BY InitOInv, NextOInv, PTL DEF Spec

\* Types, and a row of storage_deletions has a lease token exactly if it has an expiry.
THEOREM OutboxTypeOK == Spec => []TypeOK
  <1>1. OInv => TypeOK
    BY DEF OInv
  <1> QED
    BY <1>1, OutboxInvariant, PTL

\* Every document has its file, unless an operator disposed of the unfinished upload:
\* failed uploads, late batches and changes of the storage root take none away.
THEOREM DocumentsKeepTheirFiles == Spec => []DocsKeepFiles
  <1>1. OInv => DocsKeepFiles
    BY DEF OInv, Protected, Untouched, DocsKeepFiles
  <1> QED
    BY <1>1, OutboxInvariant, PTL

-----------------------------------------------------------------------------
(* What a step may not do.                                                 *)

\* A step that changes the token of a row settles it, leases it anew or hurries it.
LEMMA NextRespectsLeases ==
  ASSUME OInv, [Next]_vars, NEW l \in Locations,
         rows[l].lease = "live", rows'[l].tok # rows[l].tok
  PROVE  \E w \in Workers : \E c \in Held(w) :
           c = [loc |-> l, tok |-> rows[l].tok] /\ workers'[w] # workers[w]
  <1> USE DEF OInv
  <1>1. rows' # rows /\ rows[l].there
    BY RowTypes DEF RowsClean
  <1>2. ASSUME NEW S \in SUBSET Locations, rows' = Enqueued(S) PROVE FALSE
    BY <1>2, EnqueuedRows
  <1>3. ASSUME NEW m \in Locations, EnqueueOrphan(m) PROVE FALSE
    <2>1. rows' = Enqueued({m}) /\ {m} \in SUBSET Locations
      BY <1>3 DEF EnqueueOrphan
    <2> QED
      BY <1>2, <2>1
  <1>4. ASSUME NEW S \in SUBSET Locations, DeleteDocuments(S) PROVE FALSE
    BY <1>2, <1>4 DEF DeleteDocuments
  <1>5. ASSUME NEW m \in Locations, RetryNow(m) PROVE FALSE
    <2>1. m # l
      BY <1>5 DEF RetryNow
    <2>2. rows'[l] = rows[l]
      BY <1>5, <2>1 DEF RetryNow, TypeOK
    <2> QED
      BY <2>2
  <1>6. ASSUME NEW m \in Locations, LeaseExpires(m) \/ BackoffEnds(m) PROVE FALSE
    BY <1>6 DEF LeaseExpires, BackoffEnds, TypeOK, Row
  <1>7. ASSUME NEW S \in SUBSET Locations, NEW w \in Workers, ClaimRows(w, S) PROVE FALSE
    <2>1. l \notin S
      BY <1>7 DEF ClaimRows, Eligible
    <2>2. rows'[l] = rows[l]
      BY <1>7, <2>1 DEF ClaimRows, Lease
    <2> QED
      BY <2>2
  <1>8. ASSUME NEW w \in Workers, NEW c \in Claims, Complete(w, c) \/ Fail(w, c)
        PROVE  /\ c \in Held(w) /\ workers'[w] # workers[w]
               /\ c = [loc |-> l, tok |-> rows[l].tok]
    <2>1. c \in workers[w].deleted \/ c \in workers[w].failed
      BY <1>8 DEF Complete, Fail
    <2>2. c \in Held(w)
      BY <2>1 DEF Held
    <2>3. workers'[w] # workers[w]
      BY <1>8 DEF Complete, Fail, TypeOK, BatchRecord
    <2>4. Owned(c) /\ c.loc = l
      BY <1>1, <1>8 DEF Complete, Fail, TypeOK
    <2> QED
      BY <2>2, <2>3, <2>4 DEF Owned, Claims
  <1>9. ASSUME NEW w \in Workers, NEW c \in Claims, DeleteFile(w, c) \/ DeleteFails(w, c)
        PROVE  FALSE
    BY <1>1, <1>9 DEF DeleteFile, DeleteFails
  <1>10. ASSUME NEW w \in Workers, FailRaises(w) \/ BatchEnds(w) PROVE FALSE
    BY <1>1, <1>10 DEF FailRaises, BatchEnds
  <1>11. ASSUME NEW k \in Keys, SaveUpload(k) PROVE FALSE
    BY <1>1, <1>11 DEF SaveUpload
  <1>12. ASSUME NEW m \in Locations,
                CommitUpload(m) \/ AbortUpload(m) \/ LoseCommit(m) \/ Inspect(m) \/ CopyFile(m)
         PROVE  FALSE
    BY <1>1, <1>12 DEF CommitUpload, AbortUpload, LoseCommit, Inspect, CopyFile
  <1>13. ASSUME NEW s \in Scopes, Reconfigure(s) PROVE FALSE
    BY <1>1, <1>13 DEF Reconfigure
  <1>14. CASE UNCHANGED vars
    BY <1>1, <1>14 DEF vars
  <1> QED
    BY <1>3, <1>4, <1>5, <1>6, <1>7, <1>8, <1>9, <1>10, <1>11, <1>12, <1>13, <1>14
    DEF Next, WorkerStep

\* While a lease of storage_deletions runs, only the batch that holds it takes it
\* away: not another claim_storage_deletions, and not retry_storage_deletion_now.
THEOREM LeasesAreRespected == Spec => LeasesRespected
  <1>1. OInv /\ [Next]_vars =>
          [\A l \in Locations : rows[l].lease = "live" /\ rows'[l].tok # rows[l].tok
             => \E w \in Workers : \E c \in Held(w) :
                  /\ c = [loc |-> l, tok |-> rows[l].tok]
                  /\ workers'[w] # workers[w]]_vars
    BY NextRespectsLeases
  <1> QED
    BY <1>1, OutboxInvariant, PTL DEF Spec, LeasesRespected

LEMMA NextSettlesOnlyOwn ==
  ASSUME OInv, [Next]_vars, NEW w \in Workers, NEW c \in workers[w].deleted \cup workers[w].failed,
         rows[c.loc].tok # c.tok, workers'[w] # workers[w]
  PROVE  rows' = rows
  <1> USE DEF OInv
  <1>1. workers[w] # Idle
    BY IdleType
  <1>2. ASSUME NEW S \in SUBSET Locations, NEW v \in Workers, ClaimRows(v, S) PROVE FALSE
    <2>1. v # w
      BY <1>1, <1>2 DEF ClaimRows
    <2>2. workers'[w] = workers[w]
      BY <1>2, <2>1 DEF ClaimRows, Lease, TypeOK
    <2> QED
      BY <2>2
  <1>3. ASSUME NEW v \in Workers, NEW d \in Claims, Complete(v, d) \/ Fail(v, d) PROVE rows' = rows
    <2>1. v = w
      BY <1>3 DEF Complete, Fail, TypeOK
    <2>2. d \in workers[w].deleted \cup workers[w].failed
      BY <1>3, <2>1 DEF Complete, Fail
    <2>3. d = c
      BY <2>2 DEF OneAtATime
    <2> QED
      BY <1>3, <2>3 DEF Complete, Fail, Owned
  <1>4. ASSUME NEW v \in Workers, NEW d \in Claims, DeleteFile(v, d) \/ DeleteFails(v, d)
        PROVE  rows' = rows
    BY <1>4 DEF DeleteFile, DeleteFails
  <1>5. ASSUME NEW v \in Workers, FailRaises(v) \/ BatchEnds(v) PROVE rows' = rows
    BY <1>5 DEF FailRaises, BatchEnds
  <1>6. ASSUME NEW s \in Scopes, Reconfigure(s) PROVE rows' = rows
    BY <1>6 DEF Reconfigure
  <1>7. ASSUME NEW m \in Locations,
               \/ CommitUpload(m) \/ AbortUpload(m) \/ LoseCommit(m) \/ Inspect(m)
               \/ EnqueueOrphan(m) \/ RetryNow(m) \/ CopyFile(m) \/ LeaseExpires(m)
               \/ BackoffEnds(m)
        PROVE  FALSE
    BY <1>7 DEF CommitUpload, AbortUpload, LoseCommit, Inspect, EnqueueOrphan, RetryNow,
                CopyFile, LeaseExpires, BackoffEnds
  <1>8. ASSUME NEW k \in Keys, SaveUpload(k) PROVE FALSE
    BY <1>8 DEF SaveUpload
  <1>9. ASSUME NEW S \in SUBSET Locations, DeleteDocuments(S) PROVE FALSE
    BY <1>9 DEF DeleteDocuments
  <1>10. CASE UNCHANGED vars
    BY <1>10 DEF vars
  <1> QED
    BY <1>2, <1>3, <1>4, <1>5, <1>6, <1>7, <1>8, <1>9, <1>10 DEF Next, WorkerStep

\* A batch that was slower than its lease changes no row when it settles its claim:
\* the token in the row of complete_storage_deletion and fail_storage_deletion is
\* another one by then.
THEOREM LateBatchesAreHarmless == Spec => LateBatchesHarmless
  <1>1. OInv /\ [Next]_vars =>
          [\A w \in Workers : \A c \in workers[w].deleted \cup workers[w].failed :
             rows[c.loc].tok # c.tok /\ workers'[w] # workers[w] => rows' = rows]_vars
    BY NextSettlesOnlyOwn
  <1> QED
    BY <1>1, OutboxInvariant, PTL DEF Spec, LateBatchesHarmless

-----------------------------------------------------------------------------
(* The contract.                                                           *)

Moves == {<<"none", "loose">>, <<"loose", "none">>, <<"loose", "kept">>, <<"loose", "owed">>,
          <<"none", "owed">>, <<"owed", "none">>, <<"owed", "kept">>, <<"none", "kept">>}

LEMMA Status ==
  \A l \in Locations :
    /\ fileStatus[l] = IF l \in docs THEN "kept"
                       ELSE IF rows[l].there THEN "owed"
                       ELSE IF l \in objects THEN "loose" ELSE "none"
    /\ fileStatus'[l] = IF l \in docs' THEN "kept"
                        ELSE IF rows'[l].there THEN "owed"
                        ELSE IF l \in objects' THEN "loose" ELSE "none"
  BY DEF fileStatus

\* Files of which a step changes nothing.
Alike(l) == /\ l \in docs' <=> l \in docs
            /\ l \in objects' <=> l \in objects
            /\ rows'[l].there <=> rows[l].there

LEMMA AlikeStatus ==
  ASSUME NEW l \in Locations, Alike(l)
  PROVE  fileStatus'[l] = fileStatus[l]
  BY Status DEF Alike

LEMMA NoMove ==
  ASSUME \A l \in Locations : Alike(l)
  PROVE  UNCHANGED fileStatus
  <1>1. \A l \in Locations : fileStatus'[l] = fileStatus[l]
    BY AlikeStatus
  <1> QED
    BY <1>1 DEF fileStatus

LEMMA OneMove ==
  ASSUME NEW l \in Locations, \A m \in Locations : m # l => Alike(m),
         <<fileStatus[l], fileStatus'[l]>> \in Moves \/ fileStatus'[l] = fileStatus[l]
  PROVE  [Contract!Next]_fileStatus
  <1>1. \A m \in Locations : m # l => fileStatus'[m] = fileStatus[m]
    BY AlikeStatus
  <1>2. fileStatus' = [fileStatus EXCEPT ![l] = fileStatus'[l]]
    BY <1>1 DEF fileStatus
  <1>3. CASE fileStatus'[l] = fileStatus[l]
    <2>1. \A m \in Locations : fileStatus'[m] = fileStatus[m]
      BY <1>1, <1>3
    <2> QED
      BY <2>1 DEF fileStatus
  <1>4. CASE <<fileStatus[l], fileStatus'[l]>> \in Moves
    <2>1. \/ Contract!Appear(l) \/ Contract!Vanish(l) \/ Contract!Keep(l)
          \/ Contract!Dispose(l) \/ Contract!Done(l) \/ Contract!Late(l)
      BY <1>2, <1>4 DEF Moves, Contract!Appear, Contract!Vanish, Contract!Keep,
         Contract!Dispose, Contract!Done, Contract!Late, Contract!Move
    <2> QED
      BY <2>1 DEF Contract!Next
  <1> QED
    BY <1>3, <1>4

LEMMA InitContract == Init => Contract!Init
  <1> SUFFICES ASSUME Init PROVE fileStatus \in [Locations -> {"none", "loose"}]
    BY DEF Contract!Init
  <1>1. \A l \in Locations : fileStatus[l] \in {"none", "loose"}
    BY Status, RowTypes DEF Init
  <1> QED
    BY <1>1 DEF fileStatus

LEMMA NextContract == OInv /\ [Next]_vars => [Contract!Next]_fileStatus
  <1> SUFFICES ASSUME OInv, [Next]_vars PROVE [Contract!Next]_fileStatus
    OBVIOUS
  <1> USE DEF OInv
  <1>1. ASSUME NEW k \in Keys, SaveUpload(k) PROVE [Contract!Next]_fileStatus
    <2> DEFINE l == <<conf, k>>
    <2>1. l \in Locations /\ KeyOf(l) = k
      BY DEF TypeOK, Locations, KeyOf
    <2>2. l \notin objects \cup docs /\ ~rows[l].there
      BY <1>1, <2>1 DEF SaveUpload, FreshKey
    <2>3. objects' = objects \cup {l} /\ UNCHANGED <<docs, rows>>
      BY <1>1 DEF SaveUpload
    <2> HIDE DEF l
    <2>4. \A m \in Locations : m # l => Alike(m)
      BY <2>3 DEF Alike
    <2>5. fileStatus[l] = "none" /\ fileStatus'[l] = "loose"
      BY <2>1, <2>2, <2>3, Status
    <2> QED
      BY <2>1, <2>4, <2>5, OneMove DEF Moves
  <1>2. ASSUME NEW l \in Locations, CommitUpload(l) \/ LoseCommit(l)
        PROVE  [Contract!Next]_fileStatus
    <2>1. l \notin docs /\ docs' \in {docs, docs \cup {l}} /\ UNCHANGED <<objects, rows>>
      BY <1>2 DEF CommitUpload, LoseCommit
    <2>2. \A m \in Locations : m # l => Alike(m)
      BY <2>1 DEF Alike
    <2>3. fileStatus[l] \in {"owed", "loose", "none"} /\ fileStatus'[l] \in {fileStatus[l], "kept"}
      BY <2>1, Status
    <2> QED
      BY <2>2, <2>3, OneMove DEF Moves
  <1>3. ASSUME NEW l \in Locations, AbortUpload(l) PROVE [Contract!Next]_fileStatus
    <2>1. l \notin docs /\ objects' \in {objects, objects \ {l}} /\ UNCHANGED <<docs, rows>>
      BY <1>3 DEF AbortUpload
    <2>2. \A m \in Locations : m # l => Alike(m)
      BY <2>1 DEF Alike
    <2>3. \/ fileStatus'[l] = fileStatus[l]
          \/ fileStatus[l] = "loose" /\ fileStatus'[l] = "none"
      BY <2>1, Status
    <2> QED
      BY <2>2, <2>3, OneMove DEF Moves
  <1>4. ASSUME NEW l \in Locations, EnqueueOrphan(l) PROVE [Contract!Next]_fileStatus
    <2>1. rows' = Enqueued({l}) /\ {l} \in SUBSET Locations /\ UNCHANGED <<docs, objects>>
      BY <1>4 DEF EnqueueOrphan
    <2>2. \A m \in Locations : rows'[m].there <=> rows[m].there \/ m \in {l}
      BY <2>1, EnqueuedRows
    <2>3. \A m \in Locations : m # l => Alike(m)
      BY <2>1, <2>2 DEF Alike
    <2>4. \/ fileStatus'[l] = fileStatus[l]
          \/ fileStatus[l] \in {"loose", "none"} /\ fileStatus'[l] = "owed"
      BY <2>1, <2>2, Status
    <2> QED
      BY <2>3, <2>4, OneMove DEF Moves
  <1>5. ASSUME NEW l \in Locations, CopyFile(l) PROVE [Contract!Next]_fileStatus
    <2>1. l \notin objects \cup docs /\ ~rows[l].there /\ objects' = objects \cup {l}
          /\ UNCHANGED <<docs, rows>>
      BY <1>5 DEF CopyFile
    <2>2. \A m \in Locations : m # l => Alike(m)
      BY <2>1 DEF Alike
    <2>3. fileStatus[l] = "none" /\ fileStatus'[l] = "loose"
      BY <2>1, Status
    <2> QED
      BY <2>2, <2>3, OneMove DEF Moves
  <1>6. ASSUME NEW S \in SUBSET Locations, DeleteDocuments(S) PROVE [Contract!Next]_fileStatus
    <2>1. rows' = Enqueued(S) /\ S \subseteq docs /\ docs' = docs \ S /\ UNCHANGED objects
      BY <1>6 DEF DeleteDocuments
    <2>2. \A m \in Locations : rows'[m].there <=> rows[m].there \/ m \in S
      BY <2>1, EnqueuedRows
    <2>3. \A m \in Locations : fileStatus'[m] = IF m \in S THEN "owed" ELSE fileStatus[m]
      BY <2>1, <2>2, Status
    <2>4. \A m \in S : fileStatus[m] = "kept"
      BY <2>1, Status
    <2>5. fileStatus' = [m \in Locations |-> IF m \in S THEN "owed" ELSE fileStatus[m]]
      BY <2>3 DEF fileStatus
    <2> QED
      BY <2>4, <2>5 DEF Contract!Next, Contract!Accept
  <1>7. ASSUME NEW w \in Workers, NEW c \in Claims, DeleteFile(w, c) \/ DeleteFails(w, c)
        PROVE  [Contract!Next]_fileStatus
    <2>1. c.loc \in Locations /\ Upcoming(w, c) /\ UNCHANGED <<docs, rows>>
      BY <1>7 DEF DeleteFile, DeleteFails, Claims
    <2>2. objects' \in {objects, objects \ {c.loc}}
      BY <1>7, Here DEF DeleteFile, DeleteFails
    <2>3. \A m \in Locations : m # c.loc => Alike(m)
      BY <2>1, <2>2 DEF Alike
    <2>4. \/ fileStatus'[c.loc] = fileStatus[c.loc]
          \/ fileStatus[c.loc] = "loose" /\ fileStatus'[c.loc] = "none"
      BY <2>1, <2>2, Status
    <2> QED
      BY <2>1, <2>3, <2>4, OneMove DEF Moves
  <1>8. ASSUME NEW w \in Workers, NEW c \in Claims, Complete(w, c)
        PROVE  [Contract!Next]_fileStatus
    <2>1. c.loc \in Locations /\ UNCHANGED <<docs, objects>>
      BY <1>8 DEF Complete, Claims
    <2>2. CASE ~Owned(c)
      <3>1. \A m \in Locations : Alike(m)
        BY <1>8, <2>1, <2>2 DEF Complete, Alike
      <3> QED
        BY <3>1, NoMove
    <2>3. CASE Owned(c)
      <3>1. rows[c.loc].there
        BY <2>3, Settled
      <3>2. c.loc \notin objects
        BY <1>8, <2>3 DEF Complete, Owned, GoneForGood
      <3>3. rows' = [rows EXCEPT ![c.loc] = NoRow]
        BY <1>8, <2>3 DEF Complete
      <3>4. ~rows'[c.loc].there /\ \A m \in Locations : m # c.loc => rows'[m] = rows[m]
        BY <2>1, <3>3, RowTypes DEF TypeOK
      <3>5. \A m \in Locations : m # c.loc => Alike(m)
        BY <2>1, <3>4 DEF Alike
      <3>6. \/ fileStatus'[c.loc] = fileStatus[c.loc]
            \/ fileStatus[c.loc] = "owed" /\ fileStatus'[c.loc] = "none"
        BY <2>1, <3>1, <3>2, <3>4, Status
      <3> QED
        BY <2>1, <3>5, <3>6, OneMove DEF Moves
    <2> QED
      BY <2>2, <2>3
  <1>9. ASSUME UNCHANGED <<docs, objects>>,
               \A m \in Locations : rows'[m].there <=> rows[m].there
        PROVE  [Contract!Next]_fileStatus
    <2>1. \A m \in Locations : Alike(m)
      BY <1>9 DEF Alike
    <2> QED
      BY <2>1, NoMove
  <1>10. ASSUME NEW l \in Locations, RetryNow(l) \/ LeaseExpires(l) \/ BackoffEnds(l)
         PROVE  [Contract!Next]_fileStatus
    <2>1. \A m \in Locations : rows'[m].there <=> rows[m].there
      BY <1>10 DEF RetryNow, LeaseExpires, BackoffEnds, TypeOK, Row
    <2>2. UNCHANGED <<docs, objects>>
      BY <1>10 DEF RetryNow, LeaseExpires, BackoffEnds
    <2> QED
      BY <1>9, <2>1, <2>2
  <1>11. ASSUME NEW S \in SUBSET Locations, NEW w \in Workers, ClaimRows(w, S)
         PROVE  [Contract!Next]_fileStatus
    <2>1. \A m \in Locations : rows'[m].there <=> rows[m].there
      <3>1. PICK token \in [S -> FreshTokens] :
              rows' = [l \in Locations |->
                 IF l \in S
                 THEN [rows[l] EXCEPT !.tok = token[l], !.lease = "live", !.tried = TRUE]
                 ELSE rows[l]]
        BY <1>11 DEF ClaimRows, Lease
      <3>2. ASSUME NEW m \in Locations PROVE rows'[m].there <=> rows[m].there
        <4>1. rows[m] \in Row
          BY DEF TypeOK
        <4> QED
          BY <3>1, <4>1 DEF Row
      <3> QED
        BY <3>2
    <2>2. UNCHANGED <<docs, objects>>
      BY <1>11 DEF ClaimRows, Lease
    <2> QED
      BY <1>9, <2>1, <2>2
  <1>12. ASSUME NEW w \in Workers, NEW c \in Claims, Fail(w, c) PROVE [Contract!Next]_fileStatus
    <2>1. \A m \in Locations : rows'[m].there <=> rows[m].there
      BY <1>12 DEF Fail, Release, TypeOK, Row
    <2>2. UNCHANGED <<docs, objects>>
      BY <1>12 DEF Fail
    <2> QED
      BY <1>9, <2>1, <2>2
  <1>13. ASSUME NEW w \in Workers, FailRaises(w) \/ BatchEnds(w) PROVE [Contract!Next]_fileStatus
    BY <1>9, <1>13 DEF FailRaises, BatchEnds
  <1>14. ASSUME NEW l \in Locations, Inspect(l) PROVE [Contract!Next]_fileStatus
    BY <1>9, <1>14 DEF Inspect
  <1>15. ASSUME NEW s \in Scopes, Reconfigure(s) PROVE [Contract!Next]_fileStatus
    BY <1>9, <1>15 DEF Reconfigure
  <1>16. CASE UNCHANGED vars
    BY <1>9, <1>16 DEF vars
  <1> QED
    BY <1>1, <1>2, <1>3, <1>4, <1>5, <1>6, <1>7, <1>8, <1>10, <1>11, <1>12, <1>13, <1>14,
       <1>15, <1>16 DEF Next, WorkerStep

\* The outbox implements its contract: a file of a document is given up only by a
\* deletion that was accepted, and a row of storage_deletions goes only after its file.
THEOREM OutboxMeetsContract == Spec => ContractSpec
  <1>1. Init => Contract!Init
    BY InitContract
  <1>2. OInv /\ [Next]_vars => [Contract!Next]_fileStatus
    BY NextContract
  <1> QED
    BY <1>1, <1>2, OutboxInvariant, PTL DEF Spec, ContractSpec, Contract!Spec

=============================================================================
