----------------------------- MODULE ServiceProofs ------------------------------
(***************************************************************************)
(* What a process serves and who it serves, for all numbers of accounts,   *)
(* requests, loops and calls: blocks hold until they said they would end,  *)
(* a process whose loops do well is ready, no more calls are open than the *)
(* limit allows, and the composition keeps what each of its parts keeps.   *)
(***************************************************************************)
EXTENDS MCService, AccountsProofs, SequenceTheorems

-----------------------------------------------------------------------------
(* Limits of attempts.  A block ends when it said it would.                *)
(*                                                                         *)
(* What the sweep looks at is updated_at, which a late transaction may set *)
(* back behind the time at which the block was made.  By no more than the  *)
(* age of a transaction: so a row keeps its block for Lockout + MaxLag     *)
(* after updated_at at most, and the retention covers that.                *)

AttemptRow == [n : Nat, window : 0 .. MaxTime,
               until : {Unblocked} \cup 0 .. MaxTime + Lockout, updated : 0 .. MaxTime]
TryRecord == [pc : {"idle", "check", "verify", "consume"},
              scopes : SUBSET LimitScopes, now : 0 .. MaxTime]

RowFits(s, row) ==
  /\ row \in AttemptRow
  /\ row.n >= Threshold(s) => row.until # Unblocked
  /\ row.until <= time + Lockout
  /\ row.until <= row.updated + Lockout + MaxLag

TryFits(try) ==
  /\ try \in TryRecord
  /\ try.pc # "idle" => try.now <= time /\ time <= try.now + MaxLag

LInv ==
  /\ time \in 0 .. MaxTime
  /\ attempts \in [LimitScopes -> AttemptRow] /\ \A s \in LimitScopes : RowFits(s, attempts[s])
  /\ tries \in [Tries -> TryRecord] /\ \A q \in Tries : TryFits(tries[q])

-----------------------------------------------------------------------------
\* A threshold is at least one.
LEMMA ThresholdPositive == ASSUME NEW s \in LimitScopes PROVE Threshold(s) \in Nat \ {0}
<1>1. CASE s \in AccountScopes
  BY <1>1, LimitNumbers DEF Threshold
<1>2. CASE s \notin AccountScopes /\ s \in ClientScopes
  BY <1>2, LimitNumbers DEF Threshold
<1>3. CASE s \notin AccountScopes /\ s \notin ClientScopes
  BY <1>3, LimitNumbers DEF Threshold
<1> QED
  BY <1>1, <1>2, <1>3

\* A row that is not there fits.
LEMMA NoAttemptFits ==
  ASSUME time \in 0 .. MaxTime, NEW s \in LimitScopes
  PROVE  NoAttempt \in AttemptRow /\ RowFits(s, NoAttempt)
BY ThresholdPositive, LimitNumbers DEF NoAttempt, AttemptRow, RowFits, Unblocked

\* A request that has not begun fits.
LEMMA IdleTryFits == time \in 0 .. MaxTime => IdleTry \in TryRecord /\ TryFits(IdleTry)
BY LimitNumbers DEF IdleTry, TryRecord, TryFits

\* What an upsert leaves, and that it leaves a block alone that is in force.
LEMMA UpsertFits ==
  ASSUME LInv, NEW s \in LimitScopes, NEW now \in 0 .. MaxTime, now <= time, time <= now + MaxLag
  PROVE  /\ Upsert(s, now) \in AttemptRow /\ RowFits(s, Upsert(s, now))
         /\ attempts[s].until > time => Upsert(s, now).until = attempts[s].until
<1> DEFINE row == attempts[s]
           expired == row.n = 0 \/ row.window <= now - LimitWindow
           n == IF expired THEN 1 ELSE row.n + 1
           w == IF expired THEN now ELSE row.window
           u == IF n >= Threshold(s) THEN now + Lockout ELSE Unblocked
<1>1. row \in AttemptRow /\ RowFits(s, row) /\ time \in Nat /\ now \in Nat /\ time <= MaxTime
  BY LimitNumbers DEF LInv
<1>2. Threshold(s) \in Nat \ {0} /\ Lockout \in Nat /\ MaxLag \in Nat /\ MaxTime \in Nat
  BY ThresholdPositive, LimitNumbers
<1>3. CASE BlockedAt(row, now)
  <2> DEFINE r == [row EXCEPT !.updated = now]
  <2>1. Upsert(s, now) = r
    BY <1>3 DEF Upsert
  <2>2. r \in AttemptRow /\ r.n = row.n /\ r.until = row.until /\ r.updated = now
    BY <1>1 DEF AttemptRow
  <2> HIDE DEF r
  <2>3. row.until \in Int /\ row.until > now
    BY <1>1, <1>2, <1>3 DEF AttemptRow, BlockedAt, Unblocked
  <2> QED
    BY <1>1, <1>2, <2>1, <2>2, <2>3 DEF RowFits
<1>4. CASE ~BlockedAt(row, now)
  <2>1. n \in Nat /\ w \in 0 .. MaxTime /\ row.until \in Int
    BY <1>1, <1>2 DEF AttemptRow, Unblocked
  <2>2. u \in {Unblocked} \cup 0 .. MaxTime + Lockout /\ (n >= Threshold(s) => u # Unblocked)
        /\ u <= now + Lockout
    BY <1>1, <1>2, <2>1 DEF Unblocked
  <2> DEFINE r == [n |-> n, window |-> w, until |-> u, updated |-> now]
  <2>3. Upsert(s, now) = r
    BY <1>4 DEF Upsert
  <2> HIDE DEF n, w, u
  <2>4. r \in AttemptRow /\ r.n = n /\ r.until = u /\ r.updated = now
    BY <2>1, <2>2 DEF AttemptRow
  <2> HIDE DEF r
  <2>5. u \in Int
    BY <1>1, <1>2, <2>2 DEF Unblocked
  <2>6. RowFits(s, r)
    BY <1>1, <1>2, <2>2, <2>4, <2>5 DEF RowFits
  <2>7. ~(row.until > time)
    BY <1>1, <1>4, <2>1 DEF BlockedAt
  <2> QED
    BY <2>3, <2>4, <2>6, <2>7
<1> QED
  BY <1>3, <1>4

-----------------------------------------------------------------------------
(* What changes in a step: a request, or its request and some rows.        *)

\* A step of one request that leaves the table alone.
LEMMA OneTryMoves ==
  ASSUME LInv, NEW q \in Tries, NEW t, TryFits(t), t \in TryRecord,
         tries' = [tries EXCEPT ![q] = t], UNCHANGED time,
         attempts' \in [LimitScopes -> AttemptRow],
         \A s \in LimitScopes : RowFits(s, attempts'[s])
  PROVE  LInv' /\ tries'[q] = t
<1>1. tries' \in [Tries -> TryRecord] /\ tries'[q] = t
      /\ \A p \in Tries \ {q} : tries'[p] = tries[p]
  BY DEF LInv
<1>2. ASSUME NEW p \in Tries PROVE TryFits(tries[p])'
  <2>1. TryFits(tries'[p])
    BY <1>1 DEF LInv
  <2> QED
    BY <2>1 DEF TryFits, TryRecord
<1>3. ASSUME NEW s \in LimitScopes PROVE RowFits(s, attempts[s])'
  BY DEF RowFits, AttemptRow, Threshold
<1> QED
  BY <1>1, <1>2, <1>3 DEF LInv, AttemptRow, TryRecord

\* A recorded attempt: its rows are upserted.
LEMMA Recorded ==
  ASSUME LInv, NEW q \in Tries, tries[q].pc # "idle",
         attempts' = [s \in LimitScopes |-> IF s \in tries[q].scopes
                                            THEN Upsert(s, tries[q].now) ELSE attempts[s]],
         tries' = [tries EXCEPT ![q] = IdleTry], UNCHANGED time
  PROVE  /\ LInv'
         /\ \A s \in LimitScopes :
              attempts[s].until > time => attempts'[s].until = attempts[s].until
<1>1. tries[q].now \in 0 .. MaxTime /\ tries[q].now <= time /\ time <= tries[q].now + MaxLag
  BY DEF LInv, TryFits, TryRecord
<1>2. ASSUME NEW s \in LimitScopes
      PROVE  /\ attempts'[s] \in AttemptRow /\ RowFits(s, attempts'[s])
             /\ attempts[s].until > time => attempts'[s].until = attempts[s].until
  <2>1. CASE s \in tries[q].scopes
    <3>1. attempts'[s] = Upsert(s, tries[q].now)
      BY <2>1
    <3> QED
      BY <1>1, <3>1, UpsertFits
  <2>2. CASE s \notin tries[q].scopes
    BY <2>2 DEF LInv
  <2> QED
    BY <2>1, <2>2
<1>3. attempts' \in [LimitScopes -> AttemptRow]
  BY <1>2
<1>4. IdleTry \in TryRecord /\ TryFits(IdleTry)
  BY IdleTryFits DEF LInv
<1> QED
  BY <1>2, <1>3, <1>4, OneTryMoves

\* A request begins with the time of its transaction.
LEMMA Began ==
  ASSUME LInv, NEW q \in Tries, NEW pc \in {"check", "consume"}, NEW S \in SUBSET LimitScopes,
         tries' = [tries EXCEPT ![q] = [pc |-> pc, scopes |-> S, now |-> time]],
         UNCHANGED <<time, attempts>>
  PROVE  LInv'
<1> DEFINE t == [pc |-> pc, scopes |-> S, now |-> time]
<1>1. t \in TryRecord /\ TryFits(t)
  BY LimitNumbers DEF LInv, TryRecord, TryFits
<1> HIDE DEF t
<1> QED
  BY <1>1, OneTryMoves DEF LInv, t

-----------------------------------------------------------------------------
\* At first there are no rows and no requests.
LEMMA LimitsAtFirst == LimitsInit => LInv
<1> SUFFICES ASSUME LimitsInit PROVE LInv
  OBVIOUS
<1>1. time \in 0 .. MaxTime
  BY LimitNumbers DEF LimitsInit
<1>2. IdleTry \in TryRecord /\ TryFits(IdleTry)
  BY <1>1, IdleTryFits
<1> QED
  BY <1>1, <1>2, NoAttemptFits DEF LimitsInit, LInv

\* Rows that a step of LimitsNext does not remove for an account that succeeded.
BlockKept(s) == attempts[s].until > time => attempts'[s].until = attempts[s].until

Succeeded(s) ==
  /\ s \in AccountScopes
  /\ \E q \in Tries : tries[q].pc = "verify" /\ s \in tries[q].scopes /\ tries'[q] = IdleTry
  /\ attempts'[s] = NoAttempt

\* The sweep removes only rows whose block is over.
LEMMA Purged ==
  ASSUME LInv, NEW s \in LimitScopes, PurgeAttempts(s)
  PROVE  LInv' /\ \A r \in LimitScopes : BlockKept(r)
<1>1. /\ attempts[s].updated < time - Retention /\ UNCHANGED <<time, tries>>
      /\ attempts' = [attempts EXCEPT ![s] = NoAttempt]
  BY DEF PurgeAttempts
<1>2. /\ attempts[s] \in AttemptRow /\ attempts[s].until <= attempts[s].updated + Lockout + MaxLag
      /\ time \in Nat
  BY LimitNumbers DEF LInv, RowFits
<1>3. ~(attempts[s].until > time)
  BY <1>1, <1>2, LimitNumbers, RetentionCovers DEF AttemptRow, Unblocked
<1>4. NoAttempt \in AttemptRow /\ RowFits(s, NoAttempt)
  BY NoAttemptFits DEF LInv
<1>5. /\ attempts' \in [LimitScopes -> AttemptRow] /\ attempts'[s] = NoAttempt
      /\ \A r \in LimitScopes \ {s} : attempts'[r] = attempts[r]
  BY <1>1, <1>4 DEF LInv
<1>6. ASSUME NEW r \in LimitScopes PROVE RowFits(r, attempts[r])'
  <2>1. RowFits(r, attempts'[r])
    BY <1>4, <1>5 DEF LInv
  <2> QED
    BY <1>1, <2>1 DEF RowFits, AttemptRow, Threshold
<1>7. ASSUME NEW q \in Tries PROVE TryFits(tries[q])'
  BY <1>1 DEF LInv, TryFits, TryRecord
<1> QED
  BY <1>1, <1>3, <1>5, <1>6, <1>7 DEF LInv, AttemptRow, TryRecord, BlockKept

\* Time passes for as long as no transaction becomes too old.
LEMMA Aged ==
  ASSUME LInv, TimePasses
  PROVE  LInv' /\ \A r \in LimitScopes : BlockKept(r)
<1>1. /\ time < MaxTime /\ time' = time + 1 /\ attempts' = attempts /\ tries' = tries
      /\ \A q \in Tries : RowBusy(q) => time < tries[q].now + MaxLag
  BY DEF TimePasses
<1>2. time \in 0 .. MaxTime /\ time' \in 0 .. MaxTime
  BY <1>1, LimitNumbers DEF LInv
<1>3. ASSUME NEW r \in LimitScopes PROVE RowFits(r, attempts[r])'
  <2>1. attempts[r] \in AttemptRow /\ RowFits(r, attempts[r])
    BY DEF LInv
  <2>2. attempts[r].until \in Int
    BY <2>1, LimitNumbers DEF AttemptRow, Unblocked
  <2> QED
    BY <1>1, <1>2, <2>1, <2>2, LimitNumbers DEF RowFits, AttemptRow, Threshold
<1>4. ASSUME NEW q \in Tries PROVE TryFits(tries[q])'
  <2>1. TryFits(tries[q]) /\ tries[q].now \in Nat
    BY LimitNumbers DEF LInv, TryRecord
  <2> QED
    BY <1>1, <1>2, <2>1, LimitNumbers DEF TryFits, TryRecord, RowBusy
<1> QED
  BY <1>1, <1>2, <1>3, <1>4 DEF LInv, AttemptRow, TryRecord, BlockKept

\* A success removes the row of its account and no other.
LEMMA Cleared ==
  ASSUME LInv, NEW q \in Tries, ClearAccountFailures(q)
  PROVE  LInv' /\ \A s \in LimitScopes : BlockKept(s) \/ Succeeded(s)
<1> DEFINE gone == tries[q].scopes \cap AccountScopes
<1>1. /\ tries[q].pc = "verify" /\ UNCHANGED time /\ tries' = [tries EXCEPT ![q] = IdleTry]
      /\ attempts' = [s \in LimitScopes |-> IF s \in gone THEN NoAttempt ELSE attempts[s]]
  BY DEF ClearAccountFailures
<1>2. ASSUME NEW s \in LimitScopes
      PROVE  attempts'[s] \in AttemptRow /\ RowFits(s, attempts'[s])
  <2>1. CASE s \in gone
    BY <1>1, <2>1, NoAttemptFits DEF LInv
  <2>2. CASE s \notin gone
    BY <1>1, <2>2 DEF LInv
  <2> QED
    BY <2>1, <2>2
<1>3. attempts' \in [LimitScopes -> AttemptRow]
  BY <1>1, <1>2
<1>4. IdleTry \in TryRecord /\ TryFits(IdleTry)
  BY IdleTryFits DEF LInv
<1>5. LInv' /\ tries'[q] = IdleTry
  BY <1>1, <1>2, <1>3, <1>4, OneTryMoves
<1>6. ASSUME NEW s \in LimitScopes PROVE BlockKept(s) \/ Succeeded(s)
  <2>1. CASE s \in gone
    BY <1>1, <1>5, <2>1 DEF Succeeded
  <2>2. CASE s \notin gone
    BY <1>1, <2>2 DEF BlockKept
  <2> QED
    BY <2>1, <2>2
<1> QED
  BY <1>5, <1>6

\* Every step keeps the invariant, and no step but a success touches a block.
LEMMA LimitsStep ==
  ASSUME LInv, LimitsNext
  PROVE  LInv' /\ \A s \in LimitScopes : BlockKept(s) \/ Succeeded(s)
<1>1. ASSUME NEW q \in Tries, NEW a \in AccountScopes,
             NEW cs \in {{}} \cup {{c} : c \in ClientScopes}, BeginTry(q, a, cs)
      PROVE  LInv' /\ \A s \in LimitScopes : BlockKept(s)
  <2>1. {a} \cup cs \in SUBSET LimitScopes
    BY DEF LimitScopes
  <2> QED
    BY <1>1, <2>1, Began DEF BeginTry, BlockKept
<1>2. ASSUME NEW q \in Tries, NEW r \in QuotaScopes, BeginConsume(q, r)
      PROVE  LInv' /\ \A s \in LimitScopes : BlockKept(s)
  <2>1. {r} \in SUBSET LimitScopes
    BY DEF LimitScopes
  <2> QED
    BY <1>2, <2>1, Began DEF BeginConsume, BlockKept
<1>3. ASSUME NEW q \in Tries, CheckRetryAfter(q)
      PROVE  LInv' /\ \A s \in LimitScopes : BlockKept(s)
  <2> DEFINE try == tries[q]
             r == [try EXCEPT !.pc = "verify"]
             t == IF \E s \in try.scopes : BlockedAt(attempts[s], try.now) THEN IdleTry ELSE r
  <2>1. try \in TryRecord /\ TryFits(try) /\ try.pc = "check"
    BY <1>3 DEF CheckRetryAfter, LInv
  <2>2. r \in TryRecord /\ TryFits(r)
    BY <2>1 DEF TryRecord, TryFits
  <2>3. IdleTry \in TryRecord /\ TryFits(IdleTry)
    BY IdleTryFits DEF LInv
  <2>4. tries' = [tries EXCEPT ![q] = t] /\ UNCHANGED <<time, attempts>>
    BY <1>3 DEF CheckRetryAfter
  <2>5. t \in TryRecord /\ TryFits(t)
    BY <2>2, <2>3
  <2> HIDE DEF t
  <2> QED
    BY <2>4, <2>5, OneTryMoves DEF LInv, BlockKept
<1>4. ASSUME NEW q \in Tries, RecordFailure(q) \/ Consume(q)
      PROVE  LInv' /\ \A s \in LimitScopes : BlockKept(s)
  <2>1. /\ tries[q].pc # "idle" /\ UNCHANGED time /\ tries' = [tries EXCEPT ![q] = IdleTry]
        /\ attempts' = [s \in LimitScopes |-> IF s \in tries[q].scopes
                                              THEN Upsert(s, tries[q].now) ELSE attempts[s]]
    BY <1>4 DEF RecordFailure, Consume
  <2> QED
    BY <2>1, Recorded DEF BlockKept
<1>5. ASSUME NEW q \in Tries, GiveUp(q)
      PROVE  LInv' /\ \A s \in LimitScopes : BlockKept(s)
  <2>1. IdleTry \in TryRecord /\ TryFits(IdleTry)
    BY IdleTryFits DEF LInv
  <2> QED
    BY <1>5, <2>1, OneTryMoves DEF GiveUp, LInv, BlockKept
<1> QED
  BY <1>1, <1>2, <1>3, <1>4, <1>5, Purged, Aged, Cleared DEF LimitsNext

\* So does a step of others.
LEMMA LimitsStutter == LInv /\ UNCHANGED limitVars => LInv'
<1> SUFFICES ASSUME LInv, UNCHANGED limitVars PROVE LInv'
  OBVIOUS
<1>1. ASSUME NEW s \in LimitScopes PROVE RowFits(s, attempts[s])'
  BY DEF limitVars, LInv, RowFits, AttemptRow, Threshold
<1>2. ASSUME NEW q \in Tries PROVE TryFits(tries[q])'
  BY DEF limitVars, LInv, TryFits, TryRecord
<1> QED
  BY <1>1, <1>2 DEF limitVars, LInv, AttemptRow, TryRecord

-----------------------------------------------------------------------------
\* The invariant of the limits.
THEOREM LimitsInvariant == LimitsSpec => []LInv
<1>1. LInv /\ [LimitsNext]_limitVars => LInv'
  BY LimitsStep, LimitsStutter
<1> QED
  BY <1>1, LimitsAtFirst, PTL DEF LimitsSpec

\* Rows and requests have their types.
THEOREM LimitsTyped == LimitsSpec => []LimitsTypeOK
<1>1. LInv => LimitsTypeOK
  BY DEF LInv, LimitsTypeOK, AttemptRow, TryRecord
<1> QED
  BY <1>1, LimitsInvariant, PTL

\* A count that has reached its threshold carries a block, whatever the ages of the
\* transactions that wrote the row.
THEOREM CountsBlock == LimitsSpec => []CountMeansBlock
<1>1. LInv => CountMeansBlock
  BY DEF LInv, RowFits, CountMeansBlock
<1> QED
  BY <1>1, LimitsInvariant, PTL

\* A block in force is touched by nothing but a success of its account.
THEOREM BlocksHold == LimitsSpec => BlockHolds
<1> DEFINE Holds ==
      \A s \in LimitScopes :
        attempts[s].until > time /\ attempts'[s].until # attempts[s].until
        => /\ s \in AccountScopes
           /\ \E q \in Tries : tries[q].pc = "verify" /\ s \in tries[q].scopes /\ tries'[q] = IdleTry
           /\ attempts'[s] = NoAttempt
<1>1. LInv /\ [LimitsNext]_limitVars => [Holds]_limitVars
  <2>1. LInv /\ LimitsNext => Holds
    BY LimitsStep DEF BlockKept, Succeeded
  <2> QED
    BY <2>1
<1> QED
  BY <1>1, LimitsInvariant, PTL DEF LimitsSpec, BlockHolds

-----------------------------------------------------------------------------
(* Readiness.  A process whose loops do well is ready.                     *)
(*                                                                         *)
(* What makes it so is Fresh: while a loop waits, its last success is not  *)
(* older than an interval, because the wait began no later than that       *)
(* success or the round that is due begins at once; while it works, its    *)
(* last success was not older than an interval when the round began.       *)

\* Nothing that is remembered lies in the future.
PastOnly(l) ==
  loops[l].waits <= clock /\ loops[l].started <= clock /\ loops[l].success <= clock

Fresh(l) ==
  loops[l].alive /\ loops[l].failures = 0 /\ loops[l].success # Never =>
    IF Working(l)
    THEN loops[l].success <= loops[l].started /\ loops[l].started - loops[l].success <= Interval[l]
    ELSE loops[l].waits <= loops[l].success /\ clock - loops[l].success <= Interval[l]

RInv == ReadyTypeOK /\ \A l \in Loops : PastOnly(l) /\ Fresh(l)

-----------------------------------------------------------------------------
\* At first loops have just begun to wait.
LEMMA ReadyAtFirst == ReadyInit => RInv
<1> SUFFICES ASSUME ReadyInit PROVE RInv
  OBVIOUS
<1>1. ReadyTypeOK
  BY PaceAssumption DEF ReadyInit, ReadyTypeOK, LoopStates, Time, Never, Loops
<1>2. ASSUME NEW l \in Loops PROVE PastOnly(l) /\ Fresh(l)
  BY PaceAssumption DEF ReadyInit, PastOnly, Fresh, Working, Never, Loops
<1> QED
  BY <1>1, <1>2 DEF RInv

\* A step of loop l gives it another state and leaves the rest alone.
LEMMA OneLoopMoves ==
  ASSUME RInv, NEW l \in Loops, NEW s \in LoopStates,
         loops' = [loops EXCEPT ![l] = s], UNCHANGED clock,
         s.waits <= clock, s.started <= clock, s.success <= clock,
         s.alive /\ s.failures = 0 /\ s.success # Never =>
           IF s.started # Never
           THEN s.success <= s.started /\ s.started - s.success <= Interval[l]
           ELSE s.waits <= s.success /\ clock - s.success <= Interval[l]
  PROVE  RInv'
<1>1. loops \in [Loops -> LoopStates] /\ clock \in Nat
  BY DEF RInv, ReadyTypeOK
<1>2. loops' \in [Loops -> LoopStates] /\ loops'[l] = s
      /\ \A k \in Loops \ {l} : loops'[k] = loops[k]
  BY <1>1
<1>3. ASSUME NEW k \in Loops PROVE PastOnly(k)' /\ Fresh(k)'
  <2>1. CASE k = l
    BY <1>2, <2>1 DEF PastOnly, Fresh, Working
  <2>2. CASE k # l
    BY <1>2, <2>2 DEF RInv, PastOnly, Fresh, Working
  <2> QED
    BY <2>1, <2>2
<1> QED
  BY <1>1, <1>2, <1>3 DEF RInv, ReadyTypeOK

\* Every step of the loops keeps the invariant.
LEMMA ReadyStep ==
  ASSUME RInv, [ReadyNext]_readyVars
  PROVE  RInv'
<1>1. loops \in [Loops -> LoopStates] /\ clock \in Nat
      /\ \A l \in Loops : PastOnly(l) /\ Fresh(l) /\ loops[l] \in LoopStates
  BY DEF RInv, ReadyTypeOK
<1>2. Interval \in [Loops -> Nat \ {0}] /\ FailureCap \in Nat \ {0}
  BY PaceAssumption
<1>3. CASE Tick
  <2>1. ASSUME NEW l \in Loops PROVE PastOnly(l)' /\ Fresh(l)'
    <3>1. Interval[l] \in Nat /\ loops[l].waits \in Nat /\ loops[l].success \in Int
          /\ loops[l].started \in Int
      BY <1>1, <1>2 DEF LoopStates, Time, Never
    <3>2. clock' = clock + 1 /\ loops' = loops /\ ~Due(l) /\ PastOnly(l) /\ Fresh(l)
      BY <1>1, <1>3 DEF Tick
    <3> QED
      BY <1>1, <3>1, <3>2 DEF Due, PastOnly, Fresh, Working
  <2> QED
    BY <1>1, <1>3, <2>1 DEF Tick, RInv, ReadyTypeOK
<1>4. ASSUME NEW l \in Loops, StartRound(l) PROVE RInv'
  <2> DEFINE s == [loops[l] EXCEPT !.started = clock, !.waits = clock]
  <2>1. /\ s \in LoopStates /\ s.alive = loops[l].alive /\ s.waits = clock /\ s.started = clock
        /\ s.success = loops[l].success /\ s.failures = loops[l].failures
    BY <1>1 DEF LoopStates, Time
  <2>2. loops' = [loops EXCEPT ![l] = s] /\ UNCHANGED clock /\ ~Working(l)
    BY <1>4 DEF StartRound, LoopBecomes
  <2> HIDE DEF s
  <2>3. clock # Never /\ PastOnly(l) /\ Fresh(l)
    BY <1>1 DEF Never
  <2>4. s.waits <= clock /\ s.started <= clock /\ s.success <= clock
    BY <1>1, <2>1, <2>3 DEF PastOnly
  <2>5. s.alive /\ s.failures = 0 /\ s.success # Never =>
          IF s.started # Never
          THEN s.success <= s.started /\ s.started - s.success <= Interval[l]
          ELSE s.waits <= s.success /\ clock - s.success <= Interval[l]
    BY <1>1, <2>1, <2>2, <2>3 DEF Fresh, PastOnly
  <2> QED
    BY <2>1, <2>2, <2>4, <2>5, OneLoopMoves
<1>5. ASSUME NEW l \in Loops, NEW failed \in BOOLEAN, EndRound(l, failed) PROVE RInv'
  <2> DEFINE w == IF l = "recovery" THEN clock ELSE loops[l].waits
             s == [alive |-> loops[l].alive, started |-> Never, success |-> clock,
                   waits |-> w, failures |-> 0, failed |-> failed]
  <2>1. w \in Nat /\ w <= clock
    BY <1>1 DEF LoopStates, PastOnly
  <2>2. loops' = [loops EXCEPT ![l] = s] /\ UNCHANGED clock
    BY <1>5 DEF EndRound, LoopBecomes
  <2> HIDE DEF w
  <2>3. 0 \in 0 .. FailureCap /\ Never \in Time /\ clock \in Time /\ loops[l].alive \in BOOLEAN
    BY <1>1, <1>2 DEF LoopStates, Time
  <2>4. /\ s \in LoopStates /\ s.waits = w /\ s.started = Never /\ s.success = clock
    BY <2>1, <2>3 DEF LoopStates
  <2> HIDE DEF s
  <2>5. Never <= clock /\ w <= clock /\ clock <= clock /\ clock - clock <= Interval[l]
    BY <1>1, <1>2, <2>1 DEF Never
  <2> QED
    BY <2>2, <2>4, <2>5, OneLoopMoves
<1>6. ASSUME NEW l \in Loops, FailRound(l) PROVE RInv'
  <2> DEFINE w == IF l = "recovery" THEN clock ELSE loops[l].waits
             f == IF loops[l].failures < FailureCap THEN loops[l].failures + 1 ELSE FailureCap
             s == [loops[l] EXCEPT !.started = Never, !.failures = f, !.waits = w]
  <2>1. w \in Nat /\ w <= clock
    BY <1>1 DEF LoopStates, PastOnly
  <2>2. f \in 0 .. FailureCap /\ f # 0
    BY <1>1, <1>2 DEF LoopStates
  <2>3. loops' = [loops EXCEPT ![l] = s] /\ UNCHANGED clock
    BY <1>6 DEF FailRound, LoopBecomes
  <2> HIDE DEF w, f
  <2>4. /\ s \in LoopStates /\ s.waits = w /\ s.started = Never
        /\ s.success = loops[l].success /\ s.failures = f
    BY <1>1, <2>1, <2>2 DEF LoopStates, Time
  <2> HIDE DEF s
  <2>5. Never <= clock /\ loops[l].success <= clock
    BY <1>1 DEF Never, PastOnly
  <2> QED
    BY <2>1, <2>2, <2>3, <2>4, <2>5, OneLoopMoves
<1>7. ASSUME NEW l \in Loops, StopTask(l) PROVE RInv'
  <2> DEFINE b == IF l = "recovery" THEN Never ELSE loops[l].started
             s == [loops[l] EXCEPT !.alive = FALSE, !.started = b]
  <2>1. b \in Time /\ b <= clock
    BY <1>1 DEF LoopStates, PastOnly, Time, Never
  <2>2. loops' = [loops EXCEPT ![l] = s] /\ UNCHANGED clock
    BY <1>7 DEF StopTask, LoopBecomes
  <2> HIDE DEF b
  <2>3. /\ s \in LoopStates /\ s.alive = FALSE /\ s.waits = loops[l].waits /\ s.started = b
        /\ s.success = loops[l].success
    BY <1>1, <2>1 DEF LoopStates
  <2> HIDE DEF s
  <2>4. loops[l].waits <= clock /\ loops[l].success <= clock
    BY <1>1 DEF PastOnly
  <2> QED
    BY <2>1, <2>2, <2>3, <2>4, OneLoopMoves
<1>8. CASE UNCHANGED readyVars
  BY <1>8 DEF readyVars, RInv, ReadyTypeOK, PastOnly, Fresh, Working
<1> QED
  BY <1>3, <1>4, <1>5, <1>6, <1>7, <1>8 DEF ReadyNext

\* A wait of an interval and a round within its limit fit into the freshness that is asked
\* for.
LEMMA PromptIsFresh ==
  ASSUME RInv, NEW l \in Loops, Prompt(l)
  PROVE  ~SuccessStale(l) /\ ~Overdue(l)
<1>1. Interval[l] \in Nat /\ Stale[l] \in Nat /\ clock \in Nat /\ loops[l].success \in Int
      /\ loops[l].started \in Int
  BY PaceAssumption DEF RInv, ReadyTypeOK, LoopStates, Time, Never
<1>2. PastOnly(l) /\ Fresh(l)
  BY DEF RInv
<1>3. clock - loops[l].success <= Interval[l] + Stale[l]
  BY <1>1, <1>2 DEF PastOnly, Fresh, Prompt
<1>4. Interval[l] + Stale[l] <= Freshness(l)
  BY <1>1 DEF Freshness
<1>5. Freshness(l) \in Int
  BY <1>1 DEF Freshness
<1> QED
  BY <1>1, <1>3, <1>4, <1>5 DEF SuccessStale, Overdue, Prompt

\* Loops that are fresh are reported ready.
LEMMA FreshIsReady == RInv => PromptLoopsReady
<1> SUFFICES ASSUME RInv, \A l \in Loops : Prompt(l)
             PROVE  /\ ReadinessCheck("empty", "ready") = "ready"
                    /\ ~loops["deletion"].failed => ReadinessCheck("pending", "ready") = "ready"
  BY DEF PromptLoopsReady
<1>1. ASSUME NEW l \in Loops
      PROVE  loops[l].alive /\ ~Overdue(l) /\ ~SuccessStale(l) /\ ~(loops[l].failures > 0)
             /\ loops[l].success # Never
  BY PromptIsFresh DEF Prompt
<1>2. ASSUME NEW l \in Loops PROVE LoopStatus(l, "empty", "ready") = "ready"
  BY <1>1 DEF LoopStatus, QueueTrouble
<1>3. ASSUME NEW l \in Loops, ~loops["deletion"].failed
      PROVE  LoopStatus(l, "pending", "ready") = "ready"
  BY <1>1, <1>3 DEF LoopStatus, QueueTrouble
<1> QED
  BY <1>2, <1>3 DEF ReadinessCheck

-----------------------------------------------------------------------------
\* The invariant of readiness.
THEOREM ReadyInvariant == ReadySpec => []RInv
  BY ReadyAtFirst, ReadyStep, PTL DEF ReadySpec

\* The bound max(3 intervals, 2 limits) of readiness never calls loops stale that run on
\* time, whatever is configured for either.
THEOREM PromptLoopsAreReady == ReadySpec => []PromptLoopsReady
  BY ReadyInvariant, FreshIsReady, PTL

-----------------------------------------------------------------------------
(* Calls to providers.  No more of them are open than the limit.           *)
(*                                                                         *)
(* The count is compared with the number of calls that hold a slot, and the*)
(* queue of tickets with the threads that wait: a thread has one ticket, so*)
(* the one that takes a slot leaves no second one behind.                  *)

WithSlot == {c \in Calls : callAt[c] \in {"open", "read"}}
InReserve == {c \in Calls : callAt[c] \in {"asleep", "woken"}}
TicketsOf(queue) == {queue[i] : i \in 1 .. Len(queue)}
NoneTwice(queue) == \A i, j \in 1 .. Len(queue) : queue[i] = queue[j] => i = j

\* Every thread in reserve has one ticket, and the count is that of the slots in use.
CallsInv ==
  /\ callAt \in [Calls -> CallPoints] /\ tickets \in Seq(Calls) /\ NoneTwice(tickets)
  /\ InReserve = TicketsOf(tickets)
  /\ inFlight \in 0 .. CallLimit /\ IsFiniteSet(WithSlot) /\ inFlight = Cardinality(WithSlot)

\* At first no call is open and nobody waits.
LEMMA CallsAtFirst == CallsInit => CallsInv
<1> SUFFICES ASSUME CallsInit PROVE CallsInv
  OBVIOUS
<1>1. WithSlot = {} /\ InReserve = {} /\ TicketsOf(tickets) = {}
  BY DEF CallsInit, WithSlot, InReserve, TicketsOf
<1>2. NoneTwice(tickets) /\ tickets \in Seq(Calls)
  BY DEF CallsInit, NoneTwice
<1> QED BY <1>1, <1>2, FS_EmptySet, CallLimitAssumption DEF CallsInit, CallsInv, CallPoints

\* A thread that has the lock and is in the queue keeps its ticket or trades it for a slot.
LEMMA AdmitKeeps ==
  ASSUME NEW c \in Calls, NEW queue \in Seq(Calls), NoneTwice(queue), Admit(c, queue),
         callAt \in [Calls -> CallPoints], callAt[c] \notin {"open", "read"},
         TicketsOf(queue) = InReserve \cup {c},
         inFlight \in 0 .. CallLimit, IsFiniteSet(WithSlot), inFlight = Cardinality(WithSlot)
  PROVE  CallsInv'
<1>1. CASE inFlight < CallLimit /\ Head(queue) = c
  <2>1. /\ tickets' = Tail(queue) /\ inFlight' = inFlight + 1
        /\ callAt' = [callAt EXCEPT ![c] = "open"]
    BY <1>1 DEF Admit, CallGoes
  <2>2. queue # <<>>
    <3>1. TicketsOf(<<>>) = {}
      BY DEF TicketsOf
    <3> QED BY <3>1
  <2>3. /\ Tail(queue) \in Seq(Calls) /\ Len(Tail(queue)) = Len(queue) - 1 /\ queue[1] = c
        /\ \A i \in 1 .. Len(queue) - 1 : Tail(queue)[i] = queue[i + 1]
    <3>1. Len(queue) \in Nat \ {0} /\ Head(queue) = queue[1]
      BY <2>2
    <3> QED BY <1>1, <2>2, <3>1, HeadTailProperties
  <2>4. NoneTwice(Tail(queue))
    BY <2>3 DEF NoneTwice
  <2>5. TicketsOf(Tail(queue)) = TicketsOf(queue) \ {c}
    <3>1. ASSUME NEW x \in TicketsOf(Tail(queue)) PROVE x \in TicketsOf(queue) /\ x # c
      <4>1. PICK i \in 1 .. Len(queue) - 1 : x = queue[i + 1]
        BY <2>3, <3>1 DEF TicketsOf
      <4>2. i + 1 \in 1 .. Len(queue) /\ i + 1 # 1 /\ 1 \in 1 .. Len(queue)
        BY <4>1
      <4> QED BY <2>3, <4>1, <4>2 DEF TicketsOf, NoneTwice
    <3>2. ASSUME NEW x \in TicketsOf(queue), x # c PROVE x \in TicketsOf(Tail(queue))
      <4>1. PICK i \in 1 .. Len(queue) : x = queue[i]
        BY DEF TicketsOf
      <4>2. i # 1 /\ i - 1 \in 1 .. Len(queue) - 1
        BY <2>3, <3>2, <4>1
      <4>3. Tail(queue)[i - 1] = x
        BY <2>3, <4>1, <4>2
      <4> QED BY <2>3, <4>2, <4>3 DEF TicketsOf
    <3> QED BY <3>1, <3>2
  <2>6. WithSlot' = WithSlot \cup {c} /\ c \notin WithSlot /\ InReserve' = InReserve \ {c}
    BY <2>1 DEF WithSlot, InReserve
  <2>7. IsFiniteSet(WithSlot') /\ Cardinality(WithSlot') = Cardinality(WithSlot) + 1
    BY <2>6, FS_AddElement
  <2>8. inFlight' \in 0 .. CallLimit /\ callAt' \in [Calls -> CallPoints]
    BY <1>1, <2>1, CallLimitAssumption DEF CallPoints
  <2> QED BY <2>1, <2>3, <2>4, <2>5, <2>6, <2>7, <2>8 DEF CallsInv
<1>2. CASE ~(inFlight < CallLimit /\ Head(queue) = c)
  <2>1. tickets' = queue /\ inFlight' = inFlight /\ callAt' = [callAt EXCEPT ![c] = "asleep"]
    BY <1>2 DEF Admit, CallGoes
  <2>2. WithSlot' = WithSlot /\ InReserve' = InReserve \cup {c}
    BY <2>1 DEF WithSlot, InReserve
  <2>3. callAt' \in [Calls -> CallPoints]
    BY <2>1 DEF CallPoints
  <2> QED BY <2>1, <2>2, <2>3 DEF CallsInv
<1> QED BY <1>1, <1>2

\* A queue that loses the ticket of c, wherever it is, keeps those of the others.
LEMMA TicketGoes ==
  ASSUME NEW queue \in Seq(Calls), NoneTwice(queue), NEW i \in 1 .. Len(queue)
  PROVE  /\ RemoveAt(queue, i) \in Seq(Calls) /\ NoneTwice(RemoveAt(queue, i))
         /\ TicketsOf(RemoveAt(queue, i)) = TicketsOf(queue) \ {queue[i]}
<1> DEFINE n == Len(queue)
           front == SubSeq(queue, 1, i - 1)
           back == SubSeq(queue, i + 1, n)
           rest == RemoveAt(queue, i)
<1>1. n \in Nat /\ i \in 1 .. n
  OBVIOUS
<1>2. /\ front \in Seq(Calls) /\ Len(front) = i - 1
      /\ \A k \in 1 .. i - 1 : front[k] = queue[k]
  <2>1. i - 1 \in Nat /\ \A k \in 1 .. i - 1 : queue[k] \in Calls
    BY <1>1
  <2> QED
    BY <2>1, <1>1
<1>3. /\ back \in Seq(Calls) /\ Len(back) = n - i
      /\ \A k \in 1 .. n - i : back[k] = queue[i + k]
  <2>1. \A k \in i + 1 .. n : queue[k] \in Calls
    BY <1>1
  <2> QED
    BY <2>1, <1>1
<1>4. rest = front \o back
  BY DEF RemoveAt
<1> HIDE DEF n, front, back, rest
<1>5. /\ rest \in Seq(Calls) /\ Len(rest) = n - 1
      /\ \A k \in 1 .. n - 1 :
           rest[k] = IF k <= i - 1 THEN front[k] ELSE back[k - (i - 1)]
  <2>1. front \in Seq(Calls) /\ back \in Seq(Calls)
    BY <1>2, <1>3
  <2>2. /\ rest \in Seq(Calls) /\ Len(rest) = Len(front) + Len(back)
        /\ \A k \in 1 .. Len(front) + Len(back) :
             rest[k] = IF k <= Len(front) THEN front[k] ELSE back[k - Len(front)]
    BY <1>4, <2>1, ConcatProperties
  <2>3. Len(front) = i - 1 /\ Len(front) + Len(back) = n - 1
    BY <1>1, <1>2, <1>3
  <2> QED
    BY <2>2, <2>3
<1>6. \A k \in 1 .. n - 1 : rest[k] = IF k < i THEN queue[k] ELSE queue[k + 1]
  <2> SUFFICES ASSUME NEW k \in 1 .. n - 1
               PROVE  rest[k] = IF k < i THEN queue[k] ELSE queue[k + 1]
    OBVIOUS
  <2>1. CASE k < i
    <3>1. k \in 1 .. i - 1 /\ rest[k] = front[k]
      BY <1>1, <1>5, <2>1
    <3> QED
      BY <1>2, <2>1, <3>1
  <2>2. CASE ~(k < i)
    <3>1. k - (i - 1) \in 1 .. n - i /\ i + (k - (i - 1)) = k + 1
      BY <1>1, <2>2
    <3>2. ~(k <= i - 1)
      BY <1>1, <2>2
    <3>3. rest[k] = back[k - (i - 1)]
      BY <1>5, <3>2
    <3> QED
      BY <1>3, <2>2, <3>1, <3>3
  <2> QED
    BY <2>1, <2>2
<1>7. NoneTwice(rest)
  BY <1>1, <1>5, <1>6 DEF NoneTwice, n
<1>8. ASSUME NEW x \in TicketsOf(rest) PROVE x \in TicketsOf(queue) /\ x # queue[i]
  <2>1. PICK k \in 1 .. n - 1 : x = rest[k]
    BY <1>5 DEF TicketsOf
  <2>2. PICK j \in 1 .. n : j # i /\ x = queue[j]
    BY <1>1, <1>6, <2>1
  <2> QED
    BY <1>1, <2>2 DEF TicketsOf, NoneTwice, n
<1>9. ASSUME NEW x \in TicketsOf(queue), x # queue[i] PROVE x \in TicketsOf(rest)
  <2>1. PICK j \in 1 .. n : x = queue[j]
    BY DEF TicketsOf, n
  <2>2. CASE j < i
    <3>1. j \in 1 .. n - 1 /\ rest[j] = x
      BY <1>1, <1>6, <2>1, <2>2
    <3> QED
      BY <1>5, <3>1 DEF TicketsOf
  <2>3. CASE j > i
    <3>1. j - 1 \in 1 .. n - 1 /\ rest[j - 1] = x
      BY <1>1, <1>6, <2>1, <2>3
    <3> QED
      BY <1>5, <3>1 DEF TicketsOf
  <2> QED
    BY <1>1, <1>9, <2>1, <2>2, <2>3
<1> QED
  BY <1>5, <1>7, <1>8, <1>9 DEF rest

\* Every step of calls keeps the invariant.
LEMMA CallsStepKeeps == CallsInv /\ [CallsNext]_callVars => CallsInv'
<1> SUFFICES ASSUME CallsInv, [CallsNext]_callVars PROVE CallsInv'
  OBVIOUS
<1>1. CASE UNCHANGED callVars
  BY <1>1 DEF callVars, CallsInv, WithSlot, InReserve
<1>2. ASSUME NEW c \in Calls, TakeTicket(c) PROVE CallsInv'
  <2> DEFINE queue == Append(tickets, c)
  <2>1. callAt[c] = "idle" /\ Admit(c, queue) /\ c \notin InReserve
    BY <1>2 DEF TakeTicket, InReserve
  <2>2. /\ queue \in Seq(Calls) /\ Len(queue) = Len(tickets) + 1 /\ queue[Len(queue)] = c
        /\ \A i \in 1 .. Len(tickets) : queue[i] = tickets[i]
    BY DEF CallsInv
  <2> HIDE DEF queue
  <2>3. \A i \in 1 .. Len(tickets) : tickets[i] # c
    BY <2>1 DEF CallsInv, TicketsOf
  <2>4. NoneTwice(queue)
    BY <2>2, <2>3 DEF NoneTwice, CallsInv
  <2>5. TicketsOf(queue) = TicketsOf(tickets) \cup {c}
    BY <2>2 DEF TicketsOf, CallsInv
  <2> QED BY <2>1, <2>2, <2>4, <2>5, AdmitKeeps DEF CallsInv
<1>3. ASSUME NEW c \in Calls, LookAgain(c) PROVE CallsInv'
  <2>1. callAt[c] = "woken" /\ Admit(c, tickets) /\ c \in InReserve
    BY <1>3 DEF LookAgain, InReserve
  <2> QED BY <2>1, AdmitKeeps DEF CallsInv
<1>4. ASSUME NEW c \in Calls, ReadResponse(c) PROVE CallsInv'
  <2>1. WithSlot' = WithSlot /\ InReserve' = InReserve /\ UNCHANGED <<tickets, inFlight>>
        /\ callAt' \in [Calls -> CallPoints]
    BY <1>4 DEF ReadResponse, CallGoes, WithSlot, InReserve, CallsInv, CallPoints
  <2> QED BY <2>1 DEF CallsInv
<1>5. ASSUME NEW c \in Calls, GiveBack(c) PROVE CallsInv'
  <2>1. /\ WithSlot' = WithSlot \ {c} /\ c \in WithSlot /\ InReserve' = InReserve
        /\ UNCHANGED tickets /\ inFlight' = inFlight - 1 /\ callAt' \in [Calls -> CallPoints]
    BY <1>5 DEF GiveBack, WakeOthers, WithSlot, InReserve, CallsInv, CallPoints
  <2>2. /\ IsFiniteSet(WithSlot') /\ Cardinality(WithSlot') = Cardinality(WithSlot) - 1
        /\ Cardinality(WithSlot') \in Nat
    BY <2>1, FS_RemoveElement, FS_CardinalityType DEF CallsInv
  <2>3. inFlight' \in 0 .. CallLimit
    BY <2>1, <2>2, CallLimitAssumption DEF CallsInv
  <2> QED BY <2>1, <2>2, <2>3 DEF CallsInv
<1>6. ASSUME NEW c \in Calls, LeaveQueue(c) PROVE CallsInv'
  <2>1. /\ WithSlot' = WithSlot /\ InReserve' = InReserve \ {c}
        /\ UNCHANGED inFlight /\ callAt' \in [Calls -> CallPoints]
    BY <1>6 DEF LeaveQueue, WakeOthers, WithSlot, InReserve, CallsInv, CallPoints
  <2>2. PICK i \in 1 .. Len(tickets) : tickets[i] = c /\ tickets' = RemoveAt(tickets, i)
    BY <1>6 DEF LeaveQueue
  <2> QED BY <2>1, <2>2, TicketGoes DEF CallsInv
<1> QED BY <1>1, <1>2, <1>3, <1>4, <1>5, <1>6 DEF CallsNext

\* Never more calls are open than the limit allows, and the count that says so is the
\* number of calls that hold a slot.
THEOREM CallsTyped == CallsSpec => []CallsTypeOK
<1>1. CallsSpec => []CallsInv
  BY CallsAtFirst, CallsStepKeeps, PTL DEF CallsSpec
<1>2. CallsInv => CallsTypeOK
  BY DEF CallsInv, CallsTypeOK, WithSlot, InReserve, TicketsOf
<1> QED BY <1>1, <1>2, PTL

-----------------------------------------------------------------------------
(* The composition.                                                        *)

\* A behaviour of the process is one of each part: the part it is about takes the steps
\* of its own next-state relation, and the others rest.
THEOREM ServiceParts == MCSpec => AccountsSpec /\ LimitsSpec /\ ReadySpec /\ CallsSpec
<1>1. MCInit => AccountsInit /\ LimitsInit /\ ReadyInit /\ CallsInit
  BY DEF MCInit
<1>2. [MCNext]_mcvars => /\ [AccountsNext]_accountVars /\ [LimitsNext]_limitVars
                         /\ [ReadyNext]_readyVars /\ [CallsNext]_callVars
  BY DEF MCNext, mcvars, Rest
<1> QED
  BY <1>1, <1>2, PTL DEF MCSpec, AccountsSpec, LimitsSpec, ReadySpec, CallsSpec

\* The variables of every part have their types, and what the type invariants say beyond
\* types: a session of one user, a count of the slots that calls hold.
THEOREM ServiceTyped == MCSpec => []ServiceTypeOK
<1>1. MCSpec => [](part \in Parts)
  <2>1. MCInit => part \in Parts
    BY DEF MCInit
  <2>2. part \in Parts /\ [MCNext]_mcvars => (part \in Parts)'
    BY DEF MCNext, mcvars
  <2> QED
    BY <2>1, <2>2, PTL DEF MCSpec
<1>2. /\ AccountsTypeOK /\ LimitsTypeOK /\ ReadyTypeOK /\ CallsTypeOK
      /\ part \in Parts
      => ServiceTypeOK
  BY PartsAssumption DEF ServiceTypeOK
<1>3. RInv => ReadyTypeOK
  BY DEF RInv
<1> QED
  BY <1>1, <1>2, <1>3, ServiceParts, AccountsTyped, LimitsTyped, ReadyInvariant, CallsTyped, PTL

=============================================================================
