---------------------------- MODULE AttemptLimits ----------------------------
(***************************************************************************)
(* The rate limits of log-in, registration and AI requests: one counter    *)
(* row per scope in auth_login_attempts, written by upserts of concurrent  *)
(* transactions and swept by the maintenance.                              *)
(*                                                                         *)
(* Time is what PostgreSQL's now() says, the start of a transaction: a     *)
(* request works with the time at which it began, while others may have    *)
(* written the row with a later one.  An upsert waits for the row and then *)
(* applies to its latest version, and the attempts of one record() are locked  *)
(* until its commit: record() is one step.                                 *)
(***************************************************************************)
EXTENDS Integers, FiniteSets

CONSTANTS
  AccountScopes, ClientScopes,  \* scopes of failed log-ins
  QuotaScopes,                  \* registrations of a client, AI requests of a user
  Tries,                        \* requests in flight
  AccountFailures, ClientFailures, QuotaRequests,  \* the policies' maxima
  LimitWindow, Lockout,              \* window_seconds and lockout_seconds
  Retention,                    \* what the sweep uses for every scope
  MaxLag,                       \* bound on the age of a transaction
  MaxTime                       \* bound on the clock

LimitScopes == AccountScopes \cup ClientScopes \cup QuotaScopes
Unblocked == -1  \* blocked_until is NULL

ASSUME LimitKinds ==
  /\ AccountScopes \cap ClientScopes = {} /\ QuotaScopes \cap (AccountScopes \cup ClientScopes) = {}
ASSUME LimitNumbers ==
  /\ AccountFailures \in Nat \ {0} /\ ClientFailures \in Nat \ {0} /\ QuotaRequests \in Nat \ {0}
  /\ LimitWindow \in Nat \ {0} /\ Lockout \in Nat \ {0} /\ Retention \in Nat
  /\ MaxLag \in Nat /\ MaxTime \in Nat
\* The configuration refuses a retention below window and lockout; that it also
\* covers the age of a transaction is what a day against 15 minutes is for.
ASSUME RetentionCovers == Retention >= Lockout + MaxLag

VARIABLES
  time,
  attempts,   \* [LimitScopes -> counter row]; n = 0 is no row
  tries   \* [Tries -> request in flight]

limitVars == <<time, attempts, tries>>

-----------------------------------------------------------------------------
NoAttempt == [n |-> 0, window |-> 0, until |-> Unblocked, updated |-> 0]
IdleTry == [pc |-> "idle", scopes |-> {}, now |-> 0]
RowBusy(q) == tries[q].pc # "idle"

\* block_threshold of a scope's rule: the first N requests of a quota are allowed.
Threshold(s) == CASE s \in AccountScopes -> AccountFailures
                  [] s \in ClientScopes -> ClientFailures
                  [] OTHER -> QuotaRequests + 1

\* blocked_until in the eyes of a transaction.
BlockedAt(row, now) == row.until > now

\* Mutant of Upsert: an attempt during a block starts the lockout anew.
UpsertExtends(s, now) ==
  LET row == attempts[s]
      expired == row.n = 0 \/ row.window <= now - LimitWindow
      n == IF expired THEN 1 ELSE row.n + 1
  IN  [n |-> n,
       window |-> IF expired THEN now ELSE row.window,
       until |-> IF n >= Threshold(s) THEN now + Lockout ELSE Unblocked,
       updated |-> now]

\* Mutant of Upsert: the count must exceed the threshold of a window it did not begin.
UpsertLate(s, now) ==
  LET row == attempts[s]
      expired == row.n = 0 \/ row.window <= now - LimitWindow
      n == IF expired THEN 1 ELSE row.n + 1
  IN  IF BlockedAt(row, now)
      THEN [row EXCEPT !.updated = now]
      ELSE [n |-> n,
            window |-> IF expired THEN now ELSE row.window,
            until |-> IF n > Threshold(s) THEN now + Lockout ELSE Unblocked,
            updated |-> now]

\* INSERT ... ON CONFLICT DO UPDATE: an active block keeps everything but
\* updated_at, an expired window begins again, else the count goes up.
Upsert(s, now) ==
  LET row == attempts[s]
      expired == row.n = 0 \/ row.window <= now - LimitWindow
      n == IF expired THEN 1 ELSE row.n + 1
  IN  IF BlockedAt(row, now)
      THEN [row EXCEPT !.updated = now]
      ELSE [n |-> n,
            window |-> IF expired THEN now ELSE row.window,
            until |-> IF n >= Threshold(s) THEN now + Lockout ELSE Unblocked,
            updated |-> now]

-----------------------------------------------------------------------------
\* login, change_password and delete_account begin a transaction ...  A request that has
\* no client address has the scope of its account alone.
BeginTry(q, account, clients) ==
  /\ ~RowBusy(q)
  /\ tries' = [tries EXCEPT ![q] = [pc |-> "check", scopes |-> {account} \cup clients,
                                    now |-> time]]
  /\ UNCHANGED <<time, attempts>>

\* ... and look at the scopes of the account and of the client before they read
\* the user and verify the password.
CheckRetryAfter(q) ==
  LET try == tries[q] IN
  /\ try.pc = "check"
  /\ tries' = [tries EXCEPT ![q] =
                 IF \E s \in try.scopes : BlockedAt(attempts[s], try.now)
                 THEN IdleTry ELSE [try EXCEPT !.pc = "verify"]]
  /\ UNCHANGED <<time, attempts>>

\* A wrong password counts in every scope.
RecordFailure(q) ==
  LET try == tries[q] IN
  /\ try.pc = "verify"
  /\ attempts' = [s \in LimitScopes |-> IF s \in try.scopes THEN Upsert(s, try.now) ELSE attempts[s]]
  /\ tries' = [tries EXCEPT ![q] = IdleTry]
  /\ UNCHANGED time

\* Mutant of ClearAccountFailures: the client's scope is cleared too.
ClearAllFailures(q) ==
  LET try == tries[q] IN
  /\ try.pc = "verify"
  /\ attempts' = [s \in LimitScopes |-> IF s \in try.scopes THEN NoAttempt ELSE attempts[s]]
  /\ tries' = [tries EXCEPT ![q] = IdleTry]
  /\ UNCHANGED time

\* Success clears the account's scope alone, with the commit of the request.
ClearAccountFailures(q) ==
  LET try == tries[q] IN
  /\ try.pc = "verify"
  /\ attempts' = [s \in LimitScopes |-> IF s \in try.scopes \cap AccountScopes THEN NoAttempt ELSE attempts[s]]
  /\ tries' = [tries EXCEPT ![q] = IdleTry]
  /\ UNCHANGED time

\* consume() of registration and AI requests: recorded at once, in a transaction
\* that authentication may have begun a while ago.
BeginConsume(q, s) ==
  /\ ~RowBusy(q)
  /\ tries' = [tries EXCEPT ![q] = [pc |-> "consume", scopes |-> {s}, now |-> time]]
  /\ UNCHANGED <<time, attempts>>

Consume(q) ==
  LET try == tries[q] IN
  /\ try.pc = "consume"
  /\ attempts' = [s \in LimitScopes |-> IF s \in try.scopes THEN Upsert(s, try.now) ELSE attempts[s]]
  /\ tries' = [tries EXCEPT ![q] = IdleTry]
  /\ UNCHANGED time

GiveUp(q) ==
  /\ RowBusy(q)
  /\ tries' = [tries EXCEPT ![q] = IdleTry]
  /\ UNCHANGED <<time, attempts>>

\* Mutant of PurgeAttempts: by the window instead of the retention.
PurgeByWindow(s) ==
  /\ attempts[s].n > 0 /\ attempts[s].window < time - LimitWindow
  /\ attempts' = [attempts EXCEPT ![s] = NoAttempt]
  /\ UNCHANGED <<time, tries>>

\* purge_expired_data: attempts that nobody updated for the retention.
PurgeAttempts(s) ==
  /\ attempts[s].n > 0 /\ attempts[s].updated < time - Retention
  /\ attempts' = [attempts EXCEPT ![s] = NoAttempt]
  /\ UNCHANGED <<time, tries>>

\* Statement timeouts keep a transaction from growing older than MaxLag.
TimePasses ==
  /\ time < MaxTime
  /\ \A q \in Tries : RowBusy(q) => time < tries[q].now + MaxLag
  /\ time' = time + 1
  /\ UNCHANGED <<attempts, tries>>

-----------------------------------------------------------------------------
LimitsInit == /\ time = 0
              /\ attempts = [s \in LimitScopes |-> NoAttempt]
              /\ tries = [q \in Tries |-> IdleTry]

LimitsNext ==
  \/ \E q \in Tries :
       \/ \E a \in AccountScopes, cs \in {{}} \cup {{c} : c \in ClientScopes} : BeginTry(q, a, cs)
       \/ \E s \in QuotaScopes : BeginConsume(q, s)
       \/ CheckRetryAfter(q) \/ RecordFailure(q) \/ ClearAccountFailures(q) \/ Consume(q)
       \/ GiveUp(q)
  \/ \E s \in LimitScopes : PurgeAttempts(s)
  \/ TimePasses

LimitsSpec == LimitsInit /\ [][LimitsNext]_limitVars

-----------------------------------------------------------------------------
(* Properties.                                                             *)

\* Types of every variable.
LimitsTypeOK ==
  /\ time \in 0 .. MaxTime
  /\ attempts \in [LimitScopes -> [n : Nat, window : 0 .. MaxTime,
                          until : {Unblocked} \cup 0 .. MaxTime + Lockout, updated : 0 .. MaxTime]]
  /\ tries \in [Tries -> [pc : {"idle", "check", "verify", "consume"},
                          scopes : SUBSET LimitScopes, now : 0 .. MaxTime]]

\* A scope whose count reached its threshold carries a block: no interleaving of
\* late transactions and expired windows lets it count on without one.
CountMeansBlock == \A s \in LimitScopes : attempts[s].n >= Threshold(s) => attempts[s].until # Unblocked

\* A block that is in force ends when it said it would: neither more attempts nor
\* transactions that began before it nor the sweep shorten, extend or remove it.
\* A success removes it, for the account it succeeded for.
BlockHolds ==
  [][\A s \in LimitScopes :
       attempts[s].until > time /\ attempts'[s].until # attempts[s].until
       => /\ s \in AccountScopes
          /\ \E q \in Tries : tries[q].pc = "verify" /\ s \in tries[q].scopes /\ tries'[q] = IdleTry
          /\ attempts'[s] = NoAttempt]_limitVars

=============================================================================
