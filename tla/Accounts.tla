------------------------------- MODULE Accounts -------------------------------
(***************************************************************************)
(* Accounts, sessions and registration invitations: the rows of users,     *)
(* auth_sessions and auth_registration_invites, the documents an account   *)
(* owns, and the requests of auth_service that read and write them.        *)
(*                                                                         *)
(* A request is one transaction.  Its statements are separate steps as far *)
(* as others can come in between: what it read without a lock (the user of *)
(* a login, the session of an authenticated request) may be old by the     *)
(* time it holds the lock of the row.  What it wrote is visible with its   *)
(* commit.  The rate limiter, which answers before any of this, is the     *)
(* module AttemptLimits.                                                   *)
(***************************************************************************)
EXTENDS Naturals, FiniteSets

CONSTANTS
  Users,       \* identities of user rows
  Emails,
  Passwords,
  Sessions,    \* identities of session rows, the jti of a token
  Invites,     \* registration invitations
  Files,       \* documents with a stored file
  Requests,    \* requests in flight
  NoUser, NoEmail, NoPassword, NoSession, NoInvite, NoFile,
  AdminUser,      \* runtime_settings_admin_user_id
  MaxSessions,    \* auth_max_active_sessions_per_user
  InviteRequired  \* values of registration_invite_required among the processes

ASSUME AccountNulls ==
  /\ NoUser \notin Users /\ NoEmail \notin Emails /\ NoPassword \notin Passwords
  /\ NoSession \notin Sessions /\ NoInvite \notin Invites /\ NoFile \notin Files
ASSUME AccountSizes ==
  MaxSessions \in Nat \ {0} /\ InviteRequired \subseteq BOOLEAN /\ IsFiniteSet(Sessions)

VARIABLES
  users,     \* [Users -> user row]; email NoEmail is a row that does not exist
  sessions,  \* [Sessions -> [user, expired]]; user NoUser is no row
  invites,   \* [Invites -> invitation row]
  owner,     \* [Files -> user of the document that has the file]
  queued,    \* files in the storage deletion outbox
  requests   \* [Requests -> transaction in progress]

accountVars == <<users, sessions, invites, owner, queued, requests>>

-----------------------------------------------------------------------------
NoUserRow == [email |-> NoEmail, pw |-> NoPassword, legacy |-> FALSE]
NoSessionRow == [user |-> NoUser, expired |-> FALSE]
NoInviteRow == [made |-> FALSE, used |-> FALSE, revoked |-> FALSE, expired |-> FALSE]

\* given is the password of the request, next the one it sets, legacy the hash format
\* it read, stale the sessions it has deleted and not yet committed; what a request does
\* not need stays NULL.
IdleRequest == [pc |-> "idle", user |-> NoUser, session |-> NoSession, email |-> NoEmail,
                given |-> NoPassword, next |-> NoPassword, legacy |-> FALSE,
                invite |-> NoInvite, file |-> NoFile, stale |-> {}]
Become(q, pc) == requests' = [requests EXCEPT ![q].pc = pc]
Leaves(q) == requests' = [requests EXCEPT ![q] = IdleRequest]
Begins(q, fields) == /\ requests[q].pc = "idle"
                     /\ requests' = [requests EXCEPT ![q] = fields]

IsUser(u) == u # NoUser /\ users[u].email # NoEmail
SessionsOf(u) == {s \in Sessions : sessions[s].user = u}

\* Row locks.  A request that granted, changes or deletes holds the row of its
\* user; one that registers holds its invitation from the first read.
HoldsUser(q, u) == /\ requests[q].user = u
                   /\ requests[q].pc \in {"granting", "granted", "changing", "changed",
                                          "deleting"}
HoldsInvite(q, i) == /\ requests[q].invite = i
                     /\ requests[q].pc \in {"invited", "inserted"}
UserLocked(u) == \E q \in Requests : HoldsUser(q, u)
InviteLocked(i) == \E q \in Requests : HoldsInvite(q, i)

\* uuid4: identifiers that neither a row nor a request mentions.
NewUser(u) == ~IsUser(u) /\ \A q \in Requests : requests[q].user # u
              /\ \A s \in Sessions : sessions[s].user # u
              /\ \A f \in Files : owner[f] # u
NewSession(s) == /\ sessions[s].user = NoUser
                 /\ \A q \in Requests : requests[q].session # s /\ s \notin requests[q].stale

\* authenticated_access: the token's session exists, has not expired and joins
\* its user.
Authenticated(s) == ~sessions[s].expired /\ IsUser(sessions[s].user)

-----------------------------------------------------------------------------
(* register                                                                *)

\* Mutant of UsableInvite: the revocation is not looked at.
UsableUnlessUsed(i) == invites[i].made /\ ~invites[i].used /\ ~invites[i].expired

\* _lock_valid_registration_invite, after its lock was granted.
UsableInvite(i) == /\ invites[i].made
                   /\ ~invites[i].used /\ ~invites[i].revoked /\ ~invites[i].expired

\* Mutant of LockInvite: SELECT without FOR UPDATE.
ReadInvite(q, i, e, p) ==
  /\ TRUE \in InviteRequired
  /\ UsableInvite(i)
  /\ Begins(q, [IdleRequest EXCEPT !.pc = "invited", !.invite = i, !.email = e, !.given = p])
  /\ UNCHANGED <<users, sessions, invites, owner, queued>>

\* An invitation is locked, then checked; a request that fails the check leaves
\* nothing behind, so only those that pass appear.
LockInvite(q, i, e, p) ==
  /\ TRUE \in InviteRequired
  /\ ~InviteLocked(i)
  /\ UsableInvite(i)
  /\ Begins(q, [IdleRequest EXCEPT !.pc = "invited", !.invite = i, !.email = e, !.given = p])
  /\ UNCHANGED <<users, sessions, invites, owner, queued>>

\* Registration without invitations, where the configuration does not ask for one.
BeginOpen(q, e, p) ==
  /\ FALSE \in InviteRequired
  /\ Begins(q, [IdleRequest EXCEPT !.pc = "invited", !.email = e, !.given = p])
  /\ UNCHANGED <<users, sessions, invites, owner, queued>>

\* The check of the email and the INSERT, which the unique constraint makes wait
\* for another uncommitted row of the email.  Either finds the email taken: the
\* transaction is rolled back and the invitation stays what it was.
InsertUser(q, u) ==
  LET e == requests[q].email IN
  /\ requests[q].pc = "invited"
  /\ IF \E v \in Users : users[v].email = e
     THEN Leaves(q)
     ELSE /\ ~\E p \in Requests : requests[p].pc = "inserted" /\ requests[p].email = e
          /\ NewUser(u)
          /\ requests' = [requests EXCEPT ![q].pc = "inserted", ![q].user = u]
  /\ UNCHANGED <<users, sessions, invites, owner, queued>>

\* Mutant of CommitRegister: the invitation is not marked.
CommitRegisterKeepsInvite(q, s) ==
  LET r == requests[q] IN
  /\ r.pc = "inserted"
  /\ NewSession(s)
  /\ users' = [users EXCEPT ![r.user] = [email |-> r.email, pw |-> r.given, legacy |-> FALSE]]
  /\ sessions' = [sessions EXCEPT ![s] = [user |-> r.user, expired |-> FALSE]]
  /\ Leaves(q)
  /\ UNCHANGED <<invites, owner, queued>>

\* User, first session and the mark on the invitation in one commit.
CommitRegister(q, s) ==
  LET r == requests[q] IN
  /\ r.pc = "inserted"
  /\ NewSession(s)
  /\ users' = [users EXCEPT ![r.user] = [email |-> r.email, pw |-> r.given, legacy |-> FALSE]]
  /\ sessions' = [sessions EXCEPT ![s] = [user |-> r.user, expired |-> FALSE]]
  /\ invites' = IF r.invite = NoInvite THEN invites
                ELSE [invites EXCEPT ![r.invite].used = TRUE]
  /\ Leaves(q)
  /\ UNCHANGED <<owner, queued>>

-----------------------------------------------------------------------------
(* login, change_password, delete_account                                  *)

\* login reads the user without a lock and verifies the password; a mismatch
\* ends in the limiter.
BeginLogin(q, u, p) ==
  /\ IsUser(u) /\ users[u].pw = p
  /\ Begins(q, [IdleRequest EXCEPT !.pc = "grant", !.user = u, !.given = p,
                                   !.legacy = users[u].legacy])
  /\ UNCHANGED <<users, sessions, invites, owner, queued>>

BeginChange(q, s, p, n) ==
  /\ Authenticated(s)
  /\ Begins(q, [IdleRequest EXCEPT !.pc = "change", !.user = sessions[s].user, !.session = s,
                                   !.given = p, !.next = n])
  /\ UNCHANGED <<users, sessions, invites, owner, queued>>

BeginDelete(q, s, p) ==
  /\ Authenticated(s)
  /\ Begins(q, [IdleRequest EXCEPT !.pc = "delete", !.user = sessions[s].user, !.session = s,
                                   !.given = p])
  /\ UNCHANGED <<users, sessions, invites, owner, queued>>

\* What a request may do once it has the lock.  A login does not look at the
\* password again; a change or a deletion reads the row with the lock.
MayGoOn(q) ==
  LET r == requests[q] IN
  /\ IsUser(r.user)
  /\ r.pc = "change" => users[r.user].pw = r.given /\ r.next # r.given
  /\ r.pc = "delete" => users[r.user].pw = r.given /\ r.user # AdminUser

\* Mutant of LockUser: the count of sessions without FOR UPDATE.
ReadUser(q) ==
  LET r == requests[q] IN
  /\ r.pc \in {"grant", "change", "delete"}
  /\ IF MayGoOn(q)
     THEN Become(q, CASE r.pc = "grant" -> "granting" [] r.pc = "change" -> "changing"
                      [] OTHER -> "deleting")
     ELSE Leaves(q)
  /\ UNCHANGED <<users, sessions, invites, owner, queued>>

\* SELECT ... FOR UPDATE of the user row.
LockUser(q) ==
  LET r == requests[q] IN
  /\ r.pc \in {"grant", "change", "delete"}
  /\ ~UserLocked(r.user)
  /\ IF MayGoOn(q)
     THEN Become(q, CASE r.pc = "grant" -> "granting" [] r.pc = "change" -> "changing"
                      [] OTHER -> "deleting")
     ELSE Leaves(q)
  /\ UNCHANGED <<users, sessions, invites, owner, queued>>

\* The sessions _issue_access_token leaves next to the new one.  Which ones goes
\* by created_at, the start of the transactions that made them.
Retained(u, kept) ==
  /\ kept \subseteq SessionsOf(u)
  /\ Cardinality(kept) =
       IF Cardinality(SessionsOf(u)) <= MaxSessions - 1
       THEN Cardinality(SessionsOf(u)) ELSE MaxSessions - 1

\* The DELETE of the sessions that are committed and not retained: all of them when the
\* password changes.  Others delete some of them at the same time, with the same outcome.
DeleteStale(q, kept) ==
  LET r == requests[q] IN
  /\ \/ r.pc = "granting" /\ Retained(r.user, kept)
     \/ r.pc = "changing" /\ kept = {}
  /\ requests' = [requests EXCEPT ![q].pc = IF r.pc = "granting" THEN "granted" ELSE "changed",
                                  ![q].stale = SessionsOf(r.user) \ kept]
  /\ UNCHANGED <<users, sessions, invites, owner, queued>>

\* The new session of the request, in place of those it has deleted.
Issue(q, s) ==
  sessions' = [t \in Sessions |->
                 CASE t = s -> [user |-> requests[q].user, expired |-> FALSE]
                   [] t # s /\ t \in requests[q].stale -> NoSessionRow
                   [] OTHER -> sessions[t]]

\* The commit of a login also writes the hash it made of the given password when
\* the hash it had read was of an older format.
CommitLogin(q, s) ==
  LET r == requests[q] IN
  /\ r.pc = "granted"
  /\ NewSession(s)
  /\ Issue(q, s)
  /\ users' = IF r.legacy
              THEN [users EXCEPT ![r.user].pw = r.given, ![r.user].legacy = FALSE]
              ELSE users
  /\ Leaves(q)
  /\ UNCHANGED <<invites, owner, queued>>

\* Every session goes, the current one too; one is issued.
CommitChange(q, s) ==
  LET r == requests[q] IN
  /\ r.pc = "changed"
  /\ NewSession(s)
  /\ Issue(q, s)
  /\ users' = [users EXCEPT ![r.user].pw = r.next, ![r.user].legacy = FALSE]
  /\ Leaves(q)
  /\ UNCHANGED <<invites, owner, queued>>

\* Mutant of CommitDelete: the files are not queued.
CommitDeleteForgetsFiles(q) ==
  LET u == requests[q].user IN
  /\ requests[q].pc = "deleting"
  /\ owner' = [f \in Files |-> IF owner[f] = u THEN NoUser ELSE owner[f]]
  /\ sessions' = [s \in Sessions |-> IF sessions[s].user = u THEN NoSessionRow ELSE sessions[s]]
  /\ users' = [users EXCEPT ![u] = NoUserRow]
  /\ Leaves(q)
  /\ UNCHANGED <<invites, queued>>

\* Documents with their dependants, the files into the outbox, the user, and by
\* cascade the sessions.
CommitDelete(q) ==
  LET u == requests[q].user IN
  /\ requests[q].pc = "deleting"
  /\ queued' = queued \cup {f \in Files : owner[f] = u}
  /\ owner' = [f \in Files |-> IF owner[f] = u THEN NoUser ELSE owner[f]]
  /\ sessions' = [s \in Sessions |-> IF sessions[s].user = u THEN NoSessionRow ELSE sessions[s]]
  /\ users' = [users EXCEPT ![u] = NoUserRow]
  /\ Leaves(q)
  /\ UNCHANGED invites

-----------------------------------------------------------------------------
(* logout, logout_all, revoke_session: authenticated, then one statement.  *)

BeginSessionRequest(q, s, pc) ==
  /\ Authenticated(s)
  /\ Begins(q, [IdleRequest EXCEPT !.pc = pc, !.user = sessions[s].user, !.session = s])
  /\ UNCHANGED <<users, sessions, invites, owner, queued>>

RemoveSessions(q, removed) ==
  /\ sessions' = [s \in Sessions |-> IF s \in removed THEN NoSessionRow ELSE sessions[s]]
  /\ Leaves(q)
  /\ UNCHANGED <<users, invites, owner, queued>>

Logout(q) == /\ requests[q].pc = "logout"
             /\ RemoveSessions(q, {requests[q].session} \cap SessionsOf(requests[q].user))
LogoutAll(q) == /\ requests[q].pc = "logoutAll"
                /\ RemoveSessions(q, SessionsOf(requests[q].user))
RevokeSession(q, s) == /\ requests[q].pc = "revoke"
                       /\ RemoveSessions(q, {s} \cap SessionsOf(requests[q].user))

-----------------------------------------------------------------------------
(* Documents of an account, external to the accounts.                      *)

BeginUpload(q, s, f) ==
  /\ Authenticated(s)
  /\ owner[f] = NoUser /\ f \notin queued
  /\ \A p \in Requests : requests[p].file # f
  /\ Begins(q, [IdleRequest EXCEPT !.pc = "upload", !.user = sessions[s].user, !.file = f])
  /\ UNCHANGED <<users, sessions, invites, owner, queued>>

\* Mutant of InsertDocument: no foreign key between documents and users.
InsertDocumentUnchecked(q) ==
  /\ requests[q].pc = "upload"
  /\ owner' = [owner EXCEPT ![requests[q].file] = requests[q].user]
  /\ Leaves(q)
  /\ UNCHANGED <<users, sessions, invites, queued>>

\* The foreign key makes the INSERT wait for whoever holds the user's row, and
\* fail when the row went; the upload then takes its file back.
InsertDocument(q) ==
  LET r == requests[q] IN
  /\ r.pc = "upload"
  /\ ~UserLocked(r.user)
  /\ owner' = IF IsUser(r.user) THEN [owner EXCEPT ![r.file] = r.user] ELSE owner
  /\ Leaves(q)
  /\ UNCHANGED <<users, sessions, invites, queued>>

\* The outbox is worked off: module StorageOutbox.
FileRemoved(f) ==
  /\ f \in queued
  /\ queued' = queued \ {f}
  /\ UNCHANGED <<users, sessions, invites, owner, requests>>

-----------------------------------------------------------------------------
(* The administrator, time and the maintenance sweep.                      *)

\* create_registration_invite: a row with a validity that is positive.
CreateInvite(i) ==
  /\ ~invites[i].made
  /\ invites' = [invites EXCEPT ![i].made = TRUE]
  /\ UNCHANGED <<users, sessions, owner, queued, requests>>

\* Mutant of RevokeInvite: the row is not locked.
RevokeInviteUnlocked(i) ==
  /\ UsableInvite(i)
  /\ invites' = [invites EXCEPT ![i].revoked = TRUE]
  /\ UNCHANGED <<users, sessions, owner, queued, requests>>

\* Locks the row; a used or expired invitation is not revocable and a revoked one
\* is left as it is.
RevokeInvite(i) ==
  /\ ~InviteLocked(i)
  /\ UsableInvite(i)
  /\ invites' = [invites EXCEPT ![i].revoked = TRUE]
  /\ UNCHANGED <<users, sessions, owner, queued, requests>>

ExpireInvite(i) ==
  /\ invites[i].made /\ ~invites[i].expired
  /\ invites' = [invites EXCEPT ![i].expired = TRUE]
  /\ UNCHANGED <<users, sessions, owner, queued, requests>>

ExpireSession(s) ==
  /\ sessions[s].user # NoUser /\ ~sessions[s].expired
  /\ sessions' = [sessions EXCEPT ![s].expired = TRUE]
  /\ UNCHANGED <<users, invites, owner, queued, requests>>

\* purge_expired_data, sessions; rows locked by others are skipped.
PurgeSession(s) ==
  /\ sessions[s].user # NoUser /\ sessions[s].expired
  /\ sessions' = [sessions EXCEPT ![s] = NoSessionRow]
  /\ UNCHANGED <<users, invites, owner, queued, requests>>

\* A lost connection, a statement timeout, the victim of a deadlock: rollback.
Rollback(q) ==
  /\ requests[q].pc # "idle"
  /\ Leaves(q)
  /\ UNCHANGED <<users, sessions, invites, owner, queued>>

-----------------------------------------------------------------------------
\* Accounts whose hash is of the older format, without a session.
AccountsInit ==
  /\ users \in [Users -> {NoUserRow} \cup [email : Emails, pw : Passwords, legacy : {TRUE}]]
  /\ \A u, v \in Users : u # v /\ users[u].email = users[v].email => users[u].email = NoEmail
  /\ sessions = [s \in Sessions |-> NoSessionRow]
  /\ invites = [i \in Invites |-> NoInviteRow]
  /\ owner = [f \in Files |-> NoUser]
  /\ queued = {}
  /\ requests = [q \in Requests |-> IdleRequest]

RequestStep(q) ==
  \/ \E i \in Invites, e \in Emails, p \in Passwords : LockInvite(q, i, e, p)
  \/ \E e \in Emails, p \in Passwords : BeginOpen(q, e, p)
  \/ \E u \in Users : InsertUser(q, u)
  \/ \E s \in Sessions : \/ CommitRegister(q, s) \/ CommitLogin(q, s) \/ CommitChange(q, s)
                         \/ RevokeSession(q, s)
  \/ \E u \in Users, p \in Passwords : BeginLogin(q, u, p)
  \/ \E s \in Sessions, p, n \in Passwords : BeginChange(q, s, p, n)
  \/ \E s \in Sessions, p \in Passwords : BeginDelete(q, s, p)
  \/ \E kept \in SUBSET Sessions : DeleteStale(q, kept)
  \/ \E s \in Sessions, pc \in {"logout", "logoutAll", "revoke"} : BeginSessionRequest(q, s, pc)
  \/ \E s \in Sessions, f \in Files : BeginUpload(q, s, f)
  \/ LockUser(q) \/ CommitDelete(q) \/ Logout(q) \/ LogoutAll(q) \/ InsertDocument(q)
  \/ Rollback(q)

AccountsNext ==
  \/ \E q \in Requests : RequestStep(q)
  \/ \E i \in Invites : CreateInvite(i) \/ RevokeInvite(i) \/ ExpireInvite(i)
  \/ \E s \in Sessions : ExpireSession(s) \/ PurgeSession(s)
  \/ \E f \in Files : FileRemoved(f)

AccountsSpec == AccountsInit /\ [][AccountsNext]_accountVars

-----------------------------------------------------------------------------
(* Properties.                                                             *)

RequestPoints == {"idle", "invited", "inserted", "grant", "granting", "granted", "change",
                  "changing", "changed", "delete", "deleting", "logout", "logoutAll", "revoke",
                  "upload"}

\* Types of every variable; a session and a document belong to a user who exists.
AccountsTypeOK ==
  /\ users \in [Users -> [email : Emails \cup {NoEmail}, pw : Passwords \cup {NoPassword},
                          legacy : BOOLEAN]]
  /\ sessions \in [Sessions -> [user : Users \cup {NoUser}, expired : BOOLEAN]]
  /\ invites \in [Invites -> [made : BOOLEAN, used : BOOLEAN, revoked : BOOLEAN,
                              expired : BOOLEAN]]
  /\ owner \in [Files -> Users \cup {NoUser}]
  /\ queued \in SUBSET Files
  /\ requests \in [Requests ->
       [pc : RequestPoints, user : Users \cup {NoUser}, session : Sessions \cup {NoSession},
        email : Emails \cup {NoEmail}, given : Passwords \cup {NoPassword},
        next : Passwords \cup {NoPassword}, legacy : BOOLEAN,
        invite : Invites \cup {NoInvite}, file : Files \cup {NoFile},
        stale : SUBSET Sessions]]
  /\ \A s \in Sessions : sessions[s].user # NoUser => IsUser(sessions[s].user)
  /\ \A f \in Files : owner[f] # NoUser => IsUser(owner[f])

\* Request q commits its registration in this step.
Registers(q) == /\ requests[q].pc = "inserted"
                /\ users'[requests[q].user] # users[requests[q].user]

\* An invitation admits one account: it is not used or revoked when a registration
\* that presented it commits, whatever happened since it was checked, and that
\* commit, no other step, uses it up.
InviteAdmitsOnce ==
  [][/\ \A q \in Requests : LET i == requests[q].invite IN
          Registers(q) /\ i # NoInvite
            => ~invites[i].used /\ ~invites[i].revoked /\ invites'[i].used
     /\ \A i \in Invites : invites'[i].used # invites[i].used
            => \E q \in Requests : Registers(q) /\ requests[q].invite = i]_accountVars

\* However many logins and changes of the password run at once, an account has no more
\* sessions than the limit: each counts only what is committed, and it is the lock of the
\* user's row, taken before the count and held until the commit, that makes this enough.
SessionsBounded == \A u \in Users : Cardinality(SessionsOf(u)) <= MaxSessions

\* A deleted account leaves nothing that is still owned, and none of its files
\* is forgotten: a document goes with its account only into the outbox.
AccountLeavesNothing ==
  [][/\ \A f \in Files : owner[f] # NoUser /\ owner'[f] # owner[f] => f \in queued'
     /\ \A u \in Users : users'[u].email = NoEmail
          => /\ \A f \in Files : owner'[f] # u
             /\ \A s \in Sessions : sessions'[s].user # u]_accountVars

=============================================================================
