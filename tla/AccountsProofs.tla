------------------------------ MODULE AccountsProofs ------------------------------
(***************************************************************************)
(* Accounts, for any number of requests at once: sessions stay within the  *)
(* limit, an invitation admits one account, and a deleted account leaves   *)
(* nothing.                                                                *)
(*                                                                         *)
(* The argument is who holds which row.  Two requests never hold the same  *)
(* user or the same invitation, so what one has checked under its lock,    *)
(* that the user exists and the invitation is usable, is still so when it  *)
(* commits, although it is not looked at again; and a user that is being   *)
(* registered is nobody else's.  So too with the count of sessions: what a *)
(* login has not deleted leaves room for one more until it commits, for    *)
(* nobody else can add a session to the user in between.                   *)
(***************************************************************************)
EXTENDS Accounts, FiniteSetTheorems, TLAPS

UserRecord == [email : Emails \cup {NoEmail}, pw : Passwords \cup {NoPassword}, legacy : BOOLEAN]
SessionRecord == [user : Users \cup {NoUser}, expired : BOOLEAN]
InviteRecord == [made : BOOLEAN, used : BOOLEAN, revoked : BOOLEAN, expired : BOOLEAN]
RequestRecord ==
  [pc : RequestPoints, user : Users \cup {NoUser}, session : Sessions \cup {NoSession},
   email : Emails \cup {NoEmail}, given : Passwords \cup {NoPassword},
   next : Passwords \cup {NoPassword}, legacy : BOOLEAN,
   invite : Invites \cup {NoInvite}, file : Files \cup {NoFile}, stale : SUBSET Sessions]

Holding == {"granting", "granted", "changing", "changed", "deleting"}
Counted == {"granted", "changed"}
Registering == {"invited", "inserted"}

\* The rows: their foreign keys, and the limit of sessions.
RowsFit(us, ss, is, os, qs) ==
  /\ us \in [Users -> UserRecord] /\ ss \in [Sessions -> SessionRecord]
  /\ is \in [Invites -> InviteRecord] /\ os \in [Files -> Users \cup {NoUser}]
  /\ qs \in SUBSET Files
  /\ \A s \in Sessions : ss[s].user # NoUser => us[ss[s].user].email # NoEmail
  /\ \A f \in Files : os[f] # NoUser => us[os[f]].email # NoEmail
  /\ \A u \in Users : Cardinality({s \in Sessions : ss[s].user = u}) <= MaxSessions

\* What a request may rely on.
RequestFits(r, us, is, os) ==
  /\ r.pc \in Holding => r.user \in Users /\ us[r.user].email # NoEmail
  /\ r.pc \in Registering =>
       /\ r.email \in Emails
       /\ r.invite # NoInvite => ~is[r.invite].used /\ ~is[r.invite].revoked
  /\ r.pc = "inserted" => r.user \in Users /\ us[r.user].email = NoEmail
  /\ r.pc = "upload" => r.file \in Files /\ os[r.file] = NoUser

\* What it has counted and not deleted leaves room for the session it will issue.
HasRoom(r, ss) ==
  r.pc \in Counted =>
    Cardinality({s \in Sessions : ss[s].user = r.user} \ r.stale) <= MaxSessions - 1

\* Two requests do not stand in each other's way.
Apart(a, b) ==
  /\ a.pc \in Holding /\ b.pc \in Holding => a.user # b.user
  /\ a.pc \in Registering /\ b.pc \in Registering /\ a.invite # NoInvite => a.invite # b.invite
  /\ a.pc = "inserted" => a.user # b.user
  /\ a.pc = "upload" /\ b.pc = "upload" => a.file # b.file

AInv ==
  /\ RowsFit(users, sessions, invites, owner, queued)
  /\ requests \in [Requests -> RequestRecord]
  /\ \A q \in Requests : RequestFits(requests[q], users, invites, owner)
  /\ \A q \in Requests : HasRoom(requests[q], sessions)
  /\ \A p, q \in Requests : p # q => Apart(requests[p], requests[q])

-----------------------------------------------------------------------------
LEMMA IdleFits ==
  /\ IdleRequest \in RequestRecord /\ IdleRequest.pc = "idle" /\ IdleRequest.user = NoUser
  /\ IdleRequest.session = NoSession /\ IdleRequest.email = NoEmail
  /\ IdleRequest.invite = NoInvite /\ IdleRequest.file = NoFile
BY DEF IdleRequest, RequestRecord, RequestPoints

LEMMA AccountsAtFirst == AccountsInit => AInv
<1> SUFFICES ASSUME AccountsInit PROVE AInv
  OBVIOUS
<1>1. users \in [Users -> UserRecord]
  <2>1. NoUserRow \in UserRecord
    BY DEF NoUserRow, UserRecord
  <2>2. [email : Emails, pw : Passwords, legacy : {TRUE}] \subseteq UserRecord
    BY DEF UserRecord
  <2> QED
    BY <2>1, <2>2 DEF AccountsInit
<1>2. sessions \in [Sessions -> SessionRecord] /\ \A s \in Sessions : sessions[s].user = NoUser
  BY DEF AccountsInit, NoSessionRow, SessionRecord
<1>3. invites \in [Invites -> InviteRecord]
  BY DEF AccountsInit, NoInviteRow, InviteRecord
<1>4. ASSUME NEW u \in Users PROVE Cardinality({s \in Sessions : sessions[s].user = u}) <= MaxSessions
  <2>1. {s \in Sessions : sessions[s].user = u} = {}
    BY <1>2, AccountNulls
  <2> QED
    BY <2>1, FS_EmptySet, AccountSizes
<1>5. requests \in [Requests -> RequestRecord] /\ \A q \in Requests : requests[q].pc = "idle"
  BY IdleFits DEF AccountsInit
<1>6. owner \in [Files -> Users \cup {NoUser}] /\ (\A f \in Files : owner[f] = NoUser)
      /\ queued \in SUBSET Files
  BY DEF AccountsInit
<1> QED
  BY <1>1, <1>2, <1>3, <1>4, <1>5, <1>6
  DEF AInv, RowsFit, RequestFits, HasRoom, Apart, Holding, Counted, Registering

-----------------------------------------------------------------------------
(* What a step changes: the record of one request, and rows.               *)

LEMMA RequestMoves ==
  ASSUME AInv, NEW q \in Requests, NEW r \in RequestRecord,
         requests' = [requests EXCEPT ![q] = r],
         RowsFit(users', sessions', invites', owner', queued'),
         RequestFits(r, users', invites', owner'), HasRoom(r, sessions'),
         \A p \in Requests \ {q} : /\ RequestFits(requests[p], users', invites', owner')
                                   /\ HasRoom(requests[p], sessions')
                                   /\ Apart(r, requests[p]) /\ Apart(requests[p], r)
  PROVE  AInv'
<1>1. requests' \in [Requests -> RequestRecord] /\ requests'[q] = r
      /\ \A p \in Requests \ {q} : requests'[p] = requests[p]
  BY DEF AInv
<1>2. \A p \in Requests : /\ RequestFits(requests'[p], users', invites', owner')
                          /\ HasRoom(requests'[p], sessions')
  BY <1>1
<1>3. \A p, o \in Requests : p # o => Apart(requests'[p], requests'[o])
  BY <1>1 DEF AInv
<1>4. RowsFit(users, sessions, invites, owner, queued)'
  BY DEF RowsFit, UserRecord, SessionRecord, InviteRecord
<1>5. \A p \in Requests : RequestFits(requests[p], users, invites, owner)'
  BY <1>2 DEF RequestFits, Holding, Registering
<1>6. \A p, o \in Requests : p # o => Apart(requests[p], requests[o])'
  BY <1>3 DEF Apart, Holding, Registering
<1>7. \A p \in Requests : HasRoom(requests[p], sessions)'
  BY <1>2 DEF HasRoom, Counted
<1> QED
  BY <1>1, <1>4, <1>5, <1>6, <1>7 DEF AInv, RequestRecord, RequestPoints

\* A request that begins, or goes on, touches no row.
LEMMA RowsStay == AInv /\ UNCHANGED <<users, sessions, invites, owner, queued>> =>
  /\ RowsFit(users', sessions', invites', owner', queued')
  /\ \A q \in Requests : /\ RequestFits(requests[q], users', invites', owner')
                          /\ HasRoom(requests[q], sessions')
BY DEF AInv

\* No session comes for the user of a request, so there is still room.
LEMMA RoomStays ==
  ASSUME AInv, NEW p \in Requests, NEW ss,
         requests[p].pc \in Counted =>
           \A s \in Sessions : ss[s].user = requests[p].user => sessions[s].user = requests[p].user
  PROVE  HasRoom(requests[p], ss)
<1> SUFFICES ASSUME requests[p].pc \in Counted
             PROVE  Cardinality({s \in Sessions : ss[s].user = requests[p].user} \ requests[p].stale)
                      <= MaxSessions - 1
  BY DEF HasRoom
<1> DEFINE S == {s \in Sessions : sessions[s].user = requests[p].user} \ requests[p].stale
           T == {s \in Sessions : ss[s].user = requests[p].user} \ requests[p].stale
<1>1. T \subseteq S /\ S \subseteq Sessions
  OBVIOUS
<1>2. Cardinality(S) <= MaxSessions - 1
  BY DEF AInv, HasRoom
<1> HIDE DEF S, T
<1>3. IsFiniteSet(S)
  BY <1>1, AccountSizes, FS_Subset
<1>4. Cardinality(T) <= Cardinality(S) /\ Cardinality(T) \in Nat /\ Cardinality(S) \in Nat
  BY <1>1, <1>3, FS_Subset, FS_CardinalityType
<1>5. Cardinality(T) <= MaxSessions - 1
  BY <1>2, <1>4, AccountSizes
<1> QED
  BY <1>5 DEF T

\* Sessions that only go.
LEMMA RoomGrows ==
  ASSUME AInv, NEW p \in Requests, NEW ss,
         \A s \in Sessions : ss[s].user \in {sessions[s].user, NoUser}
  PROVE  HasRoom(requests[p], ss)
<1>1. requests[p].pc \in Counted => requests[p].user # NoUser
  BY AccountNulls DEF AInv, RequestFits, Counted, Holding
<1> QED
  BY <1>1, RoomStays

\* A request ends: what remains is that the rows fit.
LEMMA RequestLeaves ==
  ASSUME AInv, NEW q \in Requests, Leaves(q),
         RowsFit(users', sessions', invites', owner', queued'),
         \A p \in Requests \ {q} : /\ RequestFits(requests[p], users', invites', owner')
                                   /\ HasRoom(requests[p], sessions')
  PROVE  AInv'
<1>1. RequestFits(IdleRequest, users', invites', owner') /\ HasRoom(IdleRequest, sessions')
  BY IdleFits DEF RequestFits, HasRoom, Holding, Counted, Registering
<1>2. ASSUME NEW p \in Requests PROVE Apart(IdleRequest, requests[p]) /\ Apart(requests[p], IdleRequest)
  BY IdleFits, AccountNulls DEF Apart, Holding, Registering, AInv, RequestFits
<1> QED
  BY <1>1, <1>2, IdleFits, RequestMoves DEF Leaves

\* Sessions go, and no row comes: the limit and the foreign keys stay true.
LEMMA FewerSessions ==
  ASSUME AInv, NEW ss \in [Sessions -> SessionRecord],
         \A s \in Sessions : ss[s].user \in {sessions[s].user, NoUser}
  PROVE  RowsFit(users, ss, invites, owner, queued)
<1>1. ASSUME NEW u \in Users PROVE Cardinality({s \in Sessions : ss[s].user = u}) <= MaxSessions
  <2> DEFINE S == {s \in Sessions : sessions[s].user = u}
             T == {s \in Sessions : ss[s].user = u}
  <2>1. T \subseteq S /\ IsFiniteSet(S)
    <3>1. T \subseteq S
      BY AccountNulls
    <3>2. IsFiniteSet(S)
      BY AccountSizes, FS_Subset
    <3> QED
      BY <3>1, <3>2
  <2>2. Cardinality(T) <= Cardinality(S) /\ Cardinality(T) \in Nat /\ Cardinality(S) \in Nat
    BY <2>1, FS_Subset, FS_CardinalityType
  <2>3. Cardinality(S) <= MaxSessions
    BY DEF AInv, RowsFit
  <2> QED
    BY <2>2, <2>3, AccountSizes
<1> QED
  BY <1>1 DEF AInv, RowsFit

Reissued(u, stale, s) ==
  [t \in Sessions |-> CASE t = s -> [user |-> u, expired |-> FALSE]
                       [] t # s /\ t \in stale -> NoSessionRow
                       [] OTHER -> sessions[t]]

\* A session is issued for u, in place of stale ones, and what stays leaves room for it.
LEMMA Issued ==
  ASSUME AInv, NEW u \in Users, NEW s \in Sessions, sessions[s].user = NoUser,
         NEW stale \in SUBSET Sessions, Cardinality(SessionsOf(u) \ stale) <= MaxSessions - 1,
         sessions' = Reissued(u, stale, s)
  PROVE  /\ sessions' \in [Sessions -> SessionRecord]
         /\ \A t \in Sessions : sessions'[t].user \in {sessions[t].user, NoUser} \/ t = s
         /\ sessions'[s].user = u
         /\ \A v \in Users : Cardinality({t \in Sessions : sessions'[t].user = v}) <= MaxSessions
<1>1. NoSessionRow \in SessionRecord /\ NoSessionRow.user = NoUser
      /\ [user |-> u, expired |-> FALSE] \in SessionRecord
  BY DEF NoSessionRow, SessionRecord
<1>2. sessions \in [Sessions -> SessionRecord]
  BY DEF AInv, RowsFit
<1>3. ASSUME NEW t \in Sessions
      PROVE  /\ sessions'[t] \in SessionRecord
             /\ t = s => sessions'[t].user = u
             /\ t # s /\ t \in stale => sessions'[t].user = NoUser
             /\ t # s /\ t \notin stale => sessions'[t].user = sessions[t].user
  <2>1. CASE t = s
    BY <1>1, <2>1 DEF Reissued
  <2>2. CASE t # s /\ t \in stale
    BY <1>1, <2>2 DEF Reissued
  <2>3. CASE t # s /\ t \notin stale
    BY <1>2, <2>3 DEF Reissued
  <2> QED
    BY <2>1, <2>2, <2>3
<1>4. sessions' \in [Sessions -> SessionRecord]
  BY <1>3 DEF Reissued
<1>5. ASSUME NEW v \in Users
      PROVE  Cardinality({t \in Sessions : sessions'[t].user = v}) <= MaxSessions
  <2> DEFINE T == {t \in Sessions : sessions'[t].user = v}
             S == {t \in Sessions : sessions[t].user = v}
             kept == SessionsOf(u) \ stale
  <2>1. CASE v = u
    <3>1. T = kept \cup {s}
      BY <1>3, <2>1, AccountNulls DEF SessionsOf
    <3>2. s \notin kept /\ IsFiniteSet(kept)
      BY AccountNulls, AccountSizes, FS_Subset DEF SessionsOf
    <3> HIDE DEF kept
    <3>3. Cardinality(T) = Cardinality(kept) + 1 /\ Cardinality(kept) \in Nat
      BY <3>1, <3>2, FS_AddElement, FS_CardinalityType
    <3>4. Cardinality(kept) <= MaxSessions - 1
      BY DEF kept
    <3> QED
      BY <3>3, <3>4, AccountSizes
  <2>2. CASE v # u
    <3>1. T \subseteq S
      BY <1>3, <2>2, AccountNulls
    <3>2. IsFiniteSet(S) /\ Cardinality(S) <= MaxSessions
      BY AccountSizes, FS_Subset DEF AInv, RowsFit
    <3>3. Cardinality(T) <= Cardinality(S) /\ Cardinality(T) \in Nat /\ Cardinality(S) \in Nat
      BY <3>1, <3>2, FS_Subset, FS_CardinalityType
    <3> QED
      BY <3>2, <3>3, AccountSizes
  <2> QED
    BY <2>1, <2>2
<1> QED
  BY <1>3, <1>4, <1>5

-----------------------------------------------------------------------------
(* Requests that begin.                                                    *)

\* It holds nothing yet, and its user is not one that is being registered.
LEMMA Begun ==
  ASSUME AInv, NEW q \in Requests, NEW r \in RequestRecord, requests' = [requests EXCEPT ![q] = r],
         r.pc \notin Holding \cup Registering \cup {"upload"},
         r.user = NoUser \/ IsUser(r.user),
         UNCHANGED <<users, sessions, invites, owner, queued>>
  PROVE  AInv'
<1>1. RequestFits(r, users', invites', owner') /\ HasRoom(r, sessions')
  BY DEF RequestFits, HasRoom, Holding, Counted, Registering
<1>2. ASSUME NEW p \in Requests PROVE Apart(r, requests[p]) /\ Apart(requests[p], r)
  BY AccountNulls DEF Apart, Registering, AInv, RequestFits, IsUser
<1> QED
  BY <1>1, <1>2, RowsStay, RequestMoves

\* An authenticated session: its user exists.
LEMMA SessionUser ==
  ASSUME AInv, NEW s \in Sessions, Authenticated(s)
  PROVE  sessions[s].user \in Users /\ IsUser(sessions[s].user)
BY AccountNulls DEF AInv, RowsFit, SessionRecord, Authenticated, IsUser

LEMMA LockInviteKeeps ==
  ASSUME AInv, NEW q \in Requests, NEW i \in Invites, NEW e \in Emails, NEW p \in Passwords,
         LockInvite(q, i, e, p)
  PROVE  AInv'
<1> DEFINE r == [IdleRequest EXCEPT !.pc = "invited", !.invite = i, !.email = e, !.given = p]
<1>1. r \in RequestRecord /\ r.pc = "invited" /\ r.invite = i /\ r.email = e /\ r.user = NoUser
  BY DEF IdleRequest, RequestRecord, RequestPoints
<1>2. requests' = [requests EXCEPT ![q] = r] /\ UsableInvite(i) /\ ~InviteLocked(i)
      /\ UNCHANGED <<users, sessions, invites, owner, queued>>
  BY DEF LockInvite, Begins
<1> HIDE DEF r
<1>3. RequestFits(r, users', invites', owner') /\ HasRoom(r, sessions')
  BY <1>1, <1>2 DEF RequestFits, HasRoom, Holding, Counted, UsableInvite
<1>4. ASSUME NEW o \in Requests PROVE Apart(r, requests[o]) /\ Apart(requests[o], r)
  BY <1>1, <1>2, AccountNulls
  DEF Apart, Holding, Registering, InviteLocked, HoldsInvite, AInv, RequestFits
<1> QED
  BY <1>1, <1>2, <1>3, <1>4, RowsStay, RequestMoves

LEMMA BeginOpenKeeps ==
  ASSUME AInv, NEW q \in Requests, NEW e \in Emails, NEW p \in Passwords, BeginOpen(q, e, p)
  PROVE  AInv'
<1> DEFINE r == [IdleRequest EXCEPT !.pc = "invited", !.email = e, !.given = p]
<1>1. r \in RequestRecord /\ r.pc = "invited" /\ r.invite = NoInvite /\ r.email = e /\ r.user = NoUser
  BY DEF IdleRequest, RequestRecord, RequestPoints
<1>2. requests' = [requests EXCEPT ![q] = r]
      /\ UNCHANGED <<users, sessions, invites, owner, queued>>
  BY DEF BeginOpen, Begins
<1> HIDE DEF r
<1>3. RequestFits(r, users', invites', owner') /\ HasRoom(r, sessions')
  BY <1>1, <1>2 DEF RequestFits, HasRoom, Holding, Counted
<1>4. ASSUME NEW o \in Requests PROVE Apart(r, requests[o]) /\ Apart(requests[o], r)
  BY <1>1, AccountNulls DEF Apart, Holding, Registering, AInv, RequestFits
<1> QED
  BY <1>1, <1>2, <1>3, <1>4, RowsStay, RequestMoves

LEMMA BeginsKeep ==
  ASSUME AInv, NEW q \in Requests,
         \/ \E u \in Users, p \in Passwords : BeginLogin(q, u, p)
         \/ \E s \in Sessions, p, n \in Passwords : BeginChange(q, s, p, n)
         \/ \E s \in Sessions, p \in Passwords : BeginDelete(q, s, p)
         \/ \E s \in Sessions, pc \in {"logout", "logoutAll", "revoke"} : BeginSessionRequest(q, s, pc)
  PROVE  AInv'
<1>1. ASSUME NEW u \in Users, NEW p \in Passwords, BeginLogin(q, u, p) PROVE AInv'
  <2> DEFINE r == [IdleRequest EXCEPT !.pc = "grant", !.user = u, !.given = p,
                                      !.legacy = users[u].legacy]
  <2>1. users[u].legacy \in BOOLEAN
    BY DEF AInv, RowsFit, UserRecord
  <2>2. r \in RequestRecord /\ r.pc = "grant" /\ r.user = u
    BY <2>1 DEF IdleRequest, RequestRecord, RequestPoints
  <2>3. requests' = [requests EXCEPT ![q] = r] /\ IsUser(u)
        /\ UNCHANGED <<users, sessions, invites, owner, queued>>
    BY <1>1 DEF BeginLogin, Begins
  <2> HIDE DEF r
  <2> QED
    BY <2>2, <2>3, Begun DEF Holding, Registering
<1>2. ASSUME NEW s \in Sessions, NEW p \in Passwords, NEW n \in Passwords, BeginChange(q, s, p, n)
      PROVE  AInv'
  <2> DEFINE u == sessions[s].user
             r == [IdleRequest EXCEPT !.pc = "change", !.user = u, !.session = s,
                                      !.given = p, !.next = n]
  <2>1. u \in Users /\ IsUser(u)
    BY <1>2, SessionUser DEF BeginChange
  <2>2. requests' = [requests EXCEPT ![q] = r]
        /\ UNCHANGED <<users, sessions, invites, owner, queued>>
    BY <1>2 DEF BeginChange, Begins
  <2> HIDE DEF u
  <2>3. r \in RequestRecord /\ r.pc = "change" /\ r.user = u
    BY <2>1 DEF IdleRequest, RequestRecord, RequestPoints
  <2> HIDE DEF r
  <2> QED
    BY <2>1, <2>2, <2>3, Begun DEF Holding, Registering
<1>3. ASSUME NEW s \in Sessions, NEW p \in Passwords, BeginDelete(q, s, p) PROVE AInv'
  <2> DEFINE u == sessions[s].user
             r == [IdleRequest EXCEPT !.pc = "delete", !.user = u, !.session = s, !.given = p]
  <2>1. u \in Users /\ IsUser(u)
    BY <1>3, SessionUser DEF BeginDelete
  <2>2. requests' = [requests EXCEPT ![q] = r]
        /\ UNCHANGED <<users, sessions, invites, owner, queued>>
    BY <1>3 DEF BeginDelete, Begins
  <2> HIDE DEF u
  <2>3. r \in RequestRecord /\ r.pc = "delete" /\ r.user = u
    BY <2>1 DEF IdleRequest, RequestRecord, RequestPoints
  <2> HIDE DEF r
  <2> QED
    BY <2>1, <2>2, <2>3, Begun DEF Holding, Registering
<1>4. ASSUME NEW s \in Sessions, NEW pc \in {"logout", "logoutAll", "revoke"},
             BeginSessionRequest(q, s, pc)
      PROVE  AInv'
  <2> DEFINE u == sessions[s].user
             r == [IdleRequest EXCEPT !.pc = pc, !.user = u, !.session = s]
  <2>1. u \in Users /\ IsUser(u)
    BY <1>4, SessionUser DEF BeginSessionRequest
  <2>2. requests' = [requests EXCEPT ![q] = r]
        /\ UNCHANGED <<users, sessions, invites, owner, queued>>
    BY <1>4 DEF BeginSessionRequest, Begins
  <2> HIDE DEF u
  <2>3. r \in RequestRecord /\ r.pc = pc /\ r.user = u
    BY <2>1 DEF IdleRequest, RequestRecord, RequestPoints
  <2> HIDE DEF r
  <2> QED
    BY <2>1, <2>2, <2>3, Begun DEF Holding, Registering
<1> QED
  BY <1>1, <1>2, <1>3, <1>4

LEMMA BeginUploadKeeps ==
  ASSUME AInv, NEW q \in Requests, NEW s \in Sessions, NEW f \in Files, BeginUpload(q, s, f)
  PROVE  AInv'
<1> DEFINE u == sessions[s].user
           r == [IdleRequest EXCEPT !.pc = "upload", !.user = u, !.file = f]
<1>1. u \in Users /\ IsUser(u)
  BY SessionUser DEF BeginUpload
<1>2. requests' = [requests EXCEPT ![q] = r] /\ owner[f] = NoUser
      /\ UNCHANGED <<users, sessions, invites, owner, queued>>
      /\ \A p \in Requests : requests[p].file # f
  BY DEF BeginUpload, Begins
<1> HIDE DEF u
<1>3. r \in RequestRecord /\ r.pc = "upload" /\ r.user = u /\ r.file = f
  BY <1>1 DEF IdleRequest, RequestRecord, RequestPoints
<1> HIDE DEF r
<1>4. RequestFits(r, users', invites', owner') /\ HasRoom(r, sessions')
  BY <1>2, <1>3 DEF RequestFits, HasRoom, Holding, Counted, Registering
<1>5. ASSUME NEW p \in Requests PROVE Apart(r, requests[p]) /\ Apart(requests[p], r)
  BY <1>1, <1>2, <1>3, AccountNulls DEF Apart, Holding, Registering, AInv, RequestFits, IsUser
<1> QED
  BY <1>2, <1>3, <1>4, <1>5, RowsStay, RequestMoves

-----------------------------------------------------------------------------
(* Requests that go on.                                                    *)

LEMMA InsertUserKeeps ==
  ASSUME AInv, NEW q \in Requests, NEW u \in Users, InsertUser(q, u) PROVE AInv'
<1> DEFINE r == [requests[q] EXCEPT !.pc = "inserted", !.user = u]
<1>1. requests[q] \in RequestRecord /\ requests[q].pc = "invited"
      /\ UNCHANGED <<users, sessions, invites, owner, queued>>
  BY DEF InsertUser, AInv
<1>2. CASE Leaves(q)
  BY <1>1, <1>2, RowsStay, RequestLeaves
<1>3. CASE NewUser(u) /\ requests' = [requests EXCEPT ![q].pc = "inserted", ![q].user = u]
  <2>1. r \in RequestRecord /\ r.pc = "inserted" /\ r.user = u /\ r.email = requests[q].email
        /\ r.invite = requests[q].invite
    BY <1>1 DEF RequestRecord, RequestPoints
  <2>2. requests' = [requests EXCEPT ![q] = r]
    BY <1>1, <1>3 DEF AInv, RequestRecord
  <2> HIDE DEF r
  <2>3. RequestFits(r, users', invites', owner') /\ HasRoom(r, sessions')
    BY <1>1, <1>3, <2>1, AccountNulls
    DEF AInv, RequestFits, HasRoom, Holding, Counted, Registering, NewUser, IsUser
  <2>4. ASSUME NEW p \in Requests \ {q} PROVE Apart(r, requests[p]) /\ Apart(requests[p], r)
    <3>1. Apart(requests[q], requests[p]) /\ Apart(requests[p], requests[q]) /\ requests[p].user # u
      BY <1>3 DEF AInv, NewUser
    <3> QED
      BY <1>1, <2>1, <3>1 DEF Apart, Holding, Registering
  <2> QED
    BY <1>1, <2>1, <2>2, <2>3, <2>4, RowsStay, RequestMoves
<1> QED
  BY <1>2, <1>3 DEF InsertUser

LEMMA LockUserKeeps == ASSUME AInv, NEW q \in Requests, LockUser(q) PROVE AInv'
<1>1. requests[q] \in RequestRecord /\ requests[q].pc \in {"grant", "change", "delete"}
      /\ ~UserLocked(requests[q].user) /\ UNCHANGED <<users, sessions, invites, owner, queued>>
  BY DEF LockUser, AInv
<1>2. CASE Leaves(q)
  BY <1>1, <1>2, RowsStay, RequestLeaves
<1>3. CASE MayGoOn(q)
  <2>1. PICK pc \in Holding \ Counted : Become(q, pc)
    BY <1>1, <1>3 DEF LockUser, Holding, Counted
  <2> DEFINE r == [requests[q] EXCEPT !.pc = pc]
  <2>2. r \in RequestRecord /\ r.pc = pc /\ r.user = requests[q].user
    BY <1>1 DEF RequestRecord, RequestPoints, Holding
  <2>3. requests' = [requests EXCEPT ![q] = r]
    BY <2>1 DEF Become, AInv
  <2> HIDE DEF r
  <2>4. r.user \in Users /\ users[r.user].email # NoEmail
    BY <1>1, <1>3, <2>2 DEF MayGoOn, IsUser, RequestRecord
  <2>5. RequestFits(r, users', invites', owner') /\ HasRoom(r, sessions')
    BY <1>1, <2>2, <2>4 DEF RequestFits, HasRoom, Holding, Counted, Registering
  <2>6. ASSUME NEW p \in Requests \ {q} PROVE Apart(r, requests[p]) /\ Apart(requests[p], r)
    <3>1. Apart(requests[p], requests[q])
      BY DEF AInv
    <3>2. requests[p].pc \in Holding => requests[p].user # r.user
      BY <1>1, <2>2 DEF UserLocked, HoldsUser, Holding
    <3> QED
      BY <2>2, <3>1, <3>2 DEF Apart, Holding, Registering
  <2> QED
    BY <1>1, <2>2, <2>3, <2>5, <2>6, RowsStay, RequestMoves
<1> QED
  BY <1>2, <1>3 DEF LockUser

\* What is kept has room for one more, and its user is still nobody else's.
LEMMA DeleteStaleKeeps ==
  ASSUME AInv, NEW q \in Requests, NEW kept \in SUBSET Sessions, DeleteStale(q, kept)
  PROVE  AInv'
<1> DEFINE u == requests[q].user
           pc == IF requests[q].pc = "granting" THEN "granted" ELSE "changed"
           stale == SessionsOf(u) \ kept
           r == [requests[q] EXCEPT !.pc = pc, !.stale = stale]
<1>1. requests[q] \in RequestRecord /\ requests[q].pc \in {"granting", "changing"}
      /\ UNCHANGED <<users, sessions, invites, owner, queued>>
  BY DEF DeleteStale, AInv
<1>2. pc \in Counted /\ stale \in SUBSET Sessions
  BY DEF Counted, SessionsOf
<1>3. Cardinality(SessionsOf(u) \ stale) <= MaxSessions - 1
  <2>1. IsFiniteSet(SessionsOf(u))
    BY AccountSizes, FS_Subset DEF SessionsOf
  <2>2. Cardinality(SessionsOf(u)) \in Nat
    BY <2>1, FS_CardinalityType
  <2>3. kept \subseteq SessionsOf(u) /\ Cardinality(kept) <= MaxSessions - 1
    <3>1. CASE Retained(u, kept)
      BY <2>2, <3>1, AccountSizes DEF Retained
    <3>2. CASE kept = {}
      BY <3>2, FS_EmptySet, AccountSizes
    <3> QED
      BY <3>1, <3>2 DEF DeleteStale
  <2>4. SessionsOf(u) \ stale = kept
    BY <2>3
  <2> HIDE DEF stale
  <2> QED
    BY <2>3, <2>4
<1>4. requests' = [requests EXCEPT ![q] = r]
  BY <1>1 DEF DeleteStale, AInv, RequestRecord
<1> HIDE DEF pc, stale
<1>5. r \in RequestRecord /\ r.pc = pc /\ r.user = u /\ r.stale = stale
  BY <1>1, <1>2 DEF RequestRecord, RequestPoints, Counted
<1> HIDE DEF r
<1>6. u \in Users /\ users[u].email # NoEmail
  BY <1>1 DEF AInv, RequestFits, Holding
<1>7. RequestFits(r, users', invites', owner') /\ HasRoom(r, sessions')
  BY <1>1, <1>2, <1>3, <1>5, <1>6 DEF RequestFits, HasRoom, SessionsOf, Counted, Registering
<1>8. ASSUME NEW p \in Requests \ {q} PROVE Apart(r, requests[p]) /\ Apart(requests[p], r)
  <2>1. Apart(requests[p], requests[q]) /\ Apart(requests[q], requests[p])
    BY DEF AInv
  <2> QED
    BY <1>1, <1>2, <1>5, <2>1 DEF Apart, Holding, Counted, Registering
<1> QED
  BY <1>1, <1>4, <1>5, <1>7, <1>8, RowsStay, RequestMoves

-----------------------------------------------------------------------------
(* Requests that commit.                                                   *)

\* The user that registers had no row, so no session and no document is of it.
LEMMA CommitRegisterKeeps ==
  ASSUME AInv, NEW q \in Requests, NEW s \in Sessions, CommitRegister(q, s)
  PROVE  AInv'
<1> DEFINE r == requests[q]
           u == r.user
           row == [email |-> r.email, pw |-> r.given, legacy |-> FALSE]
<1>1. /\ r \in RequestRecord /\ r.pc = "inserted" /\ u \in Users /\ users[u].email = NoEmail
      /\ r.email \in Emails
  BY DEF AInv, CommitRegister, RequestFits, Registering
<1>2. /\ users' = [users EXCEPT ![u] = row] /\ sessions[s].user = NoUser /\ Leaves(q)
      /\ sessions' = [sessions EXCEPT ![s] = [user |-> u, expired |-> FALSE]]
      /\ UNCHANGED <<owner, queued>>
  BY DEF CommitRegister, NewSession
<1>3. invites' = IF r.invite = NoInvite THEN invites ELSE [invites EXCEPT ![r.invite].used = TRUE]
  BY DEF CommitRegister
<1>4. row \in UserRecord /\ row.email \in Emails
  BY <1>1 DEF UserRecord, RequestRecord
<1> HIDE DEF row
<1>5. users' \in [Users -> UserRecord] /\ users'[u].email # NoEmail
      /\ \A v \in Users \ {u} : users'[v] = users[v]
  BY <1>1, <1>2, <1>4, AccountNulls DEF AInv, RowsFit
<1>6. SessionsOf(u) = {}
  BY <1>1, AccountNulls DEF SessionsOf, AInv, RowsFit
<1>7. sessions' = Reissued(u, {}, s)
  BY <1>2 DEF Reissued, AInv, RowsFit
<1>8. {} \in SUBSET Sessions /\ Cardinality(SessionsOf(u) \ {}) <= MaxSessions - 1
  BY <1>6, FS_EmptySet, AccountSizes
<1>9. /\ sessions' \in [Sessions -> SessionRecord] /\ sessions'[s].user = u
      /\ \A t \in Sessions : sessions'[t].user \in {sessions[t].user, NoUser} \/ t = s
      /\ \A v \in Users : Cardinality({t \in Sessions : sessions'[t].user = v}) <= MaxSessions
  BY <1>1, <1>2, <1>7, <1>8, Issued
<1>10. invites' \in [Invites -> InviteRecord]
       /\ \A i \in Invites : i # r.invite => invites'[i] = invites[i]
  <2>1. CASE r.invite = NoInvite
    BY <1>3, <2>1 DEF AInv, RowsFit
  <2>2. CASE r.invite # NoInvite
    <3> DEFINE mark == [invites[r.invite] EXCEPT !.used = TRUE]
    <3>1. r.invite \in Invites
      BY <1>1, <2>2 DEF RequestRecord
    <3>2. mark \in InviteRecord /\ invites' = [invites EXCEPT ![r.invite] = mark]
      BY <1>3, <2>2, <3>1 DEF AInv, RowsFit, InviteRecord
    <3> HIDE DEF mark
    <3> QED
      BY <3>1, <3>2 DEF AInv, RowsFit
  <2> QED
    BY <2>1, <2>2
<1>11. ASSUME NEW t \in Sessions, sessions'[t].user # NoUser
       PROVE  users'[sessions'[t].user].email # NoEmail
  <2>1. sessions'[t].user = u \/ sessions'[t].user = sessions[t].user
    BY <1>9, <1>11
  <2>2. sessions'[t].user \in Users
    BY <1>9, <1>11 DEF SessionRecord
  <2> QED
    BY <1>5, <1>11, <2>1, <2>2 DEF AInv, RowsFit
<1>12. ASSUME NEW f \in Files, owner'[f] # NoUser PROVE users'[owner'[f]].email # NoEmail
  BY <1>2, <1>5, <1>12 DEF AInv, RowsFit
<1>13. RowsFit(users', sessions', invites', owner', queued')
  BY <1>2, <1>5, <1>9, <1>10, <1>11, <1>12 DEF RowsFit, AInv
<1>14. ASSUME NEW p \in Requests \ {q}
       PROVE  RequestFits(requests[p], users', invites', owner') /\ HasRoom(requests[p], sessions')
  <2>1. RequestFits(requests[p], users, invites, owner) /\ Apart(requests[p], r) /\ Apart(r, requests[p])
        /\ requests[p] \in RequestRecord
    BY DEF AInv
  <2>2. requests[p].pc \in Registering /\ requests[p].invite # NoInvite =>
          /\ requests[p].invite \in Invites
          /\ invites'[requests[p].invite] = invites[requests[p].invite]
    BY <1>1, <1>10, <2>1 DEF Apart, Registering, RequestRecord
  <2>3. requests[p].pc \in Counted => requests[p].user \in Users \ {u}
    BY <1>1, <2>1 DEF RequestFits, Apart, Counted, Holding
  <2>4. HasRoom(requests[p], sessions')
    BY <1>9, <2>3, AccountNulls, RoomStays
  <2> QED
    BY <1>1, <1>2, <1>5, <2>1, <2>2, <2>4 DEF RequestFits, Apart
<1> QED
  BY <1>2, <1>13, <1>14, RequestLeaves

\* Emails stay, sessions are issued.
LEMMA Granted ==
  ASSUME AInv, NEW q \in Requests, requests[q].pc \in Counted, NEW s \in Sessions,
         sessions[s].user = NoUser, Issue(q, s),
         users' \in [Users -> UserRecord], \A u \in Users : users'[u].email = users[u].email,
         Leaves(q), UNCHANGED <<invites, owner, queued>>
  PROVE  AInv'
<1>1. requests[q].user \in Users /\ users[requests[q].user].email # NoEmail
  BY DEF AInv, RequestFits, Counted, Holding
<1>2. /\ sessions' \in [Sessions -> SessionRecord] /\ sessions'[s].user = requests[q].user
      /\ \A t \in Sessions : sessions'[t].user \in {sessions[t].user, NoUser} \/ t = s
      /\ \A v \in Users : Cardinality({t \in Sessions : sessions'[t].user = v}) <= MaxSessions
  <2>1. requests[q].stale \in SUBSET Sessions
    BY DEF AInv, RequestRecord
  <2>2. Cardinality(SessionsOf(requests[q].user) \ requests[q].stale) <= MaxSessions - 1
    BY DEF AInv, HasRoom, SessionsOf
  <2>3. sessions' = Reissued(requests[q].user, requests[q].stale, s)
    BY DEF Issue, Reissued
  <2> QED
    BY <1>1, <2>1, <2>2, <2>3, Issued
<1>3. ASSUME NEW t \in Sessions, sessions'[t].user # NoUser
      PROVE  users'[sessions'[t].user].email # NoEmail
  <2>1. sessions'[t].user \in Users
    BY <1>2, <1>3 DEF SessionRecord
  <2>2. sessions'[t].user = sessions[t].user \/ sessions'[t].user = requests[q].user
    BY <1>2, <1>3
  <2> QED
    BY <1>1, <1>3, <2>1, <2>2 DEF AInv, RowsFit
<1>4. ASSUME NEW f \in Files, owner'[f] # NoUser PROVE users'[owner'[f]].email # NoEmail
  BY <1>4 DEF AInv, RowsFit
<1>5. RowsFit(users', sessions', invites', owner', queued')
  BY <1>2, <1>3, <1>4 DEF RowsFit, AInv
<1>6. ASSUME NEW p \in Requests PROVE RequestFits(requests[p], users', invites', owner')
  BY DEF AInv, RequestFits
<1>7. ASSUME NEW p \in Requests \ {q} PROVE HasRoom(requests[p], sessions')
  <2>1. Apart(requests[p], requests[q]) /\ RequestFits(requests[p], users, invites, owner)
    BY DEF AInv
  <2>2. requests[p].pc \in Counted => requests[p].user \in Users \ {requests[q].user}
    BY <2>1 DEF Apart, RequestFits, Counted, Holding
  <2> QED
    BY <1>2, <2>2, AccountNulls, RoomStays
<1> QED
  BY <1>5, <1>6, <1>7, RequestLeaves

LEMMA CommitGrantKeeps ==
  ASSUME AInv, NEW q \in Requests, NEW s \in Sessions, CommitChange(q, s) \/ CommitLogin(q, s)
  PROVE  AInv'
<1> DEFINE u == requests[q].user
<1>1. requests[q].pc \in Counted
  BY DEF CommitChange, CommitLogin, Counted
<1>2. requests[q] \in RequestRecord /\ u \in Users /\ users \in [Users -> UserRecord]
  BY <1>1 DEF AInv, RowsFit, RequestFits, Counted, Holding
<1>3. ASSUME NEW p \in Passwords \cup {NoPassword},
             users' = [users EXCEPT ![u].pw = p, ![u].legacy = FALSE]
      PROVE  users' \in [Users -> UserRecord] /\ \A v \in Users : users'[v].email = users[v].email
  <2> DEFINE row == [users[u] EXCEPT !.pw = p, !.legacy = FALSE]
  <2>1. row \in UserRecord /\ row.email = users[u].email /\ users' = [users EXCEPT ![u] = row]
    BY <1>2, <1>3 DEF UserRecord
  <2> HIDE DEF row
  <2> QED
    BY <1>2, <2>1
<1>4. users' \in [Users -> UserRecord] /\ \A v \in Users : users'[v].email = users[v].email
  <2>1. CASE CommitChange(q, s)
    BY <1>2, <1>3, <2>1 DEF CommitChange, RequestRecord
  <2>2. CASE CommitLogin(q, s)
    BY <1>2, <1>3, <2>2 DEF CommitLogin, RequestRecord
  <2> QED
    BY <2>1, <2>2
<1>5. sessions[s].user = NoUser /\ Issue(q, s) /\ Leaves(q) /\ UNCHANGED <<invites, owner, queued>>
  BY DEF CommitChange, CommitLogin, NewSession
<1> QED
  BY <1>1, <1>4, <1>5, Granted

LEMMA CommitDeleteKeeps == ASSUME AInv, NEW q \in Requests, CommitDelete(q) PROVE AInv'
<1> DEFINE u == requests[q].user
<1>1. /\ requests[q].pc = "deleting" /\ Leaves(q) /\ UNCHANGED invites
      /\ queued' = queued \cup {f \in Files : owner[f] = u}
      /\ owner' = [f \in Files |-> IF owner[f] = u THEN NoUser ELSE owner[f]]
      /\ sessions' = [s \in Sessions |-> IF sessions[s].user = u THEN NoSessionRow ELSE sessions[s]]
      /\ users' = [users EXCEPT ![u] = NoUserRow]
  BY DEF CommitDelete
<1>2. u \in Users
  BY <1>1 DEF AInv, RequestFits, Holding
<1>3. NoSessionRow \in SessionRecord /\ NoSessionRow.user = NoUser
      /\ NoUserRow \in UserRecord /\ NoUserRow.email = NoEmail
  BY DEF NoSessionRow, SessionRecord, NoUserRow, UserRecord
<1>4. sessions \in [Sessions -> SessionRecord] /\ users \in [Users -> UserRecord]
      /\ owner \in [Files -> Users \cup {NoUser}] /\ queued \in SUBSET Files
  BY DEF AInv, RowsFit
<1>5. /\ sessions' \in [Sessions -> SessionRecord]
      /\ \A s \in Sessions : sessions'[s].user \in {sessions[s].user, NoUser} \ {u}
  BY <1>1, <1>2, <1>3, <1>4, AccountNulls
<1>6. /\ users' \in [Users -> UserRecord] /\ users'[u].email = NoEmail
      /\ \A v \in Users \ {u} : users'[v] = users[v]
  BY <1>1, <1>2, <1>3, <1>4
<1>7. /\ owner' \in [Files -> Users \cup {NoUser}]
      /\ \A f \in Files : owner'[f] \in {owner[f], NoUser} \ {u}
  BY <1>1, <1>2, <1>4, AccountNulls
<1>8. RowsFit(users, sessions', invites, owner, queued)
  BY <1>5, FewerSessions
<1>9. ASSUME NEW s \in Sessions, sessions'[s].user # NoUser
      PROVE  users'[sessions'[s].user].email # NoEmail
  <2>1. sessions'[s].user \in Users \ {u}
    BY <1>5, <1>9 DEF SessionRecord
  <2> QED
    BY <1>6, <1>8, <1>9, <2>1 DEF RowsFit
<1>10. ASSUME NEW f \in Files, owner'[f] # NoUser PROVE users'[owner'[f]].email # NoEmail
  <2>1. owner'[f] \in Users \ {u} /\ owner'[f] = owner[f]
    BY <1>7, <1>10
  <2> QED
    BY <1>6, <1>8, <1>10, <2>1 DEF RowsFit
<1>11. queued' \in SUBSET Files
  BY <1>1, <1>4
<1>12. RowsFit(users', sessions', invites', owner', queued')
  BY <1>1, <1>5, <1>6, <1>7, <1>8, <1>9, <1>10, <1>11 DEF RowsFit
<1>13. ASSUME NEW p \in Requests \ {q}
       PROVE  RequestFits(requests[p], users', invites', owner') /\ HasRoom(requests[p], sessions')
  <2>1. RequestFits(requests[p], users, invites, owner) /\ Apart(requests[p], requests[q])
    BY DEF AInv
  <2>2. requests[p].pc \in Holding => requests[p].user # u
    BY <1>1, <2>1 DEF Apart, Holding
  <2>3. HasRoom(requests[p], sessions')
    BY <1>5, RoomGrows
  <2> QED
    BY <1>1, <1>2, <1>6, <1>7, <2>1, <2>2, <2>3 DEF RequestFits
<1> QED
  BY <1>1, <1>12, <1>13, RequestLeaves

LEMMA LogoutKeeps ==
  ASSUME AInv, NEW q \in Requests,
         Logout(q) \/ LogoutAll(q) \/ \E s \in Sessions : RevokeSession(q, s)
  PROVE  AInv'
<1>1. PICK removed : RemoveSessions(q, removed)
  BY DEF Logout, LogoutAll, RevokeSession
<1>2. NoSessionRow \in SessionRecord /\ NoSessionRow.user = NoUser
  BY DEF NoSessionRow, SessionRecord
<1>3. sessions' \in [Sessions -> SessionRecord]
      /\ \A s \in Sessions : sessions'[s].user \in {sessions[s].user, NoUser}
  BY <1>1, <1>2 DEF RemoveSessions, AInv, RowsFit
<1>4. RowsFit(users, sessions', invites, owner, queued)
  BY <1>3, FewerSessions
<1> QED
  BY <1>1, <1>3, <1>4, RoomGrows, RequestLeaves DEF RemoveSessions, AInv

LEMMA InsertDocumentKeeps == ASSUME AInv, NEW q \in Requests, InsertDocument(q) PROVE AInv'
<1> DEFINE r == requests[q]
<1>1. r \in RequestRecord /\ r.pc = "upload" /\ r.file \in Files /\ owner[r.file] = NoUser
      /\ Leaves(q) /\ UNCHANGED <<users, sessions, invites, queued>>
  BY DEF InsertDocument, AInv, RequestFits
<1>2. CASE UNCHANGED owner
  BY <1>1, <1>2, RowsStay, RequestLeaves
<1>3. CASE IsUser(r.user) /\ owner' = [owner EXCEPT ![r.file] = r.user]
  <2>1. r.user \in Users /\ users[r.user].email # NoEmail
    BY <1>1, <1>3 DEF IsUser, RequestRecord
  <2>2. owner' \in [Files -> Users \cup {NoUser}] /\ owner'[r.file] = r.user
        /\ \A f \in Files \ {r.file} : owner'[f] = owner[f]
    BY <1>1, <1>3, <2>1 DEF AInv, RowsFit
  <2>3. ASSUME NEW f \in Files, owner'[f] # NoUser PROVE users'[owner'[f]].email # NoEmail
    BY <1>1, <2>1, <2>2, <2>3 DEF AInv, RowsFit
  <2>4. RowsFit(users', sessions', invites', owner', queued')
    BY <1>1, <2>2, <2>3 DEF AInv, RowsFit
  <2>5. ASSUME NEW p \in Requests \ {q}
        PROVE  RequestFits(requests[p], users', invites', owner') /\ HasRoom(requests[p], sessions')
    <3>1. /\ RequestFits(requests[p], users, invites, owner) /\ Apart(requests[p], r)
          /\ HasRoom(requests[p], sessions)
      BY DEF AInv
    <3> QED
      BY <1>1, <2>2, <3>1 DEF RequestFits, Apart
  <2> QED
    BY <1>1, <2>4, <2>5, RequestLeaves
<1> QED
  BY <1>2, <1>3 DEF InsertDocument

-----------------------------------------------------------------------------
(* The administrator, time and the sweep.                                  *)

LEMMA RequestsStay ==
  ASSUME AInv, UNCHANGED requests, RowsFit(users', sessions', invites', owner', queued'),
         \A q \in Requests : /\ RequestFits(requests[q], users', invites', owner')
                            /\ HasRoom(requests[q], sessions')
  PROVE  AInv'
<1>1. RowsFit(users, sessions, invites, owner, queued)'
  BY DEF RowsFit, UserRecord, SessionRecord, InviteRecord
<1>2. \A q \in Requests : RequestFits(requests[q], users, invites, owner)'
  BY DEF RequestFits, Holding, Registering
<1>3. \A p, q \in Requests : p # q => Apart(requests[p], requests[q])'
  BY DEF AInv, Apart, Holding, Registering
<1>4. \A q \in Requests : HasRoom(requests[q], sessions)'
  BY DEF HasRoom, Counted
<1> QED
  BY <1>1, <1>2, <1>3, <1>4 DEF AInv, RequestRecord, RequestPoints

LEMMA InvitesKeep ==
  ASSUME AInv, NEW i \in Invites, CreateInvite(i) \/ RevokeInvite(i) \/ ExpireInvite(i)
  PROVE  AInv'
<1>1. invites[i] \in InviteRecord
  BY DEF AInv, RowsFit
<1>2. UNCHANGED <<users, sessions, owner, queued, requests>>
  BY DEF CreateInvite, RevokeInvite, ExpireInvite
<1>3. PICK row \in InviteRecord :
        /\ invites' = [invites EXCEPT ![i] = row] /\ row.used = invites[i].used
        /\ row.revoked = invites[i].revoked \/ ~InviteLocked(i)
  <2> DEFINE made == [invites[i] EXCEPT !.made = TRUE]
             revoked == [invites[i] EXCEPT !.revoked = TRUE]
             expired == [invites[i] EXCEPT !.expired = TRUE]
  <2>1. /\ made \in InviteRecord /\ made.used = invites[i].used
        /\ made.revoked = invites[i].revoked
        /\ revoked \in InviteRecord /\ revoked.used = invites[i].used
        /\ expired \in InviteRecord /\ expired.used = invites[i].used
        /\ expired.revoked = invites[i].revoked
    BY <1>1 DEF InviteRecord
  <2>2. CASE CreateInvite(i)
    <3>1. invites' = [invites EXCEPT ![i] = made]
      BY <2>2 DEF CreateInvite, AInv, RowsFit
    <3> QED
      BY <2>1, <3>1
  <2>3. CASE RevokeInvite(i)
    <3>1. invites' = [invites EXCEPT ![i] = revoked] /\ ~InviteLocked(i)
      BY <2>3 DEF RevokeInvite, AInv, RowsFit
    <3> QED
      BY <2>1, <3>1
  <2>4. CASE ExpireInvite(i)
    <3>1. invites' = [invites EXCEPT ![i] = expired]
      BY <2>4 DEF ExpireInvite, AInv, RowsFit
    <3> QED
      BY <2>1, <3>1
  <2> QED
    BY <2>2, <2>3, <2>4
<1>4. invites' \in [Invites -> InviteRecord] /\ invites'[i] = row
      /\ \A k \in Invites \ {i} : invites'[k] = invites[k]
  BY <1>3 DEF AInv, RowsFit
<1>5. RowsFit(users', sessions', invites', owner', queued')
  BY <1>2, <1>4 DEF AInv, RowsFit
<1>6. ASSUME NEW q \in Requests PROVE RequestFits(requests[q], users', invites', owner')
  <2>1. RequestFits(requests[q], users, invites, owner) /\ requests[q] \in RequestRecord
    BY DEF AInv
  <2>2. requests[q].pc \in Registering /\ requests[q].invite # NoInvite =>
          /\ invites'[requests[q].invite].used = invites[requests[q].invite].used
          /\ invites'[requests[q].invite].revoked = invites[requests[q].invite].revoked
    <3> SUFFICES ASSUME requests[q].pc \in Registering, requests[q].invite # NoInvite
                 PROVE  /\ invites'[requests[q].invite].used = invites[requests[q].invite].used
                        /\ invites'[requests[q].invite].revoked = invites[requests[q].invite].revoked
      OBVIOUS
    <3>1. requests[q].invite \in Invites
      BY <2>1 DEF RequestRecord
    <3>2. CASE requests[q].invite = i
      <4>1. InviteLocked(i)
        BY <3>2 DEF InviteLocked, HoldsInvite, Registering
      <4> QED
        BY <1>3, <1>4, <3>2, <4>1
    <3>3. CASE requests[q].invite # i
      BY <1>4, <3>1, <3>3
    <3> QED
      BY <3>2, <3>3
  <2> QED
    BY <1>2, <2>1, <2>2 DEF RequestFits
<1> QED
  BY <1>2, <1>5, <1>6, RequestsStay DEF AInv

LEMMA SweepKeeps ==
  ASSUME AInv, NEW s \in Sessions, ExpireSession(s) \/ PurgeSession(s)
  PROVE  AInv'
<1> DEFINE row == [sessions[s] EXCEPT !.expired = TRUE]
<1>1. row \in SessionRecord /\ row.user = sessions[s].user
      /\ NoSessionRow \in SessionRecord /\ NoSessionRow.user = NoUser
  BY DEF AInv, RowsFit, SessionRecord, NoSessionRow
<1>2. sessions' = [sessions EXCEPT ![s] = row] \/ sessions' = [sessions EXCEPT ![s] = NoSessionRow]
  BY DEF ExpireSession, PurgeSession, AInv, RowsFit
<1> HIDE DEF row
<1>3. sessions' \in [Sessions -> SessionRecord]
      /\ \A t \in Sessions : sessions'[t].user \in {sessions[t].user, NoUser}
  BY <1>1, <1>2 DEF AInv, RowsFit
<1>4. UNCHANGED <<users, invites, owner, queued, requests>>
  BY DEF ExpireSession, PurgeSession
<1>5. RowsFit(users', sessions', invites', owner', queued')
  BY <1>3, <1>4, FewerSessions
<1> QED
  BY <1>3, <1>4, <1>5, RoomGrows, RequestsStay DEF AInv

LEMMA AccountsStep == ASSUME AInv, [AccountsNext]_accountVars PROVE AInv'
<1>1. ASSUME NEW q \in Requests, RequestStep(q) PROVE AInv'
  <2>1. CASE Rollback(q)
    BY <2>1, RowsStay, RequestLeaves DEF Rollback
  <2>2. ASSUME NEW s \in Sessions, NEW f \in Files, BeginUpload(q, s, f) PROVE AInv'
    BY <2>2, BeginUploadKeeps
  <2>3. ASSUME NEW s \in Sessions,
               CommitRegister(q, s) \/ CommitChange(q, s) \/ CommitLogin(q, s) \/ RevokeSession(q, s)
        PROVE  AInv'
    BY <2>3, CommitRegisterKeeps, CommitGrantKeeps, LogoutKeeps
  <2> QED
    BY <1>1, <2>1, <2>2, <2>3, LockInviteKeeps, BeginOpenKeeps, InsertUserKeeps, BeginsKeep,
       LockUserKeeps, DeleteStaleKeeps, CommitDeleteKeeps, LogoutKeeps, InsertDocumentKeeps
    DEF RequestStep
<1>2. ASSUME NEW f \in Files, FileRemoved(f) PROVE AInv'
  <2>1. UNCHANGED <<users, sessions, invites, owner, requests>> /\ queued' \in SUBSET Files
    BY <1>2 DEF FileRemoved, AInv, RowsFit
  <2>2. RowsFit(users', sessions', invites', owner', queued')
    BY <2>1 DEF AInv, RowsFit
  <2> QED
    BY <2>1, <2>2, RequestsStay DEF AInv
<1>3. CASE UNCHANGED accountVars
  BY <1>3, RowsStay, RequestsStay DEF accountVars
<1> QED
  BY <1>1, <1>2, <1>3, InvitesKeep, SweepKeeps DEF AccountsNext

-----------------------------------------------------------------------------
THEOREM AccountsInvariant == AccountsSpec => []AInv
  BY AccountsAtFirst, AccountsStep, PTL DEF AccountsSpec

\* Sessions and documents belong to users that exist, whatever was deleted meanwhile.
THEOREM AccountsTyped == AccountsSpec => []AccountsTypeOK
<1>1. AInv => AccountsTypeOK
  BY AccountNulls DEF AInv, RowsFit, AccountsTypeOK, IsUser, UserRecord, SessionRecord,
     InviteRecord, RequestRecord
<1> QED
  BY <1>1, AccountsInvariant, PTL

\* No number of logins at once gives an account more sessions than the limit.
THEOREM SessionsAreBounded == AccountsSpec => []SessionsBounded
<1>1. AInv => SessionsBounded
  BY DEF AInv, RowsFit, SessionsBounded, SessionsOf
<1> QED
  BY <1>1, AccountsInvariant, PTL

\* Which steps change user rows and invitations.
LEMMA UsersChange ==
  ASSUME AInv, AccountsNext, users' # users
  PROVE  \E p \in Requests :
           /\ (\E s \in Sessions : CommitRegister(p, s)) \/ requests[p].pc \in Holding
           /\ \A v \in Users : v # requests[p].user => users'[v] = users[v]
<1>1. users \in [Users -> UserRecord]
  BY DEF AInv, RowsFit
<1>2. PICK q \in Requests : RequestStep(q)
  BY DEF AccountsNext, CreateInvite, RevokeInvite, ExpireInvite, ExpireSession, PurgeSession,
     FileRemoved
<1>3. \/ \E s \in Sessions : CommitRegister(q, s) \/ CommitChange(q, s) \/ CommitLogin(q, s)
      \/ CommitDelete(q)
  BY <1>2 DEF RequestStep, LockInvite, BeginOpen, InsertUser, RevokeSession, BeginLogin, BeginChange,
     BeginDelete, BeginSessionRequest, BeginUpload, LockUser, DeleteStale, Logout, LogoutAll,
     RemoveSessions, InsertDocument, Rollback
<1>4. ASSUME NEW s \in Sessions, CommitRegister(q, s)
      PROVE  \A v \in Users : v # requests[q].user => users'[v] = users[v]
  BY <1>1, <1>4 DEF CommitRegister
<1>5. ASSUME NEW s \in Sessions, CommitChange(q, s)
      PROVE  /\ requests[q].pc \in Holding
             /\ \A v \in Users : v # requests[q].user => users'[v] = users[v]
  BY <1>1, <1>5 DEF CommitChange, Holding
<1>6. ASSUME NEW s \in Sessions, CommitLogin(q, s)
      PROVE  /\ requests[q].pc \in Holding
             /\ \A v \in Users : v # requests[q].user => users'[v] = users[v]
  BY <1>1, <1>6 DEF CommitLogin, Holding
<1>7. CASE CommitDelete(q)
  BY <1>1, <1>7 DEF CommitDelete, Holding
<1> QED
  BY <1>3, <1>4, <1>5, <1>6, <1>7

LEMMA InvitesChange ==
  ASSUME AInv, AccountsNext, NEW i \in Invites, invites'[i].used # invites[i].used
  PROVE  \E q \in Requests, s \in Sessions : CommitRegister(q, s) /\ requests[q].invite = i
<1>1. invites \in [Invites -> InviteRecord]
  BY DEF AInv, RowsFit
<1>2. ASSUME NEW k \in Invites, CreateInvite(k) \/ RevokeInvite(k) \/ ExpireInvite(k) PROVE FALSE
  <2>1. invites'[i].used = invites[i].used
    BY <1>1, <1>2 DEF CreateInvite, RevokeInvite, ExpireInvite, InviteRecord
  <2> QED
    BY <2>1
<1>3. PICK q \in Requests : RequestStep(q)
  BY <1>2 DEF AccountsNext, ExpireSession, PurgeSession, FileRemoved
<1>4. PICK s \in Sessions : CommitRegister(q, s)
  BY <1>3 DEF RequestStep, LockInvite, BeginOpen, InsertUser, CommitChange, RevokeSession, BeginLogin,
     BeginChange, BeginDelete, CommitLogin, BeginSessionRequest, BeginUpload, LockUser, DeleteStale,
     CommitDelete, Logout, LogoutAll, RemoveSessions, InsertDocument, Rollback
<1>5. requests[q].invite = i
  BY <1>1, <1>4 DEF CommitRegister
<1> QED
  BY <1>4, <1>5

\* A row that comes for the user of a registration is that registration's.
LEMMA WhoRegisters ==
  ASSUME AInv, AccountsNext, NEW q \in Requests, Registers(q)
  PROVE  \E s \in Sessions : CommitRegister(q, s)
<1>1. requests[q].pc = "inserted" /\ users'[requests[q].user] # users[requests[q].user]
      /\ requests[q].user \in Users
  BY DEF Registers, AInv, RequestFits
<1>2. PICK p \in Requests :
        /\ (\E s \in Sessions : CommitRegister(p, s)) \/ requests[p].pc \in Holding
        /\ \A v \in Users : v # requests[p].user => users'[v] = users[v]
  BY <1>1, UsersChange
<1>3. requests[p].user = requests[q].user
  BY <1>1, <1>2
<1>4. p = q
  BY <1>1, <1>3 DEF AInv, Apart
<1> QED
  BY <1>1, <1>2, <1>4 DEF Holding

LEMMA Registration ==
  ASSUME AInv, AccountsNext
  PROVE  /\ \A q \in Requests : LET i == requests[q].invite IN
              Registers(q) /\ i # NoInvite
                => ~invites[i].used /\ ~invites[i].revoked /\ invites'[i].used
         /\ \A i \in Invites : invites'[i].used # invites[i].used
              => \E q \in Requests : Registers(q) /\ requests[q].invite = i
<1>1. ASSUME NEW q \in Requests, NEW s \in Sessions, CommitRegister(q, s)
      PROVE  /\ Registers(q)
             /\ requests[q].invite # NoInvite =>
                  /\ ~invites[requests[q].invite].used /\ ~invites[requests[q].invite].revoked
                  /\ invites'[requests[q].invite].used
  <2>1. /\ requests[q] \in RequestRecord /\ requests[q].pc = "inserted"
        /\ requests[q].email \in Emails
        /\ requests[q].user \in Users /\ users[requests[q].user].email = NoEmail
        /\ requests[q].invite # NoInvite =>
             ~invites[requests[q].invite].used /\ ~invites[requests[q].invite].revoked
    BY <1>1 DEF CommitRegister, AInv, RequestFits, Registering
  <2>2. users \in [Users -> UserRecord] /\ invites \in [Invites -> InviteRecord]
    BY DEF AInv, RowsFit
  <2>3. users'[requests[q].user].email = requests[q].email
    BY <1>1, <2>1, <2>2 DEF CommitRegister
  <2>4. Registers(q)
    BY <2>1, <2>3, AccountNulls DEF Registers
  <2>5. requests[q].invite # NoInvite => invites'[requests[q].invite].used
    BY <1>1, <2>1, <2>2 DEF CommitRegister, RequestRecord, InviteRecord
  <2> QED
    BY <2>1, <2>4, <2>5
<1>2. ASSUME NEW q \in Requests, Registers(q), requests[q].invite # NoInvite
      PROVE  /\ ~invites[requests[q].invite].used /\ ~invites[requests[q].invite].revoked
             /\ invites'[requests[q].invite].used
  BY <1>1, <1>2, WhoRegisters
<1>3. ASSUME NEW i \in Invites, invites'[i].used # invites[i].used
      PROVE  \E q \in Requests : Registers(q) /\ requests[q].invite = i
  BY <1>1, <1>3, InvitesChange
<1> QED
  BY <1>2, <1>3

\* An invitation is used up by the one registration it admits, and by nothing else.
THEOREM InvitesAdmitOnce == AccountsSpec => InviteAdmitsOnce
<1> DEFINE Once ==
      /\ \A q \in Requests : LET i == requests[q].invite IN
           Registers(q) /\ i # NoInvite
             => ~invites[i].used /\ ~invites[i].revoked /\ invites'[i].used
      /\ \A i \in Invites : invites'[i].used # invites[i].used
             => \E q \in Requests : Registers(q) /\ requests[q].invite = i
<1>1. AInv /\ [AccountsNext]_accountVars => [Once]_accountVars
  <2>1. AInv /\ AccountsNext => Once
    BY Registration
  <2> QED
    BY <2>1
<1> QED
  BY <1>1, AccountsInvariant, PTL DEF AccountsSpec, InviteAdmitsOnce

\* Where a document that loses its owner leaves its file.
LEMMA FilesAreQueued ==
  ASSUME AInv, AccountsNext, NEW f \in Files, owner[f] # NoUser, owner'[f] # owner[f]
  PROVE  f \in queued'
<1>1. owner \in [Files -> Users \cup {NoUser}]
  BY DEF AInv, RowsFit
<1>2. PICK q \in Requests : RequestStep(q)
  BY DEF AccountsNext, CreateInvite, RevokeInvite, ExpireInvite, ExpireSession, PurgeSession,
     FileRemoved
<1>3. CommitDelete(q) \/ InsertDocument(q)
  BY <1>2 DEF RequestStep, LockInvite, BeginOpen, InsertUser, RevokeSession, BeginLogin, BeginChange,
     BeginDelete, BeginSessionRequest, BeginUpload, LockUser, DeleteStale, Logout, LogoutAll,
     RemoveSessions, CommitRegister, CommitChange, CommitLogin, Rollback
<1>4. CASE CommitDelete(q)
  BY <1>1, <1>4 DEF CommitDelete
<1>5. CASE InsertDocument(q)
  <2>1. owner[requests[q].file] = NoUser
    BY <1>5 DEF InsertDocument, AInv, RequestFits
  <2> QED
    BY <1>1, <1>5, <2>1 DEF InsertDocument
<1> QED
  BY <1>3, <1>4, <1>5

\* A deletion leaves no session, no document and no file that nobody will remove.
THEOREM DeletionsLeaveNothing == AccountsSpec => AccountLeavesNothing
<1> DEFINE Nothing ==
      /\ \A f \in Files : owner[f] # NoUser /\ owner'[f] # owner[f] => f \in queued'
      /\ \A u \in Users : users'[u].email = NoEmail
           => /\ \A f \in Files : owner'[f] # u
              /\ \A s \in Sessions : sessions'[s].user # u
<1>1. AInv /\ [AccountsNext]_accountVars => [Nothing]_accountVars
  <2>1. ASSUME AInv, AccountsNext PROVE Nothing
    <3>1. AInv'
      BY <2>1, AccountsStep
    <3>2. ASSUME NEW u \in Users, users'[u].email = NoEmail
          PROVE  /\ \A f \in Files : owner'[f] # u
                 /\ \A s \in Sessions : sessions'[s].user # u
      BY <3>1, <3>2, AccountNulls DEF AInv, RowsFit
    <3> QED
      BY <2>1, <3>2, FilesAreQueued
  <2> QED
    BY <2>1
<1> QED
  BY <1>1, AccountsInvariant, PTL DEF AccountsSpec, AccountLeavesNothing

=============================================================================
