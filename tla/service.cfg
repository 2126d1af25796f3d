SPECIFICATION MCSpec
CHECK_DEADLOCK FALSE
CONSTANTS
  Parts = {"accounts", "limits", "ready", "calls"}
  Users = {u1, u2}
  Emails = {e1}
  Passwords = {p1, p2}
  Sessions = {s1, s2, s3}
  Invites = {i1}
  Files = {f1}
  Requests = {q1, q2}
  NoUser = NoUser
  NoEmail = NoEmail
  NoPassword = NoPassword
  NoSession = NoSession
  NoInvite = NoInvite
  NoFile = NoFile
  AdminUser = u2
  MaxSessions = 2
  InviteRequired = {TRUE, FALSE}
  AccountScopes = {a1}
  ClientScopes = {c1}
  QuotaScopes = {x1}
  Tries = {t1, t2}
  AccountFailures = 2
  ClientFailures = 1
  QuotaRequests = 1
  LimitWindow = 1
  Lockout = 2
  Retention = 3
  MaxLag = 1
  MaxTime = 4
  Interval <- Pace
  Stale <- Limit
  ClockEnd = 5
  FailureCap = 1
  Calls = {b1, b2, b3, b4}
  CallLimit = 2
SYMMETRY Symmetry
INVARIANTS ServiceTypeOK SessionsBounded CountMeansBlock PromptLoopsReady
PROPERTIES InviteAdmitsOnce AccountLeavesNothing BlockHolds
