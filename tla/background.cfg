SPECIFICATION MCSpec
CHECK_DEADLOCK FALSE
CONSTANTS
  Parts = {"outbox", "rebuild", "loop", "calls"}
  Scopes = {s1, s2}
  Keys = {k1}
  Workers = {w1, w2}
  Tokens = {t1, t2, t3, t4}
  NoToken = NoToken
  Batch = 2
  MaxFaults = 1
  Configs = {c1, c2}
  NoConfig = NoConfig
  Docs = {d1}
  Uploads = {}
  Rebuilds = {j1, j2}
  Kinds = {"all"}
  Executions = {e1, e2}
  NoExecution = NoExecution
  NoDoc = NoDoc
  NoRebuild = NoRebuild
  MaxChanges = 1
  MaxTroubles = 1
  Deletes = {r1, r2}
  MaxFailures = 2
  Calls = {a1, a2, a3, a4}
  CallLimit = 2
PROPERTIES DeletionsEnd WakeupsServed RebuildsEnd CallsServed
