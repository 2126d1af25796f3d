SPECIFICATION MCSpec
CONSTANTS
  Jobs = {j1, j2, j3, j4}
  Docs = {d1}
  Runs = {r1, r2}
  NoRun = NoRun
  NoJob = NoJob
  NoDoc = NoDoc
  MaxCrashes = 0
  FalseStale = FALSE
SYMMETRY Symmetry
INVARIANTS OneActiveJob
