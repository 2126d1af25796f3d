SPECIFICATION MCSpec
CONSTANTS
  Jobs = {j1, j2}
  Docs = {d1}
  Runs = {r1, r2}
  NoRun = NoRun
  NoJob = NoJob
  NoDoc = NoDoc
  MaxCrashes = 1
  FalseStale = TRUE
SYMMETRY Symmetry
PROPERTIES NoSideEffects
