SPECIFICATION MCSpec
CONSTANTS
  Jobs = {j1}
  Docs = {d1}
  Runs = {r1}
  NoRun = NoRun
  NoJob = NoJob
  NoDoc = NoDoc
  MaxCrashes = 1
  FalseStale = FALSE
SYMMETRY Symmetry
PROPERTIES CommittedIndexKept
