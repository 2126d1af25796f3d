SPECIFICATION MCFairSpec
CONSTANTS
  Jobs = {j1}
  Docs = {d1}
  Runs = {r1, r2, r3}
  NoRun = NoRun
  NoJob = NoJob
  NoDoc = NoDoc
  MaxCrashes = 2
  FalseStale = FALSE
PROPERTIES JobsEnd UploadsAreTaken StagesEnd
