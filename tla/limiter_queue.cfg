SPECIFICATION Spec
CONSTANTS
  Background = {b1}
  Recovered = {c1, c2}
  MaxActive = 2
  Batch = 2
  Threads = 1
  MaxCancels = 0
INVARIANTS ClaimedJobsRun
