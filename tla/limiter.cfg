SPECIFICATION FairSpec
CONSTANTS
  Background = {b1, b2}
  Recovered = {c1, c2}
  MaxActive = 2
  Batch = 2
  Threads = 1
  MaxCancels = 1
INVARIANTS TypeOK SlotsAccounted CapacityKept NoIdleSlot
PROPERTIES WaitersServed CapacityReturns
