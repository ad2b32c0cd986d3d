CONSTANTS
  w1 = w1
  w2 = w2
  NoDb = NoDb
  NoWorker = NoWorker
  Gone = Gone
  Databases = {1, 2}
  Workers = {w1, w2}
  MaxFaults = 1
  MaxChanges = 0
SPECIFICATION Spec
INVARIANT NoDuplicateWorker
CHECK_DEADLOCK FALSE
