CONSTANTS
  w1 = w1
  w2 = w2
  NoDb = NoDb
  NoWorker = NoWorker
  Gone = Gone
  Databases = {1, 2}
  Workers = {w1, w2}
  MaxFaults = 2
  MaxChanges = 2
SPECIFICATION FairSpec
INVARIANT TypeOK
INVARIANT OneWorkerPerDatabase
PROPERTY InstalledServed
PROPERTY DroppedReleased
PROPERTY ShutdownStopsWorkers
CHECK_DEADLOCK FALSE
