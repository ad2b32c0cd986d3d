CONSTANTS
  Jobs = {1, 2}
  Workers = {w1}
  Drains = {d1}
  NoPid = NoPid
  NoJob = NoJob
  Raising = {1}
  MaxAttempts = 2
  JobsBatch = 2
  OrphanTimeout = 1
  MaxRun = 1
  MaxClaims = 5
  MaxFaults = 1
  w1 = w1
  w2 = w2
  d1 = d1
SPECIFICATION FairSpec
INVARIANT SingleLiveRun
INVARIANT AttemptBudget
PROPERTY EveryJobSettles
