CONSTANTS
  Jobs = {1, 2}
  Workers = {w1, w2}
  Drains = {d1}
  NoPid = NoPid
  NoJob = NoJob
  Raising = {2}
  MaxAttempts = 2
  JobsBatch = 2
  OrphanTimeout = 0
  MaxRun = 1
  MaxClaims = 3
  MaxFaults = 1
  w1 = w1
  w2 = w2
  d1 = d1
SPECIFICATION Spec
SYMMETRY Symmetry
INVARIANT TypeOK
INVARIANT AnswerFromLastClaim
PROPERTY TerminalIsFinal
PROPERTY ImplementsAsyncJobs
