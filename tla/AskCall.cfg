CONSTANTS
  r1 = r1
  r2 = r2
  NoRole = NoRole
  Roles = {r1, r2}
  MaxIterations = 2
  MaxCalls = 2
  MaxAsks = 2
  SetInTxn = FALSE
SPECIFICATION FairSpec
INVARIANT TypeOK
INVARIANT CallsAnswered
INVARIANT ReadOnlyScoped
INVARIANT QueriesAudited
INVARIANT RaisedMeansUndone
PROPERTY CallEnds
