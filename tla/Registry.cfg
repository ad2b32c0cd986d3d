CONSTANTS
  c1 = c1
  c2 = c2
  r1 = r1
  r2 = r2
  tool = tool
  rel = rel
  NoRow = NoRow
  NoOne = NoOne
  NoEntry = NoEntry
  Clients = {c1, c2}
  Roles = {r1, r2}
  SessionUser <- MCSessionUser
  Assumable <- MCAssumable
  Superusers = {r1}
  Items = {tool, rel}
  Values = {r1, r2}
  Names = {tool}
  Relations = {rel}
  Callers = {c1}
  Budgets = {0, 1}
  ToolTTL = 2
  SchemaTTL = 2
  StartTime = 2
  EndTime = 4
  MaxWrites = 2
SPECIFICATION Spec
INVARIANT TypeOK
INVARIANT CachesLagBounded
INVARIANT BodyOfOwner
PROPERTY NameStaysWithOwner
