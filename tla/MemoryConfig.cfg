CONSTANTS
  c1 = c1
  c2 = c2
  r1 = r1
  r2 = r2
  v1 = v1
  v2 = v2
  m1 = m1
  m2 = m2
  NoRow = NoRow
  NoOne = NoOne
  Unset = Unset
  Clients = {c1, c2}
  Roles = {r1, r2}
  SessionUser <- MCSessionUser
  Assumable <- MCAssumable
  Superusers = {r1}
  Items <- MCItems
  Values = {r1, r2, v1, v2}
  Vendors = {v1, v2}
  Switches = {v1, v2}
  Guc <- MCGuc
  Memories = {}
  Near <- MCNear
  TextRank <- MCTextRank
  Scale = 4
  Alpha = 1
  Limits = {1, 2}
  Overfetch = 2
  Floor = 1
  HitCap = 2
  StartTime = 0
  EndTime = 0
  MaxWrites = 2
SPECIFICATION Spec
INVARIANT TableServesEveryone
