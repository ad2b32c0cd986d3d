CONSTANTS
  t1 = t1
  t2 = t2
  c1 = c1
  c2 = c2
  k1 = k1
  k2 = k2
  p1 = p1
  p2 = p2
  NoTxn = NoTxn
  NoId = NoId
  NoCall = NoCall
  BadCall = BadCall
  Txns = {t1, t2}
  Consumers = {}
  Ids = {1, 2, 3, 4}
  Keys = {k1, k2}
  Payloads = {p1, p2}
  MaxPerMinute = 1
  Minute = 2
  DedupWindow = 3
  PruneAge = 4
  MaxTxn = 1
  MaxTime = 3
  MaxFaults = 0
SPECIFICATION Spec
SYMMETRY Symmetry
INVARIANT TypeOK
INVARIANT RateCap
INVARIANT NoDuplicateInWindow
