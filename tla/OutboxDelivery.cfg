CONSTANTS
  t1 = t1
  t2 = t2
  c1 = c1
  c2 = c2
  k1 = k1
  k2 = k2
  p1 = p1
  p2 = p2
  NoTxn = NoTxn
  NoId = NoId
  NoCall = NoCall
  BadCall = BadCall
  Txns = {t1}
  Consumers = {c1, c2}
  Ids = {1, 2}
  Keys = {k1}
  Payloads = {p1}
  MaxPerMinute = 1
  Minute = 1
  DedupWindow = 0
  PruneAge = 2
  MaxTxn = 1
  MaxTime = 3
  MaxFaults = 1
SPECIFICATION FairSpec
INVARIANT RateCap
INVARIANT DeliveredBeforePruned
INVARIANT OneFreshDelivery
PROPERTY EveryEventDelivered
