CONSTANTS
  t1 = t1
  t2 = t2
  NoTxn = NoTxn
  Txns = {t1, t2}
  TurnLen = 2
  MaxTurns = 4
SPECIFICATION FairSpec
INVARIANT TypeOK
INVARIANT NoKeyClash
INVARIANT TurnsWhole
PROPERTY ImplementsChatLog
PROPERTY CallsEnd
