SPECIFICATION FairSpec
CONSTANTS
  Workers = {w1}
  Jobs = {j1, j2}
  Messages = {m1, m2}
  Sayings <- AllSayings
  TxIds = {t1, t2}
  NoTx = NoTx
  Amounts = {1, 2}
  NoPending = NoPending
  Nobody = Nobody
  MaxRetry = 1
CHECK_DEADLOCK FALSE
INVARIANTS
  TypeOK
  IInv
  CardsAreBacked
PROPERTIES
  EveryJobEnds
