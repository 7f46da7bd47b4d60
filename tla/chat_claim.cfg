SPECIFICATION Spec
CONSTANTS
  Workers = {w1}
  Jobs = {j1, j2, j3}
  Messages = {m1, m2, m3}
  Sayings <- QuestionSayings
  TxIds = {t1, t2}
  NoTx = NoTx
  Amounts = {1, 2}
  NoPending = NoPending
  Nobody = Nobody
  MaxRetry = 1
SYMMETRY Symmetric
CHECK_DEADLOCK FALSE
INVARIANTS
  ClaimedIsRecorded
