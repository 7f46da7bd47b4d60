SPECIFICATION Spec
CONSTANTS
  Sessions = {s1, s2, s3}
  Messages = {m1, m2}
  TxIds = {t1, t2}
  Uuids = {u1, u2}
  Projects = {}
  Amounts = {0, 1}
  MaxEvents = 4
  MaxMutations = 0
  AllocInputs <- NoAllocations
  NoCause = NoCause
  NoTx = NoTx
  Free = Free
  p1 = p1
  p2 = p2
SYMMETRY Symmetry
INVARIANTS
  TypeOK
  OneRecordPerCause
  EventIndexNeverHit
  AnswersAgree
  BooksMatchRows
  EventLogRebuildsRows
PROPERTIES
  DeletedIsFinal
  ImplementsPromise
