SPECIFICATION FairSpec
CONSTANTS
  Sessions = {s1, s2}
  Messages = {}
  TxIds = {t1}
  Uuids = {u1}
  Projects = {p1, p2}
  Amounts = {1, 2}
  MaxEvents = 3
  MaxMutations = 2
  AllocInputs <- AllocationLists
  NoCause = NoCause
  NoTx = NoTx
  Free = Free
  p1 = p1
  p2 = p2
INVARIANT AllocationsWithinTolerance
PROPERTY EveryCallReturns
