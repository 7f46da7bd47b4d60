SPECIFICATION Spec
CONSTANTS
  Appenders = {a1, a2}
  GoRelays = {g1, g2}
  NodeRelays = {n1}
  Namespaces = {"u1", "u2"}
  Topics <- AllTopics
  PayloadKeys = {"namespace", "Namespace"}
  TableColumns = {"status", "attempts", "lastError", "publishedAt"}
  BatchSize = 2
  MaxEvents = 2
SYMMETRY Symmetry
INVARIANT TypeOK
INVARIANT OutboxRowsHaveEvents
INVARIANT StreamIsFenced
INVARIANT MarkingIsStreamed
 
