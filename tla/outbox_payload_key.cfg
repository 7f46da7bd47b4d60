SPECIFICATION FairSpec
CONSTANTS
  Appenders = {a1}
  GoRelays = {g1}
  NodeRelays = {}
  Namespaces = {"u1"}
  Topics <- PlainTopic
  PayloadKeys = {"namespace"}
  TableColumns = {"status", "attempts", "lastError", "publishedAt"}
  BatchSize = 2
  MaxEvents = 1
PROPERTY AppendedRowsAreStreamed
