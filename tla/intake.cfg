SPECIFICATION FairSpec
CONSTANTS
  ann = ann
  bob = bob
  h1 = h1
  h2 = h2
  w1 = w1
  w2 = w2
  Lines = {ann, bob}
  Senders = {ann, bob}
  NoLine = NoLine
  Kinds = {"image", "recall", "review", "other"}
  Hooks = {h1, h2}
  Deliveries <- AllDeliveries
  Limit = 2
  NoSender = NoSender
  MaxUsers = 4
  Workers = {w1, w2}
  Models = 1
  MaxObjects = 4
  MaxRetry = 1
  Agendas <- AllAgendas
CHECK_DEADLOCK FALSE
INVARIANTS
  TypeOK
  WindowHolds
  OneIdentity
  PicturesAreKept
  ShownToItsSender
PROPERTIES
  CountersEnd
