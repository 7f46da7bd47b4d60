SPECIFICATION FairSpec
CONSTANTS
  c1 = c1
  c2 = c2
  x1 = x1
  x2 = x2
  a = a
  b = b
  Handlers = {h1, h2}
  Compactions = {c1, c2}
  Threshold = 3
  Tail = 1
  SurelyFit = 2
  MaxRetry = 1
  MaxTurns = 4
  Extractions = {x1, x2}
  Reflections = {x2}
  Texts = {t1}
  NoText = NoText
  Slugs = {a, b}
  Links <- OneLink
  Answers <- TwoAnswers
  Readers = {r1}
  Seeds = {a}
  MaxExtractRetry = 1
  MaxUpserts = 2
  MaxWindows = 2
  MaxRetrievals = 2
  Loads <- AllLoads
CHECK_DEADLOCK FALSE
INVARIANTS
  TypeOK
  RememberedUntilDeleted
  OneExtractionPerWindow
  DoneMeansDeleted
PROPERTIES
  TailIsLeft
  OnlyDeletionDeletes
  EveryTaskEnds
