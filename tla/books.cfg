SPECIFICATION Spec
CONSTANTS
  Ids = {t1, t2}
  Businesses = {shop}
  Personal = personal
  Projects = {house}
  Drafts <- SomeDrafts
  Today = 5
  MonthDays = 2
  WeekDays = 2
  LongSpan = 3
  CashflowCap = 4
  CategoryLimit = 2
  SummaryLimit = 1
  RecentLimit = 1
  Presets <- AllPresets
  CustomRanges <- SomeRanges
  MaxWrites = 3
SYMMETRY Symmetry
INVARIANTS
  TypeOK
  PartsAgree
  PartsGrow
  EachDayOnce
