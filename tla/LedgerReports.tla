---------------------------- MODULE LedgerReports ----------------------------
(***************************************************************************)
(* The reports of the books (internal/ledger: summary.go, dashboard.go,    *)
(* business.go; internal/liff): a report is several statements, one after  *)
(* the other and without a transaction, each over a range of days that     *)
(* some code made into timestamps.  The writer, whose statements are in    *)
(* PersonalLedger, commits each of its writes in one step here.            *)
(***************************************************************************)
EXTENDS Integers, FiniteSets, FiniteSetsExt

CONSTANTS
  Ids,            \* transactions
  Businesses,     \* the user's businesses; everything else is his personal book
  Personal,
  Projects,
  Drafts,         \* what a transaction may be written with
  Today,          \* the day the reports are read on; days are numbered
  MonthDays,      \* days in a month of this calendar, and in a week
  WeekDays,
  LongSpan,       \* days of last_30_days
  CashflowCap,    \* longest cashflow, 366 days
  CategoryLimit,  \* categories that the dashboard lists, 8
  SummaryLimit,   \* categories that a summary in the chat lists, 5
  RecentLimit,    \* transactions that are listed, 200
  Presets,        \* presets and ranges of days that are asked for
  CustomRanges,
  MaxWrites       \* bound on the writes of a behaviour

ASSUME CalendarAssumption ==
  /\ Today \in Nat
  /\ {MonthDays, WeekDays, LongSpan} \subseteq Nat \ {0}
  /\ CashflowCap \in Nat \ {0, 1}
  /\ Presets \subseteq {"today", "yesterday", "last_7_days", "last_30_days", "this_week",
                       "this_month", "last_month", "this_quarter", "this_year"}
  /\ CustomRanges \subseteq Int \X Int
ASSUME BooksAssumption ==
  /\ IsFiniteSet(Ids) /\ IsFiniteSet(Projects)
  /\ \A d \in Drafts : /\ d.type \in {"INCOME", "EXPENSE"} /\ d.amount \in Nat /\ d.at \in Nat
                       /\ d.alloc \in [Projects -> Nat]
                       /\ d.category # ""  \* the parser's default, and UpdateTransaction
ASSUME LimitsAssumption == {CategoryLimit, SummaryLimit, RecentLimit, MaxWrites} \subseteq Nat

Books == {Personal} \cup Businesses

VARIABLES
  rows,       \* transactions: [book, type, amount, category, at, alloc, status]
  journal,    \* journal entries with their two lines: [id, book, status, debit, credit, at]
  archived,   \* projects that were deleted
  writes,     \* commits so far
  request,    \* the report being read: [book, preset, from, to], days inclusive
  step,       \* the statement that comes next, or "idle", or "done"
  read,       \* what the statements before it returned, by their names
  overtaken   \* writes since the report began: "none", "added" (new rows only), "changed"

bookVars == <<rows, journal, archived, writes>>
reportVars == <<request, step, read>>
vars == <<bookVars, reportVars, overtaken>>

-----------------------------------------------------------------------------
(* Time.  A day has three instants: midnight, one up to 23:59:59, and one   *)
(* in its last second.                                                      *)

Midnight(d) == 3 * d
LastSecond(d) == 3 * d + 2
DayOf(at) == at \div 3
MonthOf(d) == d \div MonthDays
MonthStart(d) == d - (d % MonthDays)
WeekStart(d) == d - (d % WeekDays)
QuarterStart(d) == d - (d % (3 * MonthDays))
YearStart(d) == d - (d % (12 * MonthDays))
Within(at, range) == range[1] <= at /\ at <= range[2]

\* A day's last nanosecond in RFC3339Nano, which the database rounds to a microsecond:
\* the next midnight.
NanoRange(from, to) == <<Midnight(from), Midnight(to + 1)>>

\* In RFC3339: its last second, without the fraction.
SecondRange(from, to) == <<Midnight(from), LastSecond(to) - 1>>

\* Mutant: the range of a day written with its nanoseconds.
LocalDayNano(d) == NanoRange(d, d)
LocalDayRange(d) == SecondRange(d, d)
LocalMonthRange(d) == SecondRange(MonthStart(d), MonthStart(d) + MonthDays - 1)

\* parseDashboardRange.
PresetRange(preset) ==
  CASE preset = "today" -> <<Today, Today>>
    [] preset = "yesterday" -> <<Today - 1, Today - 1>>
    [] preset = "last_7_days" -> <<Today - (WeekDays - 1), Today>>
    [] preset = "last_30_days" -> <<Today - (LongSpan - 1), Today>>
    [] preset = "this_week" -> <<WeekStart(Today), Today>>
    [] preset = "this_month" -> <<MonthStart(Today), Today>>
    [] preset = "last_month" -> <<MonthStart(Today) - MonthDays, MonthStart(Today) - 1>>
    [] preset = "this_quarter" -> <<QuarterStart(Today), Today>>
    [] preset = "this_year" -> <<YearStart(Today), Today>>

Nobody == [book |-> Personal, preset |-> "none", from |-> 0, to |-> 0]

Init ==
  /\ rows = [i \in Ids |-> [status |-> "absent"]]
  /\ journal = {}
  /\ archived = {}
  /\ writes = 0
  /\ request = Nobody
  /\ step = "idle"
  /\ read = <<>>
  /\ overtaken = "none"

-----------------------------------------------------------------------------
(* The writer.                                                              *)

Live == {i \in Ids : rows[i].status = "live"}
Writes(kind) ==
  /\ writes < MaxWrites
  /\ writes' = writes + 1
  /\ overtaken' = IF step = "idle" \/ overtaken = "changed" THEN overtaken ELSE kind

Row(book, d) == [book |-> book, type |-> d.type, amount |-> d.amount, category |-> d.category,
                 at |-> d.at, alloc |-> d.alloc, status |-> "live"]

Entry(i, book, d) == [id |-> i, book |-> book, status |-> "POSTED",
                      debit |-> d.amount, credit |-> d.amount, at |-> d.at]

Voided(i) == {IF e.id = i THEN [e EXCEPT !.status = "VOID"] ELSE e : e \in journal}

Allocated(alloc) == SumFunctionOnSet(alloc, Projects)

\* What allocations may exceed an amount by, in half satangs, as theorem Tolerance of
\* PersonalLedgerPromise has it: the one satang that validateAllocations lets pass and
\* the half satang by which each of them may have been rounded up.
Slack(alloc) ==
  LET rounded == Cardinality({p \in Projects : alloc[p] > 0}) IN
  IF rounded = 0 THEN 0 ELSE 2 + rounded

Fits(alloc, amount) == 2 * Allocated(alloc) <= 2 * amount + Slack(alloc)

\* validateAllocations.
AllocationsPass(book, d) ==
  /\ Fits(d.alloc, d.amount)
  /\ \A p \in Projects : d.alloc[p] > 0 => book = Personal /\ p \notin archived

Create(i, book, d) ==
  /\ rows[i].status = "absent"
  /\ AllocationsPass(book, d)
  /\ Writes("added")
  /\ rows' = [rows EXCEPT ![i] = Row(book, d)]
  /\ journal' = journal \cup {Entry(i, book, d)}
  /\ UNCHANGED <<archived, reportVars>>

\* CreatePersonalTransaction.
CreatePersonal(i, d) == Create(i, Personal, d)

\* CreateBusinessTransaction, from a sale or a purchase that happens now.
CreateBusiness(i, book, d) ==
  /\ <<d.type, d.category>> \in {<<"INCOME", "sale">>, <<"EXPENSE", "goods">>}
  /\ DayOf(d.at) <= Today
  /\ Create(i, book, d)

\* Mutant: the old entry stays posted.
EditWithoutVoid(i, d) ==
  /\ i \in Live
  /\ rows[i].book = Personal
  /\ AllocationsPass(Personal, d)
  /\ Writes("changed")
  /\ rows' = [rows EXCEPT ![i] = Row(Personal, d)]
  /\ journal' = journal \cup {Entry(i, Personal, d)}
  /\ UNCHANGED <<archived, reportVars>>

\* UpdateTransaction; the namespace of the caller is his personal one.
Edit(i, d) ==
  /\ i \in Live
  /\ rows[i].book = Personal
  /\ AllocationsPass(Personal, d)
  /\ Writes("changed")
  /\ rows' = [rows EXCEPT ![i] = Row(Personal, d)]
  /\ journal' = Voided(i) \cup {Entry(i, Personal, d)}
  /\ UNCHANGED <<archived, reportVars>>

\* DeleteTransaction.
Remove(i) ==
  /\ i \in Live
  /\ rows[i].book = Personal
  /\ Writes("changed")
  /\ rows' = [rows EXCEPT ![i].status = "deleted", ![i].alloc = [p \in Projects |-> 0]]
  /\ journal' = Voided(i)
  /\ UNCHANGED <<archived, reportVars>>

\* DeleteProject leaves the allocations of the project.
Archive(p) ==
  /\ p \notin archived
  /\ Writes("changed")
  /\ archived' = archived \cup {p}
  /\ UNCHANGED <<rows, journal, reportVars>>

-----------------------------------------------------------------------------
(* What the statements return.                                              *)

Of(book) == {i \in Live : rows[i].book = book}
InRange(book, range) == {i \in Of(book) : Within(rows[i].at, range)}
Typed(S, type) == {i \in S : rows[i].type = type}
Sum(S) == SumFunction([i \in S |-> rows[i].amount])
Totals(S) == [income |-> Sum(Typed(S, "INCOME")), expense |-> Sum(Typed(S, "EXPENSE"))]

\* ORDER BY key DESC LIMIT n: ties go either way.
Top(n, S, key) ==
  {T \in SUBSET S : /\ Cardinality(T) = IF Cardinality(S) < n THEN Cardinality(S) ELSE n
                    /\ \A t \in T, s \in S \ T : key[s] <= key[t]}

ByCategory(S) == [c \in {rows[i].category : i \in S} |-> Sum({i \in S : rows[i].category = c})]

\* The first n categories of some sums.
Listing(n, sums) == {[c \in T |-> sums[c]] : T \in Top(n, DOMAIN sums, sums)}

\* categoryTotals passes over rows without a category.
CategoryTotals(S) == ByCategory({i \in S : rows[i].category # ""})

\* The answers of the chat: a day, a month, everything.
FetchUserRange(range) == InRange(Personal, range)
PeriodSummary(S) ==
  {[sums |-> Totals(S), categories |-> top] :
     top \in Listing(SummaryLimit, CategoryTotals(Typed(S, "EXPENSE")))}
TodaySummary(d) == FetchUserRange(LocalDayRange(d))
MonthSummary(d) == FetchUserRange(LocalMonthRange(d))
Balance == Totals(Of(Personal)).income - Totals(Of(Personal)).expense

\* The range of the request as the statements are given it.
AskedRange == NanoRange(request.from, request.to)
Asked == InRange(request.book, AskedRange)

FetchUserTotals == Totals(Of(Personal))
FetchToday == Totals(InRange(Personal, LocalDayRange(Today)))
FetchTotalsRange == Totals(Asked)

FetchExpenseCategories == Listing(CategoryLimit, ByCategory(Typed(Asked, "EXPENSE")))

\* The days of the cashflow: a longer range is cut to the year that ends with it, a day
\* less than the longest.
CashflowDays ==
  IF request.to - request.from + 1 > CashflowCap
  THEN request.to - (CashflowCap - 2) .. request.to
  ELSE request.from .. request.to

\* A row of a day that is not among them is passed over.
FetchCashflowRange ==
  LET start == Min(CashflowDays)
      found == InRange(Personal, NanoRange(start, request.to)) IN
  [d \in CashflowDays |-> Totals({i \in found : DayOf(rows[i].at) = d})]

FetchRecent ==
  Top(RecentLimit, Asked, [i \in Asked |-> rows[i].at])

Shown(S) == [i \in S |-> [type |-> rows[i].type, amount |-> rows[i].amount]]

FetchAllocations == [i \in DOMAIN read["recent"] |-> Allocated(rows[i].alloc)]

\* ListProjects joins the allocations with the transactions of the range.
ListProjects ==
  [p \in Projects \ archived |->
     LET sum(type) == SumFunction([i \in Typed(Asked, type) |-> rows[i].alloc[p]]) IN
     [income |-> sum("INCOME"), expense |-> sum("EXPENSE")]]

\* Mutant: entries that were voided count as well.
FetchLedgerCheckOfAll ==
  LET found == {e \in journal : e.book = Personal /\ Within(e.at, AskedRange)} IN
  [debit |-> SumFunction([e \in found |-> e.debit]),
   credit |-> SumFunction([e \in found |-> e.credit])]

FetchLedgerCheck ==
  LET found == {e \in journal : e.book = Personal /\ e.status = "POSTED" /\ Within(e.at, AskedRange)} IN
  [debit |-> SumFunction([e \in found |-> e.debit]),
   credit |-> SumFunction([e \in found |-> e.credit])]

FetchMonthActivity ==
  LET spent == Typed(Asked, "EXPENSE") IN
  [count |-> Cardinality(Asked),
   days |-> Cardinality({DayOf(rows[i].at) : i \in spent}),
   largest |-> IF spent = {} THEN 0 ELSE Max({rows[i].amount : i \in spent})]

\* The last week of the cashflow and the week before it.
SplitCashflowExpense(cashflow) ==
  LET ago(a, b) == {d \in DOMAIN cashflow : request.to - b < d /\ d <= request.to - a}
      spent(S) == SumFunction([d \in S |-> cashflow[d].expense]) IN
  [recent |-> spent(ago(0, WeekDays)), previous |-> spent(ago(WeekDays, 2 * WeekDays))]

CostOfGoods(S) == {i \in S : rows[i].type = "EXPENSE" /\ rows[i].category = "goods"}

ComputeBusinessProfit(range) ==
  LET found == InRange(request.book, range) IN
  [gross |-> Totals(found).income - Sum(CostOfGoods(found)),
   net |-> Totals(found).income - Totals(found).expense]

\* The web app asks in seconds, the chat from the first of the month up to now.
WebProfit == ComputeBusinessProfit(SecondRange(request.from, request.to))
ChatProfit == ComputeBusinessProfit(<<Midnight(MonthStart(Today)), Midnight(Today) + 1>>)

-----------------------------------------------------------------------------
(* A report.                                                                *)

\* Mutant: the ledger check first.
AfterCheckFirst ==
  [totals |-> "today", today |-> "check", check |-> "range", range |-> "categories",
   categories |-> "cashflow", cashflow |-> "recent", recent |-> "allocations",
   allocations |-> "projects", projects |-> "activity", activity |-> "done",
   rows |-> "goods", goods |-> "done"]

After ==
  [totals |-> "today", today |-> "range", range |-> "categories", categories |-> "cashflow",
   cashflow |-> "recent", recent |-> "allocations", allocations |-> "projects",
   projects |-> "check", check |-> "activity", activity |-> "done",
   rows |-> "goods", goods |-> "done"]

Begin(book, preset, from, to) ==
  /\ step \in {"idle", "done"}
  /\ request' = [book |-> book, preset |-> preset, from |-> from, to |-> to]
  /\ step' = IF book = Personal THEN "totals" ELSE "rows"
  /\ read' = <<>>
  /\ overtaken' = "none"
  /\ UNCHANGED bookVars

\* GET /api/dashboard and /api/businesses/{id}/dashboard.  A range that ends before it
\* begins is refused.
AskPreset(book, p) == Begin(book, p, PresetRange(p)[1], PresetRange(p)[2])

AskCustom(book, range) ==
  /\ range[1] <= range[2]
  /\ Begin(book, "custom", range[1], range[2])

Returns(statement, result) ==
  /\ step = statement
  /\ read' = [s \in DOMAIN read \cup {statement} |-> IF s = statement THEN result ELSE read[s]]
  /\ step' = After[statement]
  /\ UNCHANGED <<bookVars, request, overtaken>>

\* The statements of DashboardWithRange.
DashboardStep ==
  \/ Returns("totals", FetchUserTotals)
  \/ Returns("today", FetchToday)
  \/ Returns("range", FetchTotalsRange)
  \/ \E top \in FetchExpenseCategories : Returns("categories", top)
  \/ Returns("cashflow", FetchCashflowRange)
  \/ \E S \in FetchRecent : Returns("recent", Shown(S))
  \/ Returns("allocations", FetchAllocations)
  \/ Returns("projects", ListProjects)
  \/ Returns("check", FetchLedgerCheck)
  \/ Returns("activity", FetchMonthActivity)

\* The statements of BusinessDashboard; an error of the second leaves zero.
BusinessStep ==
  \/ Returns("rows", Totals(Asked))
  \/ \E goods \in {0, Sum(CostOfGoods(Asked))} : Returns("goods", goods)

\* An error of another statement ends the report without an answer.
ReportFails ==
  /\ step \notin {"idle", "done", "goods"}
  /\ step' = "idle"
  /\ request' = Nobody
  /\ read' = <<>>
  /\ overtaken' = "none"
  /\ UNCHANGED bookVars

Ask ==
  \E book \in Books :
    \/ \E p \in Presets : AskPreset(book, p)
    \/ \E range \in CustomRanges : AskCustom(book, range)

WriterStep ==
  \/ \E i \in Ids, d \in Drafts :
       CreatePersonal(i, d) \/ Edit(i, d) \/ \E b \in Businesses : CreateBusiness(i, b, d)
  \/ \E i \in Ids : Remove(i)
  \/ \E p \in Projects : Archive(p)

Next == WriterStep \/ Ask \/ DashboardStep \/ BusinessStep \/ ReportFails

Spec == Init /\ [][Next]_vars

-----------------------------------------------------------------------------
(* Properties.                                                              *)

Sums == [income : Nat, expense : Nat]

\* Every variable has its type; a live row has one posted entry and the others none.
TypeOK ==
  /\ \A i \in Ids : rows[i].status \in {"absent", "live", "deleted"}
  /\ \A i \in Ids : Cardinality({e \in journal : e.id = i /\ e.status = "POSTED"})
                      = IF i \in Live THEN 1 ELSE 0
  /\ archived \subseteq Projects
  /\ writes \in 0 .. MaxWrites
  /\ request.book \in Books /\ request.from <= request.to
  /\ step \in DOMAIN After \cup {"idle", "done"}
  /\ DOMAIN read \subseteq DOMAIN After
  /\ \A s \in DOMAIN read \cap {"totals", "today", "range", "rows"} : read[s] \in Sums
  /\ overtaken \in {"none", "added", "changed"}

\* Rows of the range that lie on the midnight after it.
Beyond == {i \in Asked : rows[i].at = Midnight(request.to + 1)}

Spent(flow) == SumFunction([d \in DOMAIN flow |-> flow[d].expense])
Earned(flow) == SumFunction([d \in DOMAIN flow |-> flow[d].income])
Listed(categories) == SumFunction(categories)

\* What the rows of S may be allocated beyond their amounts, in half satangs.
SlackOf(S) == SumFunction([i \in S |-> Slack(rows[i].alloc)])

\* An allocation that is shown with a row goes beyond it by the tolerance at most.
SharesFit ==
  \A i \in DOMAIN read["recent"] :
    2 * read["allocations"][i] <= 2 * read["recent"][i].amount + Slack(rows[i].alloc)

IsReport(kind) == step = "done" /\ kind \in DOMAIN read

PersonalPartsAgree ==
  LET range == read["range"]
      flow == read["cashflow"]
      projects == read["projects"]
      activity == read["activity"] IN
  /\ read["check"].debit = read["check"].credit
  /\ read["check"].debit = range.income + range.expense
  /\ Listed(read["categories"]) <= range.expense
  /\ Cardinality(DOMAIN read["categories"]) < CategoryLimit
       => Listed(read["categories"]) = range.expense
  /\ DOMAIN flow = request.from .. request.to =>
       /\ Spent(flow) + Sum(Typed(Beyond, "EXPENSE")) = range.expense
       /\ Earned(flow) + Sum(Typed(Beyond, "INCOME")) = range.income
  /\ LET week == SplitCashflowExpense(flow) IN week.recent + week.previous <= range.expense
  /\ activity.largest <= range.expense
  /\ activity.days <= activity.count
  /\ Cardinality(DOMAIN read["recent"])
       = IF activity.count < RecentLimit THEN activity.count ELSE RecentLimit
  /\ SharesFit
  /\ 2 * SumFunction([p \in DOMAIN projects |-> projects[p].expense])
       <= 2 * range.expense + SlackOf(Typed(Asked, "EXPENSE"))
  /\ 2 * SumFunction([p \in DOMAIN projects |-> projects[p].income])
       <= 2 * range.income + SlackOf(Typed(Asked, "INCOME"))
  /\ range.expense <= read["totals"].expense
  /\ Balance = read["totals"].income - read["totals"].expense
  /\ \A today \in PeriodSummary(TodaySummary(Today)) :
       /\ today.sums = read["today"]
       /\ Listed(today.categories) <= today.sums.expense
       /\ Cardinality(DOMAIN today.categories) < SummaryLimit
            => Listed(today.categories) = today.sums.expense
  /\ request.from = Today /\ request.to = Today =>
       range.expense - read["today"].expense
         = Sum({i \in Typed(Asked, "EXPENSE") : rows[i].at >= LastSecond(Today)})

BusinessPartsAgree ==
  LET late == {i \in Asked : rows[i].at >= LastSecond(request.to)} IN
  /\ read["goods"] <= read["rows"].expense
  /\ WebProfit.net + Totals(late).income - Totals(late).expense
       = read["rows"].income - read["rows"].expense
  /\ WebProfit.net <= WebProfit.gross
  /\ request.preset = "this_month" => ChatProfit = WebProfit

\* dashboard.go:118, business_management.go:76: a report that no write overtook is of
\* one piece, although its statements filter, group and cut their rows each in a way of
\* its own: the journal's total is that of the rows, categories and days add up to the
\* range unless the list is cut, projects to no more than it but for the tolerance of
\* validateAllocations, what is listed is what is counted.
PartsAgree ==
  overtaken = "none" =>
    /\ IsReport("activity") => PersonalPartsAgree
    /\ IsReport("goods") => BusinessPartsAgree

\* dashboard.go:132-164: when only new transactions are recorded while a dashboard is
\* read, no part shows less than a part that was read before it.
PartsGrow ==
  overtaken \in {"none", "added"} /\ IsReport("activity") =>
    LET range == read["range"]
        flow == read["cashflow"] IN
    /\ range.income + range.expense <= read["check"].debit
    /\ DOMAIN flow = request.from .. request.to =>
         Spent(flow) + Earned(flow) <= read["check"].debit
    /\ Listed(read["categories"]) <= read["check"].debit
    /\ SharesFit
    /\ Cardinality(DOMAIN read["recent"]) <= read["activity"].count

\* summary.go:14-15: the ranges match "the user's wall-clock day".  A transaction is in
\* the summary of its own day and month and of no other, but for one in a last second,
\* which is in none of the days, nor, at the end of a month, in the month.
EachDayOnce ==
  \A i \in Of(Personal) :
    LET at == rows[i].at
        day == DayOf(at)
        late == at = LastSecond(day) IN
    /\ {d \in day - 1 .. day + 1 : i \in TodaySummary(d)} = IF late THEN {} ELSE {day}
    /\ {MonthOf(d) : d \in {d \in day - MonthDays .. day + MonthDays : i \in MonthSummary(d)}}
         = IF late /\ MonthOf(day + 1) # MonthOf(day) THEN {} ELSE {MonthOf(day)}

=============================================================================
