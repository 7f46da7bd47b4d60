--------------------------- MODULE LedgerReportsInv ---------------------------
(***************************************************************************)
(* The inductive invariant of LedgerReports: what the books look like      *)
(* between two writes, which statements of a report have been read at each *)
(* step, and how what they returned relates to the books.                  *)
(***************************************************************************)
EXTENDS LedgerReports

-----------------------------------------------------------------------------
(* The books.                                                               *)

\* A row that is live is what one of the drafts made of it, with allocations that passed.
RowsAreDrafts ==
  /\ rows = [i \in Ids |-> rows[i]]
  /\ \A i \in Ids : rows[i].status \in {"absent", "live", "deleted"}
  /\ \A i \in Live : \E b \in Books, d \in Drafts :
       rows[i] = Row(b, d) /\ Fits(d.alloc, d.amount)

Entries == [id : Ids, book : Books, status : {"POSTED", "VOID"},
            debit : Nat, credit : Nat, at : Nat]

PostedOf(i) == {e \in journal : e.id = i /\ e.status = "POSTED"}

RowEntry(i) == [id |-> i, book |-> rows[i].book, status |-> "POSTED",
                debit |-> rows[i].amount, credit |-> rows[i].amount, at |-> rows[i].at]

\* The posted entries are those of the live rows.
JournalIsOfRows ==
  /\ IsFiniteSet(journal) /\ journal \subseteq Entries
  /\ \A i \in Ids : PostedOf(i) = IF i \in Live THEN {RowEntry(i)} ELSE {}

BooksInv ==
  /\ RowsAreDrafts
  /\ JournalIsOfRows
  /\ archived \subseteq Projects
  /\ writes \in 0 .. MaxWrites

-----------------------------------------------------------------------------
(* The report.                                                              *)

\* What was read when a statement comes next.
Before ==
  [totals |-> {},
   today |-> {"totals"},
   range |-> {"totals", "today"},
   categories |-> {"totals", "today", "range"},
   cashflow |-> {"totals", "today", "range", "categories"},
   recent |-> {"totals", "today", "range", "categories", "cashflow"},
   allocations |-> {"totals", "today", "range", "categories", "cashflow", "recent"},
   projects |-> {"totals", "today", "range", "categories", "cashflow", "recent", "allocations"},
   check |-> {"totals", "today", "range", "categories", "cashflow", "recent", "allocations",
              "projects"},
   activity |-> {"totals", "today", "range", "categories", "cashflow", "recent", "allocations",
                 "projects", "check"},
   rows |-> {},
   goods |-> {"rows"}]

PersonalParts == Before["activity"] \cup {"activity"}
BusinessParts == Before["goods"] \cup {"goods"}

\* The statements of a personal report and those of a business follow their order.
InOrder ==
  CASE step = "idle" -> DOMAIN read = {}
    [] step = "done" -> DOMAIN read = IF request.book = Personal THEN PersonalParts
                                      ELSE BusinessParts
    [] step \in PersonalParts -> request.book = Personal /\ DOMAIN read = Before[step]
    [] step \in BusinessParts -> request.book # Personal /\ DOMAIN read = Before[step]

RequestIsRange ==
  /\ request.book \in Books
  /\ request.from \in Int /\ request.to \in Int /\ request.from <= request.to
  /\ request.preset = "this_month" => request.from = MonthStart(Today) /\ request.to = Today

ReadTyped == \A s \in DOMAIN read \cap {"totals", "today", "range", "rows"} : read[s] \in Sums

\* What a statement returns now.
Answers(s, v) ==
  CASE s = "totals" -> v = FetchUserTotals
    [] s = "today" -> v = FetchToday
    [] s = "range" -> v = FetchTotalsRange
    [] s = "categories" -> v \in FetchExpenseCategories
    [] s = "cashflow" -> v = FetchCashflowRange
    [] s = "recent" -> \E S \in FetchRecent : v = Shown(S)
    [] s = "allocations" -> v = FetchAllocations
    [] s = "projects" -> v = ListProjects
    [] s = "check" -> v = FetchLedgerCheck
    [] s = "activity" -> v = FetchMonthActivity
    [] s = "rows" -> v = Totals(Asked)
    [] s = "goods" -> v \in {0, Sum(CostOfGoods(Asked))}

\* What it returned is what it would return now.
Fresh(s) == Answers(s, read[s])

\* No write came between.
AllFresh == overtaken = "none" => \A s \in DOMAIN read : Fresh(s)

-----------------------------------------------------------------------------
(* New rows only add to what the parts that were read before them show.     *)

FlowBelow ==
  /\ DOMAIN read["cashflow"] = CashflowDays
  /\ \A d \in CashflowDays :
       /\ read["cashflow"][d].income \in Nat /\ read["cashflow"][d].expense \in Nat
       /\ read["cashflow"][d].income <= FetchCashflowRange[d].income
       /\ read["cashflow"][d].expense <= FetchCashflowRange[d].expense

RangeBelow ==
  /\ read["range"].income <= FetchTotalsRange.income
  /\ read["range"].expense <= FetchTotalsRange.expense

CategoriesBelow ==
  Listed(read["categories"]) \in Nat /\ Listed(read["categories"]) <= FetchTotalsRange.expense

RecentBelow ==
  /\ DOMAIN read["recent"] \subseteq Asked
  /\ read["recent"] = Shown(DOMAIN read["recent"])

Below ==
  overtaken # "changed" =>
    /\ "range" \in DOMAIN read => RangeBelow
    /\ "categories" \in DOMAIN read => CategoriesBelow
    /\ "cashflow" \in DOMAIN read => FlowBelow
    /\ "recent" \in DOMAIN read => RecentBelow
    /\ "allocations" \in DOMAIN read => read["allocations"] = FetchAllocations

\* What the check was at least when it was read.
CheckAbove ==
  overtaken # "changed" /\ "check" \in DOMAIN read =>
    LET range == read["range"]
        flow == read["cashflow"] IN
    /\ range.income + range.expense <= read["check"].debit
    /\ DOMAIN flow = request.from .. request.to =>
         Spent(flow) + Earned(flow) <= read["check"].debit
    /\ Listed(read["categories"]) <= read["check"].debit

CountAbove ==
  overtaken # "changed" /\ "activity" \in DOMAIN read =>
    Cardinality(DOMAIN read["recent"]) <= read["activity"].count

ReportInv ==
  /\ RequestIsRange
  /\ step \in DOMAIN After \cup {"idle", "done"}
  /\ overtaken \in {"none", "added", "changed"}
  /\ InOrder
  /\ ReadTyped
  /\ AllFresh
  /\ Below
  /\ CheckAbove
  /\ CountAbove

=============================================================================
