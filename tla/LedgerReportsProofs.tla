------------------------- MODULE LedgerReportsProofs -------------------------
(***************************************************************************)
(* Proofs about LedgerReports: which summaries a transaction is in, and    *)
(* how the parts of a report agree, for every calendar and whatever the    *)
(* books hold.                                                             *)
(***************************************************************************)
EXTENDS LedgerReportsInv, SumTheorems

-----------------------------------------------------------------------------
(* Quotients.                                                               *)

\* What a quotient and a remainder are.
LEMMA Divides ==
  ASSUME NEW x \in Int, NEW m \in Nat \ {0}
  PROVE  /\ x \div m \in Int /\ x % m \in 0 .. m - 1
         /\ x = m * (x \div m) + (x % m)
  BY SMT

\* Multiples of m are m apart.
LEMMA Apart ==
  ASSUME NEW m \in Nat \ {0}, NEW p \in Int, NEW q \in Int, p < q
  PROVE  m * p + m <= m * q
  <1>1. q - p - 1 \in Nat
    OBVIOUS
  <1>2. m * (q - p - 1) >= 0
    BY <1>1
  <1> QED BY <1>2

\* x is in one interval of length m only.
LEMMA OneInterval ==
  ASSUME NEW m \in Nat \ {0}, NEW x \in Int, NEW p \in Int, NEW q \in Int,
         m * p <= x, x < m * p + m, m * q <= x, x < m * q + m
  PROVE  p = q
  <1>1. ~ (p < q) /\ ~ (q < p)
    BY Apart
  <1> QED BY <1>1

\* The day of an instant, and the instants of a day.
LEMMA DayOfInstant ==
  ASSUME NEW at \in Nat
  PROVE  /\ DayOf(at) \in Int
         /\ Midnight(DayOf(at)) <= at /\ at <= LastSecond(DayOf(at))
  <1>1. at \div 3 \in Int /\ 3 * (at \div 3) <= at /\ at <= 3 * (at \div 3) + 2
    BY SMT
  <1> QED BY <1>1 DEF DayOf, Midnight, LastSecond

\* The month of a day, and the days of a month.
LEMMA MonthOfDay ==
  ASSUME NEW d \in Int
  PROVE  /\ MonthOf(d) \in Int
         /\ MonthStart(d) = MonthDays * MonthOf(d) /\ MonthDays * MonthOf(d) \in Int
         /\ MonthStart(d) <= d /\ d < MonthStart(d) + MonthDays
  <1>1. /\ d \div MonthDays \in Int /\ d % MonthDays \in 0 .. MonthDays - 1
        /\ d = MonthDays * (d \div MonthDays) + (d % MonthDays)
    BY Divides, CalendarAssumption
  <1>2. MonthDays * (d \div MonthDays) \in Int /\ MonthDays \in Nat
    BY <1>1, CalendarAssumption
  <1> QED BY <1>1, <1>2 DEF MonthOf, MonthStart

-----------------------------------------------------------------------------
(* The ranges of the summaries.                                             *)

\* An instant is in the range of its own day and of no other, but for the last second.
LEMMA DayRange ==
  ASSUME NEW at \in Nat, NEW d \in Int
  PROVE  Within(at, LocalDayRange(d)) <=> d = DayOf(at) /\ at # LastSecond(d)
  <1>1. LocalDayRange(d) = <<3 * d, 3 * d + 2 - 1>>
    BY DEF LocalDayRange, SecondRange, Midnight, LastSecond
  <1>2. Within(at, LocalDayRange(d)) <=> 3 * d <= at /\ at <= 3 * d + 2 - 1
    BY <1>1 DEF Within
  <1> QED BY <1>2, DayOfInstant DEF Midnight, LastSecond

\* An instant is in the range of the months its day is in, but for the last second.
LEMMA MonthRange ==
  ASSUME NEW at \in Nat, NEW d \in Int
  PROVE  Within(at, LocalMonthRange(d)) <=>
           /\ MonthOf(d) = MonthOf(DayOf(at))
           /\ ~ (at = LastSecond(DayOf(at)) /\ MonthOf(DayOf(at) + 1) # MonthOf(DayOf(at)))
  <1> DEFINE day == DayOf(at)
             start == MonthStart(d)
  <1>m. MonthDays \in Nat \ {0}
    BY CalendarAssumption
  <1>1. day \in Int /\ 3 * day <= at /\ at <= 3 * day + 2
    BY DayOfInstant DEF Midnight, LastSecond
  <1> HIDE DEF day
  <1>2. /\ MonthOf(d) \in Int /\ start = MonthDays * MonthOf(d) /\ start \in Int
        /\ start <= d /\ d < start + MonthDays
    BY MonthOfDay
  <1>3. /\ MonthOf(day) \in Int /\ MonthDays * MonthOf(day) \in Int
        /\ MonthDays * MonthOf(day) <= day /\ day < MonthDays * MonthOf(day) + MonthDays
    BY <1>1, MonthOfDay
  <1>4. /\ MonthOf(day + 1) \in Int /\ MonthDays * MonthOf(day + 1) \in Int
        /\ MonthDays * MonthOf(day + 1) <= day + 1
        /\ day + 1 < MonthDays * MonthOf(day + 1) + MonthDays
    BY <1>1, MonthOfDay
  <1>5. Within(at, LocalMonthRange(d)) <=>
          /\ start <= day
          /\ \/ day < start + MonthDays - 1
             \/ (day = start + MonthDays - 1 /\ at # 3 * day + 2)
    <2> HIDE DEF start
    <2>1. LocalMonthRange(d) = <<3 * start, 3 * (start + MonthDays - 1) + 2 - 1>>
      BY <1>2, <1>m DEF LocalMonthRange, SecondRange, Midnight, LastSecond, start
    <2>2. Within(at, LocalMonthRange(d)) <=>
            3 * start <= at /\ at <= 3 * (start + MonthDays - 1) + 2 - 1
      BY <2>1 DEF Within
    <2>3. start \in Int /\ start + MonthDays - 1 \in Int
      BY <1>2, <1>m
    <2>4. 3 * start <= at <=> start <= day
      BY <1>1, <2>3
    <2>5. \A k \in Int : at <= 3 * k + 2 - 1 <=> day < k \/ (day = k /\ at # 3 * day + 2)
      BY <1>1
    <2> QED BY <2>2, <2>3, <2>4, <2>5
  <1>6. MonthOf(d) = MonthOf(day) <=> start <= day /\ day < start + MonthDays
    <2>1. ASSUME start <= day, day < start + MonthDays PROVE MonthOf(d) = MonthOf(day)
      BY <1>1, <1>2, <1>3, <1>m, <2>1, OneInterval
    <2> QED BY <1>2, <1>3, <2>1
  <1>7. MonthOf(day + 1) # MonthOf(day) <=> day = MonthDays * MonthOf(day) + MonthDays - 1
    <2>1. ASSUME day # MonthDays * MonthOf(day) + MonthDays - 1
          PROVE  MonthOf(day + 1) = MonthOf(day)
      <3>1. MonthDays * MonthOf(day) <= day + 1 /\ day + 1 < MonthDays * MonthOf(day) + MonthDays
        BY <1>1, <1>3, <1>m, <2>1
      <3> QED BY <1>1, <1>3, <1>4, <1>m, <3>1, OneInterval
    <2>2. ASSUME MonthOf(day + 1) = MonthOf(day)
          PROVE  day # MonthDays * MonthOf(day) + MonthDays - 1
      BY <1>1, <1>3, <1>4, <1>m, <2>2
    <2> QED BY <2>1, <2>2
  <1>8. start = MonthDays * MonthOf(d)
    BY <1>2
  <1>9. CASE MonthOf(d) = MonthOf(day)
    <2>1. start = MonthDays * MonthOf(day) /\ start <= day /\ day < start + MonthDays
      BY <1>6, <1>8, <1>9
    <2>2. Within(at, LocalMonthRange(d)) <=> ~ (day = start + MonthDays - 1 /\ at = 3 * day + 2)
      BY <1>1, <1>2, <1>5, <1>m, <2>1
    <2> QED BY <1>7, <1>9, <2>1, <2>2 DEF day, LastSecond
  <1>10. CASE MonthOf(d) # MonthOf(day)
    BY <1>1, <1>2, <1>5, <1>6, <1>m, <1>10 DEF day
  <1> QED BY <1>9, <1>10

-----------------------------------------------------------------------------
(* The books.                                                               *)

\* What a live row is made of.
LEMMA LiveRow ==
  ASSUME RowsAreDrafts, NEW i \in Live
  PROVE  /\ rows[i].book \in Books /\ rows[i].type \in {"INCOME", "EXPENSE"}
         /\ rows[i].amount \in Nat /\ rows[i].at \in Nat /\ rows[i].alloc \in [Projects -> Nat]
         /\ Fits(rows[i].alloc, rows[i].amount) /\ rows[i].category # ""
         /\ i \in Ids
  <1>1. PICK b \in Books, d \in Drafts : rows[i] = Row(b, d) /\ Fits(d.alloc, d.amount)
    BY DEF RowsAreDrafts
  <1>2. /\ rows[i].book = b /\ rows[i].type = d.type /\ rows[i].amount = d.amount
        /\ rows[i].at = d.at /\ rows[i].alloc = d.alloc /\ rows[i].category = d.category
    BY <1>1 DEF Row
  <1>3. /\ d.type \in {"INCOME", "EXPENSE"} /\ d.amount \in Nat /\ d.at \in Nat
        /\ d.alloc \in [Projects -> Nat] /\ d.category # ""
    BY BooksAssumption
  <1> QED BY <1>1, <1>2, <1>3 DEF Live

\* One row is written as a draft has it.
LEMMA RowWritten ==
  ASSUME RowsAreDrafts, NEW i \in Ids, NEW b \in Books, NEW d \in Drafts,
         AllocationsPass(b, d), rows' = [rows EXCEPT ![i] = Row(b, d)]
  PROVE  /\ RowsAreDrafts'
         /\ rows'[i] = Row(b, d) /\ \A k \in Ids \ {i} : rows'[k] = rows[k]
         /\ Live' = Live \cup {i}
  <1>1. rows'[i] = Row(b, d) /\ \A k \in Ids \ {i} : rows'[k] = rows[k]
    BY DEF RowsAreDrafts
  <1>2. Row(b, d).status = "live"
    BY DEF Row
  <1>3. Live' = Live \cup {i}
    BY <1>1, <1>2 DEF Live
  <1>4. rows' = [k \in Ids |-> rows'[k]]
    BY DEF RowsAreDrafts
  <1>5. \A k \in Ids : rows'[k].status \in {"absent", "live", "deleted"}
    BY <1>1, <1>2 DEF RowsAreDrafts
  <1>6. \A k \in Live' : \E c \in Books, e \in Drafts :
          rows'[k] = Row(c, e) /\ Fits(e.alloc, e.amount)
    BY <1>1, <1>3 DEF RowsAreDrafts, AllocationsPass, Live
  <1> QED BY <1>1, <1>3, <1>4, <1>5, <1>6 DEF RowsAreDrafts

\* One row is deleted.
LEMMA RowRemoved ==
  ASSUME RowsAreDrafts, NEW i \in Ids, Remove(i)
  PROVE  RowsAreDrafts' /\ Live' = Live \ {i} /\ \A k \in Ids \ {i} : rows'[k] = rows[k]
  <1>1. PICK b \in Books, d \in Drafts : rows[i] = Row(b, d)
    BY DEF Remove, RowsAreDrafts
  <1>2. rows' = [rows EXCEPT ![i] = [[rows[i] EXCEPT !.status = "deleted"]
                                       EXCEPT !.alloc = [p \in Projects |-> 0]]]
    BY DEF Remove, RowsAreDrafts
  <1>3. rows'[i].status = "deleted" /\ \A k \in Ids \ {i} : rows'[k] = rows[k]
    BY <1>1, <1>2 DEF RowsAreDrafts, Row
  <1>4. Live' = Live \ {i}
    BY <1>3 DEF Live
  <1>5. rows' = [k \in Ids |-> rows'[k]]
    BY <1>2 DEF RowsAreDrafts
  <1>6. \A k \in Ids : rows'[k].status \in {"absent", "live", "deleted"}
    BY <1>3 DEF RowsAreDrafts
  <1>7. \A k \in Live' : \E c \in Books, e \in Drafts :
          rows'[k] = Row(c, e) /\ Fits(e.alloc, e.amount)
    BY <1>3, <1>4 DEF RowsAreDrafts, Live
  <1> QED BY <1>3, <1>4, <1>5, <1>6, <1>7 DEF RowsAreDrafts

\* The entry of a draft, and the one a row has.
LEMMA EntryOfDraft ==
  ASSUME NEW i \in Ids, NEW b \in Books, NEW d \in Drafts
  PROVE  /\ Entry(i, b, d) \in Entries
         /\ Entry(i, b, d).id = i /\ Entry(i, b, d).status = "POSTED"
  BY BooksAssumption DEF Entry, Entries

\* The entry a row must have is the one its draft is posted with.
LEMMA EntryOfRow ==
  ASSUME NEW i, NEW b, NEW d, rows[i] = Row(b, d)
  PROVE  RowEntry(i) = Entry(i, b, d)
  BY DEF RowEntry, Entry, Row

\* No entry of i is posted once they are voided; the others are what they were.
LEMMA VoidedEntries ==
  ASSUME IsFiniteSet(journal), journal \subseteq Entries, NEW i \in Ids
  PROVE  /\ IsFiniteSet(Voided(i)) /\ Voided(i) \subseteq Entries
         /\ {e \in Voided(i) : e.id = i /\ e.status = "POSTED"} = {}
         /\ \A k \in Ids \ {i} : {e \in Voided(i) : e.id = k /\ e.status = "POSTED"} = PostedOf(k)
  <1> DEFINE void == [e \in journal |-> IF e.id = i THEN [e EXCEPT !.status = "VOID"] ELSE e]
  <1>1. Voided(i) = {void[e] : e \in journal}
    BY DEF Voided
  <1>2. void \in Surjection(journal, Voided(i))
    BY <1>1 DEF Surjection
  <1>3. IsFiniteSet(Voided(i))
    <2> HIDE DEF void
    <2> QED BY <1>2, FS_Surjection
  <1>4. \A e \in journal : /\ void[e] \in Entries /\ void[e].id = e.id
                           /\ e.id = i => void[e].status = "VOID"
                           /\ e.id # i => void[e] = e
    BY DEF Entries
  <1> HIDE DEF void
  <1>5. \A e \in Voided(i) : e \in Entries /\ (e.id = i => e.status = "VOID")
                             /\ (e.id # i => e \in journal)
    BY <1>1, <1>4
  <1>6. \A e \in journal : e.id # i => e \in Voided(i)
    BY <1>1, <1>4
  <1> QED BY <1>3, <1>5, <1>6 DEF PostedOf

\* A new entry is the only posted one of its row.
LEMMA EntryAdded ==
  ASSUME RowsAreDrafts, JournalIsOfRows, NEW i \in Ids, NEW b \in Books, NEW d \in Drafts,
         AllocationsPass(b, d), rows' = [rows EXCEPT ![i] = Row(b, d)],
         NEW old, IsFiniteSet(old), old \subseteq Entries,
         journal' = old \cup {Entry(i, b, d)},
         {e \in old : e.id = i /\ e.status = "POSTED"} = {},
         \A k \in Ids \ {i} : {e \in old : e.id = k /\ e.status = "POSTED"} = PostedOf(k)
  PROVE  JournalIsOfRows'
  <1>1. /\ rows'[i] = Row(b, d) /\ \A k \in Ids \ {i} : rows'[k] = rows[k]
        /\ Live' = Live \cup {i}
    BY RowWritten
  <1>2. IsFiniteSet(journal') /\ journal' \subseteq Entries
    BY EntryOfDraft, FS_AddElement
  <1>3. RowEntry(i)' = Entry(i, b, d)
    BY <1>1 DEF RowEntry, Entry, Row
  <1>4. PostedOf(i)' = {Entry(i, b, d)}
    BY EntryOfDraft DEF PostedOf
  <1>5. ASSUME NEW k \in Ids \ {i} PROVE PostedOf(k)' = IF k \in Live' THEN {RowEntry(k)'} ELSE {}
    <2>1. PostedOf(k)' = PostedOf(k)
      BY EntryOfDraft DEF PostedOf
    <2>2. RowEntry(k)' = RowEntry(k) /\ (k \in Live' <=> k \in Live)
      BY <1>1 DEF RowEntry
    <2> QED BY <2>1, <2>2 DEF JournalIsOfRows
  <1> QED BY <1>1, <1>2, <1>3, <1>4, <1>5 DEF JournalIsOfRows

\* Every write leaves the books in order.
LEMMA CreateBooks ==
  ASSUME BooksInv, NEW i \in Ids, NEW b \in Books, NEW d \in Drafts, Create(i, b, d)
  PROVE  BooksInv'
  <1>1. /\ rows[i].status = "absent" /\ AllocationsPass(b, d)
        /\ rows' = [rows EXCEPT ![i] = Row(b, d)]
        /\ journal' = journal \cup {Entry(i, b, d)}
        /\ archived' = archived /\ writes < MaxWrites /\ writes' = writes + 1
    BY DEF Create, Writes
  <1>2. {e \in journal : e.id = i /\ e.status = "POSTED"} = {}
    BY <1>1 DEF BooksInv, JournalIsOfRows, PostedOf, Live
  <1>3. \A k \in Ids \ {i} : {e \in journal : e.id = k /\ e.status = "POSTED"} = PostedOf(k)
    BY DEF PostedOf
  <1>4. IsFiniteSet(journal) /\ journal \subseteq Entries
    BY DEF BooksInv, JournalIsOfRows
  <1>5. RowsAreDrafts'
    BY <1>1, RowWritten DEF BooksInv
  <1>6. JournalIsOfRows'
    BY <1>1, <1>2, <1>3, <1>4, EntryAdded DEF BooksInv
  <1>7. writes' \in 0 .. MaxWrites
    BY <1>1, LimitsAssumption DEF BooksInv
  <1> QED BY <1>1, <1>5, <1>6, <1>7 DEF BooksInv

\* An edit voids the entry of the row and posts that of the new draft.
LEMMA EditBooks ==
  ASSUME BooksInv, NEW i \in Ids, NEW d \in Drafts, Edit(i, d)
  PROVE  BooksInv'
  <1>1. /\ i \in Live /\ AllocationsPass(Personal, d) /\ Personal \in Books
        /\ rows' = [rows EXCEPT ![i] = Row(Personal, d)]
        /\ journal' = Voided(i) \cup {Entry(i, Personal, d)}
        /\ archived' = archived /\ writes < MaxWrites /\ writes' = writes + 1
    BY DEF Edit, Writes, Books
  <1>2. /\ IsFiniteSet(Voided(i)) /\ Voided(i) \subseteq Entries
        /\ {e \in Voided(i) : e.id = i /\ e.status = "POSTED"} = {}
        /\ \A k \in Ids \ {i} : {e \in Voided(i) : e.id = k /\ e.status = "POSTED"} = PostedOf(k)
    BY VoidedEntries DEF BooksInv, JournalIsOfRows
  <1>3. RowsAreDrafts'
    BY <1>1, RowWritten DEF BooksInv
  <1>4. JournalIsOfRows'
    BY <1>1, <1>2, EntryAdded DEF BooksInv
  <1>5. writes' \in 0 .. MaxWrites
    BY <1>1, LimitsAssumption DEF BooksInv
  <1> QED BY <1>1, <1>3, <1>4, <1>5 DEF BooksInv

\* A deletion voids the entry of the row, which is no longer live.
LEMMA RemoveBooks ==
  ASSUME BooksInv, NEW i \in Ids, Remove(i)
  PROVE  BooksInv'
  <1>1. /\ journal' = Voided(i) /\ archived' = archived
        /\ writes < MaxWrites /\ writes' = writes + 1
    BY DEF Remove, Writes
  <1>2. /\ IsFiniteSet(Voided(i)) /\ Voided(i) \subseteq Entries
        /\ {e \in Voided(i) : e.id = i /\ e.status = "POSTED"} = {}
        /\ \A k \in Ids \ {i} : {e \in Voided(i) : e.id = k /\ e.status = "POSTED"} = PostedOf(k)
    BY VoidedEntries DEF BooksInv, JournalIsOfRows
  <1>3. RowsAreDrafts' /\ Live' = Live \ {i} /\ \A k \in Ids \ {i} : rows'[k] = rows[k]
    BY RowRemoved DEF BooksInv
  <1>4. ASSUME NEW k \in Ids PROVE PostedOf(k)' = IF k \in Live' THEN {RowEntry(k)'} ELSE {}
    <2>1. CASE k = i
      BY <1>1, <1>2, <1>3, <2>1 DEF PostedOf
    <2>2. CASE k # i
      <3>1. PostedOf(k)' = PostedOf(k)
        BY <1>1, <1>2, <2>2 DEF PostedOf
      <3>2. RowEntry(k)' = RowEntry(k) /\ (k \in Live' <=> k \in Live)
        BY <1>3, <2>2 DEF RowEntry
      <3> QED BY <3>1, <3>2 DEF BooksInv, JournalIsOfRows
    <2> QED BY <2>1, <2>2
  <1>5. JournalIsOfRows'
    BY <1>1, <1>2, <1>4 DEF JournalIsOfRows
  <1>6. writes' \in 0 .. MaxWrites
    BY <1>1, LimitsAssumption DEF BooksInv
  <1> QED BY <1>1, <1>3, <1>5, <1>6 DEF BooksInv

\* Archiving a project touches neither rows nor entries.
LEMMA ArchiveBooks ==
  ASSUME BooksInv, NEW p \in Projects, Archive(p)
  PROVE  BooksInv'
  <1>1. rows' = rows /\ journal' = journal
    BY DEF Archive
  <1>2. archived' \subseteq Projects
    BY DEF Archive, BooksInv
  <1>3. writes' \in 0 .. MaxWrites
    BY LimitsAssumption DEF Archive, Writes, BooksInv
  <1>4. RowsAreDrafts'
    BY <1>1 DEF BooksInv, RowsAreDrafts, Live
  <1>5. JournalIsOfRows'
    BY <1>1 DEF BooksInv, JournalIsOfRows, Live, PostedOf, RowEntry
  <1> QED BY <1>2, <1>3, <1>4, <1>5 DEF BooksInv

\* Statements of a report only read the books.
LEMMA QuietBooks ==
  ASSUME BooksInv, UNCHANGED bookVars
  PROVE  BooksInv'
  <1>1. rows' = rows /\ journal' = journal /\ archived' = archived /\ writes' = writes
    BY DEF bookVars
  <1>2. RowsAreDrafts'
    BY <1>1 DEF BooksInv, RowsAreDrafts, Live
  <1>3. JournalIsOfRows'
    BY <1>1 DEF BooksInv, JournalIsOfRows, Live, PostedOf, RowEntry
  <1> QED BY <1>1, <1>2, <1>3 DEF BooksInv

\* The writers' actions: a new row, or one that a report must not have read.
LEMMA WriterCases ==
  ASSUME WriterStep
  PROVE  \/ \E i \in Ids, b \in Books, d \in Drafts : Create(i, b, d)
         \/ \E i \in Ids, d \in Drafts : Edit(i, d)
         \/ \E i \in Ids : Remove(i)
         \/ \E p \in Projects : Archive(p)
  BY DEF WriterStep, CreatePersonal, CreateBusiness, Books

\* The other steps write nothing.
LEMMA ReportQuiet ==
  ASSUME Ask \/ DashboardStep \/ BusinessStep \/ ReportFails \/ UNCHANGED vars
  PROVE  UNCHANGED bookVars
  <1>1. Ask => UNCHANGED bookVars
    BY DEF Ask, AskPreset, AskCustom, Begin
  <1>2. DashboardStep => UNCHANGED bookVars
    BY DEF DashboardStep, Returns
  <1>3. BusinessStep => UNCHANGED bookVars
    BY DEF BusinessStep, Returns
  <1>4. ReportFails \/ UNCHANGED vars => UNCHANGED bookVars
    BY DEF ReportFails, vars
  <1> QED BY <1>1, <1>2, <1>3, <1>4

\* Empty books satisfy the invariant.
LEMMA InitBooks ==
  ASSUME Init
  PROVE  BooksInv
  <1>1. Live = {} /\ journal = {} /\ archived = {} /\ writes = 0
    BY DEF Init, Live
  <1>2. RowsAreDrafts
    BY <1>1 DEF Init, RowsAreDrafts
  <1>3. JournalIsOfRows
    BY <1>1, FS_EmptySet DEF JournalIsOfRows, PostedOf
  <1> QED BY <1>1, <1>2, <1>3, LimitsAssumption DEF BooksInv

\* Every step keeps it.
LEMMA NextBooks ==
  ASSUME BooksInv, [Next]_vars
  PROVE  BooksInv'
  <1>1. CASE WriterStep
    BY <1>1, WriterCases, CreateBooks, EditBooks, RemoveBooks, ArchiveBooks
  <1>2. CASE Ask \/ DashboardStep \/ BusinessStep \/ ReportFails \/ UNCHANGED vars
    BY <1>2, ReportQuiet, QuietBooks
  <1> QED BY <1>1, <1>2 DEF Next

\* The books are in order in every state.
LEMMA BooksInvariance == Spec => []BooksInv
  <1>1. Init => BooksInv
    BY InitBooks
  <1>2. BooksInv /\ [Next]_vars => BooksInv'
    BY NextBooks
  <1> QED BY <1>1, <1>2, PTL DEF Spec

\* TodaySummary and MonthSummary: a transaction is in the summary of its own day and of
\* its own month, once, but for one in a last second, which is in no day's, nor, on the
\* last day of a month, in the month's.
THEOREM Days == Spec => []EachDayOnce
  <1>1. RowsAreDrafts => EachDayOnce
    <2> SUFFICES ASSUME RowsAreDrafts, NEW i \in Of(Personal)
                 PROVE  LET at == rows[i].at
                            day == DayOf(at)
                            late == at = LastSecond(day) IN
                        /\ {d \in day - 1 .. day + 1 : i \in TodaySummary(d)}
                             = IF late THEN {} ELSE {day}
                        /\ {MonthOf(d) : d \in {d \in day - MonthDays .. day + MonthDays :
                                                  i \in MonthSummary(d)}}
                             = IF late /\ MonthOf(day + 1) # MonthOf(day) THEN {}
                               ELSE {MonthOf(day)}
      BY DEF EachDayOnce
    <2> DEFINE at == rows[i].at
               day == DayOf(at)
               late == at = LastSecond(day)
    <2>1. at \in Nat
      <3>1. i \in Live
        BY DEF Of
      <3> QED BY <3>1, LiveRow
    <2>2. day \in Int
      BY <2>1, DayOfInstant
    <2>3. \A d : /\ i \in TodaySummary(d) <=> Within(at, LocalDayRange(d))
                 /\ i \in MonthSummary(d) <=> Within(at, LocalMonthRange(d))
      BY DEF TodaySummary, MonthSummary, FetchUserRange, InRange
    <2>m. MonthDays \in Nat \ {0}
      BY CalendarAssumption
    <2>4. {d \in day - 1 .. day + 1 : i \in TodaySummary(d)} = IF late THEN {} ELSE {day}
      <3>1. \A d \in day - 1 .. day + 1 : i \in TodaySummary(d) <=> d = day /\ at # LastSecond(d)
        BY <2>1, <2>2, <2>3, DayRange
      <3>2. day \in day - 1 .. day + 1
        BY <2>2
      <3> QED BY <3>1, <3>2
    <2>5. {MonthOf(d) : d \in {d \in day - MonthDays .. day + MonthDays : i \in MonthSummary(d)}}
            = IF late /\ MonthOf(day + 1) # MonthOf(day) THEN {} ELSE {MonthOf(day)}
      <3>1. \A d \in day - MonthDays .. day + MonthDays :
              i \in MonthSummary(d) <=>
                MonthOf(d) = MonthOf(day) /\ ~ (late /\ MonthOf(day + 1) # MonthOf(day))
        BY <2>1, <2>2, <2>3, <2>m, MonthRange
      <3>2. day \in day - MonthDays .. day + MonthDays
        BY <2>2, <2>m
      <3> HIDE DEF day, late
      <3> QED BY <3>1, <3>2
    <2> QED BY <2>4, <2>5
  <1>2. BooksInv => RowsAreDrafts
    BY DEF BooksInv
  <1> QED BY <1>1, <1>2, BooksInvariance, PTL

-----------------------------------------------------------------------------
(* Sums over rows.                                                          *)

Amount == [i \in Ids |-> rows[i].amount]

\* The sum over a set of live rows is that of one function for all such sets.
LEMMA SumOfRows ==
  ASSUME RowsAreDrafts, NEW S, S \subseteq Live
  PROVE  /\ IsFiniteSet(S) /\ \A i \in S : Amount[i] = rows[i].amount /\ Amount[i] \in Nat
         /\ Sum(S) = SumFunctionOnSet(Amount, S) /\ Sum(S) \in Nat
  <1>1. IsFiniteSet(S)
    BY FS_Subset, BooksAssumption DEF Live
  <1>2. \A i \in S : Amount[i] = rows[i].amount /\ Amount[i] \in Nat
    BY LiveRow DEF Amount, Live
  <1>3. Sum(S) = SumFunctionOnSet([i \in S |-> rows[i].amount], S)
    BY DEF Sum, SumFunction
  <1>4. \A i \in S : [k \in S |-> rows[k].amount][i] = Amount[i]
    BY <1>2
  <1>5. SumFunctionOnSet([i \in S |-> rows[i].amount], S) = SumFunctionOnSet(Amount, S)
    BY <1>1, <1>4, SumSame
  <1>6. SumFunctionOnSet(Amount, S) \in Nat
    BY <1>1, <1>2, SumNat
  <1> QED BY <1>1, <1>2, <1>3, <1>5, <1>6

\* A part of the rows and the rest.
LEMMA SumOfParts ==
  ASSUME RowsAreDrafts, NEW S, S \subseteq Live, NEW T, T \subseteq S
  PROVE  /\ Sum(S) = Sum(T) + Sum(S \ T)
         /\ Sum(S) \in Nat /\ Sum(T) \in Nat /\ Sum(S \ T) \in Nat
         /\ Sum(T) <= Sum(S)
  <1>1. /\ IsFiniteSet(S) /\ \A i \in S : Amount[i] \in Nat
        /\ Sum(S) = SumFunctionOnSet(Amount, S) /\ Sum(S) \in Nat
    BY SumOfRows
  <1>2. Sum(T) = SumFunctionOnSet(Amount, T) /\ Sum(T) \in Nat
    <2>1. T \subseteq Live
      OBVIOUS
    <2> QED BY <2>1, SumOfRows
  <1>3. Sum(S \ T) = SumFunctionOnSet(Amount, S \ T) /\ Sum(S \ T) \in Nat
    <2>1. S \ T \subseteq Live
      OBVIOUS
    <2> QED BY <2>1, SumOfRows
  <1>4. \A i \in S : Amount[i] \in Nat
    BY <1>1
  <1>5. /\ IsFiniteSet(T)
        /\ SumFunctionOnSet(Amount, S) = SumFunctionOnSet(Amount, T) + SumFunctionOnSet(Amount, S \ T)
        /\ SumFunctionOnSet(Amount, S \ T) \in Nat /\ SumFunctionOnSet(Amount, T) \in Nat
        /\ SumFunctionOnSet(Amount, T) <= SumFunctionOnSet(Amount, S)
    BY <1>1, <1>4, SumPart, Zenon
  <1> QED BY <1>1, <1>2, <1>3, <1>5

\* Incomes and expenses are all there is.
LEMMA TypesAreParts ==
  ASSUME RowsAreDrafts, NEW S, S \subseteq Live
  PROVE  /\ Sum(S) = Totals(S).income + Totals(S).expense
         /\ Totals(S) \in Sums
         /\ Totals(S).income = Sum(Typed(S, "INCOME")) /\ Totals(S).income \in Nat
         /\ Totals(S).expense = Sum(Typed(S, "EXPENSE")) /\ Totals(S).expense \in Nat
  <1>1. Typed(S, "INCOME") \subseteq S /\ S \ Typed(S, "INCOME") = Typed(S, "EXPENSE")
    BY LiveRow DEF Typed
  <1>2. /\ Sum(S) = Sum(Typed(S, "INCOME")) + Sum(S \ Typed(S, "INCOME"))
        /\ Sum(Typed(S, "INCOME")) \in Nat /\ Sum(S \ Typed(S, "INCOME")) \in Nat
    BY <1>1, SumOfParts
  <1> QED BY <1>1, <1>2 DEF Totals, Sums

\* Rows that are grouped by a key add up to all of them.
LEMMA SumOfGroups ==
  ASSUME RowsAreDrafts, NEW S, S \subseteq Live, NEW C, IsFiniteSet(C), NEW key,
         \A i \in S : key[i] \in C, NEW sums, \A c \in C : sums[c] = Sum({i \in S : key[i] = c})
  PROVE  SumFunctionOnSet(sums, C) = Sum(S) /\ \A c \in C : sums[c] \in Nat
  <1> DEFINE group == [c \in C |-> SumFunctionOnSet(Amount, {i \in S : key[i] = c})]
  <1>1. /\ IsFiniteSet(S) /\ \A i \in S : Amount[i] \in Nat
        /\ Sum(S) = SumFunctionOnSet(Amount, S)
    BY SumOfRows
  <1>2. \A c \in C : sums[c] = group[c] /\ sums[c] \in Nat
    <2> TAKE c \in C
    <2>1. {i \in S : key[i] = c} \subseteq Live
      OBVIOUS
    <2> QED BY <2>1, SumOfRows
  <1>3. \A i \in S : Amount[i] \in Int
    BY <1>1
  <1>4. SumFunctionOnSet(group, C) = SumFunctionOnSet(Amount, S)
    BY <1>1, <1>3, SumFibres
  <1> HIDE DEF group
  <1>5. SumFunctionOnSet(sums, C) = SumFunctionOnSet(group, C)
    BY <1>2, SumSame
  <1> QED BY <1>1, <1>2, <1>4, <1>5

\* The image of a finite set.
LEMMA FiniteImage ==
  ASSUME NEW S, IsFiniteSet(S), NEW f
  PROVE  IsFiniteSet({f[i] : i \in S}) /\ Cardinality({f[i] : i \in S}) <= Cardinality(S)
  <1> DEFINE g == [i \in S |-> f[i]]
             T == {f[i] : i \in S}
  <1>1. g \in Surjection(S, T)
    BY DEF Surjection
  <1> HIDE DEF g
  <1> QED BY <1>1, FS_Surjection

\* The categories' sums are those of their rows.
LEMMA CategoriesAddUp ==
  ASSUME RowsAreDrafts, NEW S, S \subseteq Live
  PROVE  LET sums == ByCategory(S) IN
         /\ IsFiniteSet(DOMAIN sums) /\ \A c \in DOMAIN sums : sums[c] \in Nat
         /\ SumFunctionOnSet(sums, DOMAIN sums) = Sum(S) /\ Listed(sums) = Sum(S)
  <1> DEFINE key == [i \in S |-> rows[i].category]
             C == {key[i] : i \in S}
             sums == ByCategory(S)
  <1>1. IsFiniteSet(S)
    BY SumOfRows
  <1>2. IsFiniteSet(C)
    <2> HIDE DEF key
    <2> QED BY <1>1, FiniteImage
  <1>3. DOMAIN sums = C
    BY DEF ByCategory
  <1>4. \A c \in C : sums[c] = Sum({i \in S : key[i] = c})
    <2> TAKE c \in C
    <2>1. sums[c] = Sum({i \in S : rows[i].category = c})
      BY DEF ByCategory
    <2>2. {i \in S : rows[i].category = c} = {i \in S : key[i] = c}
      OBVIOUS
    <2> QED BY <2>1, <2>2
  <1>5. \A i \in S : key[i] \in C
    OBVIOUS
  <1>6. Listed(sums) = SumFunctionOnSet(sums, DOMAIN sums)
    BY DEF Listed, SumFunction
  <1> HIDE DEF key, C, sums
  <1>7. SumFunctionOnSet(sums, C) = Sum(S) /\ \A c \in C : sums[c] \in Nat
    BY <1>2, <1>4, <1>5, SumOfGroups
  <1> QED BY <1>2, <1>3, <1>6, <1>7 DEF sums

\* The first n of a set, in whatever order.
LEMMA TopOfSet ==
  ASSUME NEW S, IsFiniteSet(S), NEW n \in Nat, NEW key, NEW T \in Top(n, S, key)
  PROVE  /\ T \subseteq S /\ IsFiniteSet(T)
         /\ Cardinality(T) = IF Cardinality(S) < n THEN Cardinality(S) ELSE n
         /\ Cardinality(T) < n => T = S
  <1>1. T \subseteq S /\ Cardinality(T) = IF Cardinality(S) < n THEN Cardinality(S) ELSE n
    BY DEF Top
  <1>2. IsFiniteSet(T) /\ (Cardinality(S) = Cardinality(T) => S = T)
    BY <1>1, FS_Subset
  <1> QED BY <1>1, <1>2

-----------------------------------------------------------------------------
(* The rows of a request.                                                   *)

\* What the filters of the statements select: live rows, of a book, of a range, of a type.
LEMMA RowsOf ==
  ASSUME NEW book, NEW range
  PROVE  /\ Of(book) \subseteq Live /\ InRange(book, range) \subseteq Of(book)
         /\ \A S, type : Typed(S, type) \subseteq S
         /\ \A i : i \in InRange(book, range) <=> i \in Of(book) /\ Within(rows[i].at, range)
  BY DEF Of, InRange, Typed

\* The instants of a request's range.
LEMMA AskedInstants ==
  ASSUME RequestIsRange
  PROVE  /\ \A at : Within(at, AskedRange) <=> 3 * request.from <= at /\ at <= 3 * (request.to + 1)
         /\ Asked \subseteq Live
  BY RowsOf DEF AskedRange, NanoRange, Within, Midnight, Asked

\* The categories that are listed show no more than the rows, and all of them unless the
\* list is full.
LEMMA ListingOfRows ==
  ASSUME RowsAreDrafts, NEW S, S \subseteq Live, NEW n \in Nat,
         NEW top \in Listing(n, ByCategory(S))
  PROVE  /\ Listed(top) \in Nat
         /\ Listed(top) <= Sum(S)
         /\ Cardinality(DOMAIN top) < n => Listed(top) = Sum(S)
  <1> DEFINE sums == ByCategory(S)
  <1>2. /\ IsFiniteSet(DOMAIN sums) /\ \A c \in DOMAIN sums : sums[c] \in Nat
        /\ SumFunctionOnSet(sums, DOMAIN sums) = Sum(S)
    BY CategoriesAddUp
  <1>3. PICK T \in Top(n, DOMAIN sums, sums) : top = [c \in T |-> sums[c]]
    BY DEF Listing
  <1> HIDE DEF sums
  <1>5. T \subseteq DOMAIN sums /\ IsFiniteSet(T) /\ (Cardinality(T) < n => T = DOMAIN sums)
    BY <1>2, TopOfSet
  <1>6. Listed(top) = SumFunctionOnSet(top, T) /\ DOMAIN top = T
    BY <1>3 DEF Listed, SumFunction
  <1>7. \A c \in T : top[c] = sums[c]
    BY <1>3
  <1>8. SumFunctionOnSet(top, T) = SumFunctionOnSet(sums, T)
    BY <1>5, <1>7, SumSame
  <1>9. /\ SumFunctionOnSet(sums, T) \in Nat
        /\ SumFunctionOnSet(sums, T) <= SumFunctionOnSet(sums, DOMAIN sums)
    BY <1>2, <1>5, SumPart
  <1> QED BY <1>2, <1>5, <1>6, <1>8, <1>9

\* So do the dashboard's.
LEMMA CategoriesRead ==
  ASSUME RowsAreDrafts, NEW top \in FetchExpenseCategories
  PROVE  /\ Listed(top) \in Nat
         /\ Listed(top) <= FetchTotalsRange.expense
         /\ Cardinality(DOMAIN top) < CategoryLimit => Listed(top) = FetchTotalsRange.expense
  <1> DEFINE S == Typed(Asked, "EXPENSE")
  <1>1. S \subseteq Live /\ Asked \subseteq Live
    BY RowsOf DEF Asked
  <1>2. top \in Listing(CategoryLimit, ByCategory(S)) /\ CategoryLimit \in Nat
    BY LimitsAssumption DEF FetchExpenseCategories
  <1>3. FetchTotalsRange.expense = Sum(S)
    BY <1>1, TypesAreParts DEF FetchTotalsRange
  <1> HIDE DEF S
  <1> QED BY <1>1, <1>2, <1>3, ListingOfRows

-----------------------------------------------------------------------------
(* The cashflow.                                                            *)

CashflowRows == InRange(Personal, NanoRange(Min(CashflowDays), request.to))
DayRows(d) == {i \in CashflowRows : DayOf(rows[i].at) = d}
DaySums(type) == [d \in CashflowDays |-> Sum(Typed(DayRows(d), type))]

\* What the days of D show is the sum of their rows.
LEMMA DaysAddUp ==
  ASSUME RowsAreDrafts, CashflowRows \subseteq Live, NEW D, IsFiniteSet(D), D \subseteq CashflowDays,
         NEW type
  PROVE  SumFunctionOnSet(DaySums(type), D)
           = Sum(Typed({i \in CashflowRows : DayOf(rows[i].at) \in D}, type))
  <1> DEFINE S == Typed({i \in CashflowRows : DayOf(rows[i].at) \in D}, type)
             key == [i \in S |-> DayOf(rows[i].at)]
  <1>1. S \subseteq Live
    BY DEF Typed
  <1>2. \A i \in S : key[i] \in D
    BY DEF Typed
  <1>3. \A d \in D : DaySums(type)[d] = Sum({i \in S : key[i] = d})
    <2> TAKE d \in D
    <2>1. DaySums(type)[d] = Sum(Typed(DayRows(d), type))
      BY DEF DaySums
    <2>2. Typed(DayRows(d), type) = {i \in S : key[i] = d}
      BY DEF Typed, DayRows
    <2> QED BY <2>1, <2>2
  <1> HIDE DEF S, key
  <1>4. SumFunctionOnSet(DaySums(type), D) = Sum(S)
    BY <1>1, <1>2, <1>3, SumOfGroups
  <1> QED BY <1>4 DEF S

\* The days lie in the request's range and begin with the least of them.
LEMMA CashflowDaysInRange ==
  ASSUME RequestIsRange
  PROVE  /\ IsFiniteSet(CashflowDays) /\ CashflowDays \subseteq request.from .. request.to
         /\ Min(CashflowDays) \in Int /\ request.from <= Min(CashflowDays)
         /\ CashflowDays = Min(CashflowDays) .. request.to
  <1>1. request.from \in Int /\ request.to \in Int /\ request.from <= request.to
    BY DEF RequestIsRange
  <1>2. CashflowCap \in Nat /\ CashflowCap >= 2
    BY CalendarAssumption
  <1>3. PICK a \in Int : /\ CashflowDays = a .. request.to
                         /\ request.from <= a /\ a <= request.to
    <2>1. CASE request.to - request.from + 1 > CashflowCap
      <3>1. CashflowDays = request.to - (CashflowCap - 2) .. request.to
        BY <2>1 DEF CashflowDays
      <3>2. /\ request.to - (CashflowCap - 2) \in Int
            /\ request.from <= request.to - (CashflowCap - 2)
            /\ request.to - (CashflowCap - 2) <= request.to
        BY <1>1, <1>2, <2>1
      <3> QED BY <3>1, <3>2
    <2>2. CASE ~ (request.to - request.from + 1 > CashflowCap)
      BY <1>1, <2>2 DEF CashflowDays
    <2> QED BY <2>1, <2>2
  <1>4. a \in CashflowDays /\ \A d \in CashflowDays : a <= d
    BY <1>1, <1>3
  <1>5. Min(CashflowDays) = a
    <2>1. \A x \in CashflowDays : (\A y \in CashflowDays : x <= y) => x = a
      BY <1>1, <1>3, <1>4
    <2> QED BY <1>4, <2>1 DEF Min
  <1>6. IsFiniteSet(CashflowDays)
    BY <1>1, <1>3, FS_Interval
  <1> QED BY <1>1, <1>3, <1>5, <1>6

\* The rows of the cashflow are among those of the request.
LEMMA CashflowRowsAsked ==
  ASSUME RowsAreDrafts, RequestIsRange, request.book = Personal
  PROVE  /\ CashflowRows \subseteq Asked /\ Asked \subseteq Live
         /\ \A i \in Asked : /\ DayOf(rows[i].at) \in Int
                             /\ i \in CashflowRows \/ DayOf(rows[i].at) \notin CashflowDays
                             /\ \/ DayOf(rows[i].at) \in request.from .. request.to
                                \/ /\ DayOf(rows[i].at) = request.to + 1
                                   /\ rows[i].at = Midnight(request.to + 1)
                             /\ rows[i].at = Midnight(request.to + 1)
                                  => DayOf(rows[i].at) = request.to + 1
  <1> DEFINE from == request.from
             to == request.to
             start == Min(CashflowDays)
  <1>1. from \in Int /\ to \in Int
    BY DEF RequestIsRange
  <1>2. start \in Int /\ from <= start /\ CashflowDays = start .. to
    BY CashflowDaysInRange
  <1>3. /\ \A i : i \in Asked <=> i \in Of(Personal) /\ 3 * from <= rows[i].at /\ rows[i].at <= 3 * (to + 1)
        /\ \A i : i \in CashflowRows <=>
                    i \in Of(Personal) /\ 3 * start <= rows[i].at /\ rows[i].at <= 3 * (to + 1)
    BY RowsOf DEF Asked, AskedRange, CashflowRows, NanoRange, Within, Midnight
  <1>4. \A i \in Asked : i \in Live /\ rows[i].at \in Nat
    BY RowsOf, LiveRow DEF Asked
  <1>5. ASSUME NEW i \in Asked
        PROVE  /\ DayOf(rows[i].at) \in Int
               /\ 3 * DayOf(rows[i].at) <= rows[i].at /\ rows[i].at <= 3 * DayOf(rows[i].at) + 2
    BY <1>4, DayOfInstant DEF Midnight, LastSecond
  <1> HIDE DEF from, to, start
  <1>6. CashflowRows \subseteq Asked
    <2> SUFFICES ASSUME NEW i \in CashflowRows PROVE i \in Asked
      OBVIOUS
    <2>1. i \in Of(Personal) /\ 3 * start <= rows[i].at /\ rows[i].at <= 3 * (to + 1)
      BY <1>3
    <2>2. rows[i].at \in Nat
      BY <2>1, RowsOf, LiveRow
    <2>3. 3 * from <= rows[i].at
      BY <1>1, <1>2, <2>1, <2>2
    <2> QED BY <1>3, <2>1, <2>3
  <1>7. ASSUME NEW i \in Asked
        PROVE  /\ i \in CashflowRows \/ DayOf(rows[i].at) \notin CashflowDays
               /\ \/ DayOf(rows[i].at) \in from .. to
                  \/ DayOf(rows[i].at) = to + 1 /\ rows[i].at = 3 * (to + 1)
               /\ rows[i].at = 3 * (to + 1) => DayOf(rows[i].at) = to + 1
    <2> DEFINE at == rows[i].at
               day == DayOf(at)
    <2>1. /\ i \in Of(Personal) /\ 3 * from <= at /\ at <= 3 * (to + 1)
          /\ at \in Nat /\ day \in Int /\ 3 * day <= at /\ at <= 3 * day + 2
      BY <1>3, <1>4, <1>5
    <2>2. i \in CashflowRows <=> 3 * start <= at
      BY <1>3, <2>1
    <2> HIDE DEF at, day
    <2>3. 3 * start <= at \/ day \notin start .. to
      BY <1>1, <1>2, <2>1
    <2>4. day \in from .. to \/ (day = to + 1 /\ at = 3 * (to + 1))
      BY <1>1, <2>1
    <2>5. at = 3 * (to + 1) => day = to + 1
      BY <1>1, <2>1
    <2> QED BY <1>2, <2>2, <2>3, <2>4, <2>5 DEF at, day
  <1>8. Asked \subseteq Live
    BY <1>4
  <1> QED BY <1>5, <1>6, <1>7, <1>8 DEF Midnight, from, to

\* The days show no more than the range; all of them show it but for its last midnight.
LEMMA CashflowOfType ==
  ASSUME RowsAreDrafts, RequestIsRange, request.book = Personal, NEW type \in {"INCOME", "EXPENSE"}
  PROVE  /\ \A D \in SUBSET CashflowDays : /\ SumFunctionOnSet(DaySums(type), D) \in Nat
                                           /\ SumFunctionOnSet(DaySums(type), D) <= Sum(Typed(Asked, type))
         /\ CashflowDays = request.from .. request.to =>
              SumFunctionOnSet(DaySums(type), CashflowDays) + Sum(Typed(Beyond, type))
                = Sum(Typed(Asked, type))
         /\ \A d \in CashflowDays : DaySums(type)[d] \in Nat
  <1> DEFINE S == Typed(Asked, type)
             On(D) == Typed({i \in CashflowRows : DayOf(rows[i].at) \in D}, type)
  <1>1. /\ CashflowRows \subseteq Asked /\ Asked \subseteq Live /\ S \subseteq Live
        /\ CashflowRows \subseteq Live
    BY CashflowRowsAsked DEF Typed
  <1>2. \A d \in CashflowDays :
          DaySums(type)[d] = Sum(Typed({i \in CashflowRows : DayOf(rows[i].at) = d}, type))
    BY DEF DaySums, DayRows
  <1>3. ASSUME NEW D \in SUBSET CashflowDays
        PROVE  SumFunctionOnSet(DaySums(type), D) = Sum(On(D)) /\ On(D) \subseteq S
    <2>1. IsFiniteSet(D)
      BY CashflowDaysInRange, FS_Subset
    <2>2. SumFunctionOnSet(DaySums(type), D) = Sum(On(D))
      BY <1>1, <2>1, DaysAddUp
    <2>3. On(D) \subseteq S
      BY <1>1 DEF Typed
    <2> QED BY <2>2, <2>3
  <1>4. ASSUME NEW D \in SUBSET CashflowDays
        PROVE  Sum(On(D)) \in Nat /\ Sum(On(D)) <= Sum(S)
    <2> HIDE DEF On, S
    <2> QED BY <1>1, <1>3, SumOfParts
  <1>5. ASSUME CashflowDays = request.from .. request.to
        PROVE  Sum(On(CashflowDays)) + Sum(Typed(Beyond, type)) = Sum(S)
    <2>1. S \ On(CashflowDays) = Typed(Beyond, type)
      <3>1. \A i \in Asked : (i \in CashflowRows /\ DayOf(rows[i].at) \in CashflowDays)
                               <=> rows[i].at # Midnight(request.to + 1)
        BY <1>5, CashflowRowsAsked DEF RequestIsRange
      <3> QED BY <1>1, <3>1 DEF Typed, Beyond
    <2>2. On(CashflowDays) \subseteq S
      BY <1>3
    <2> HIDE DEF On, S
    <2>3. Sum(S) = Sum(On(CashflowDays)) + Sum(S \ On(CashflowDays))
      BY <1>1, <2>2, SumOfParts
    <2> QED BY <2>1, <2>3
  <1>6. \A d \in CashflowDays : DaySums(type)[d] \in Nat
    <2> TAKE d \in CashflowDays
    <2>1. Typed({i \in CashflowRows : DayOf(rows[i].at) = d}, type) \subseteq Live
      BY <1>1 DEF Typed
    <2> QED BY <1>2, <2>1, SumOfRows
  <1>7. CashflowDays \in SUBSET CashflowDays
    OBVIOUS
  <1> HIDE DEF On
  <1> QED BY <1>3, <1>4, <1>5, <1>6, <1>7

\* The cashflow that is returned, by its days.
LEMMA CashflowReturned ==
  /\ DOMAIN FetchCashflowRange = CashflowDays
  /\ \A d \in CashflowDays : /\ FetchCashflowRange[d].income = DaySums("INCOME")[d]
                             /\ FetchCashflowRange[d].expense = DaySums("EXPENSE")[d]
  <1>1. FetchCashflowRange = [d \in CashflowDays |-> Totals(DayRows(d))]
    BY DEF FetchCashflowRange, DayRows, CashflowRows
  <1>2. \A d \in CashflowDays : /\ DaySums("INCOME")[d] = Sum(Typed(DayRows(d), "INCOME"))
                                /\ DaySums("EXPENSE")[d] = Sum(Typed(DayRows(d), "EXPENSE"))
    BY DEF DaySums
  <1>3. \A d : /\ Totals(DayRows(d)).income = Sum(Typed(DayRows(d), "INCOME"))
               /\ Totals(DayRows(d)).expense = Sum(Typed(DayRows(d), "EXPENSE"))
    BY DEF Totals
  <1> QED BY <1>1, <1>2, <1>3

\* A cashflow's sums are below those of the range when its days are below the days'.
LEMMA CashflowBelow ==
  ASSUME RowsAreDrafts, RequestIsRange, request.book = Personal,
         NEW flow, DOMAIN flow = CashflowDays,
         \A d \in CashflowDays : /\ flow[d].income \in Nat /\ flow[d].expense \in Nat
                                 /\ flow[d].income <= FetchCashflowRange[d].income
                                 /\ flow[d].expense <= FetchCashflowRange[d].expense
  PROVE  /\ Spent(flow) \in Nat /\ Spent(flow) <= FetchTotalsRange.expense
         /\ Earned(flow) \in Nat /\ Earned(flow) <= FetchTotalsRange.income
  <1> DEFINE spent == [d \in CashflowDays |-> flow[d].expense]
             earned == [d \in CashflowDays |-> flow[d].income]
  <1>1. /\ Spent(flow) = SumFunctionOnSet(spent, CashflowDays)
        /\ Earned(flow) = SumFunctionOnSet(earned, CashflowDays)
    BY DEF Spent, Earned, SumFunction
  <1>2. IsFiniteSet(CashflowDays) /\ CashflowDays \in SUBSET CashflowDays
    BY CashflowDaysInRange
  <1>3. /\ \A d \in CashflowDays : DaySums("EXPENSE")[d] \in Nat /\ DaySums("INCOME")[d] \in Nat
        /\ SumFunctionOnSet(DaySums("EXPENSE"), CashflowDays) \in Nat
        /\ SumFunctionOnSet(DaySums("EXPENSE"), CashflowDays) <= Sum(Typed(Asked, "EXPENSE"))
        /\ SumFunctionOnSet(DaySums("INCOME"), CashflowDays) \in Nat
        /\ SumFunctionOnSet(DaySums("INCOME"), CashflowDays) <= Sum(Typed(Asked, "INCOME"))
    BY <1>2, CashflowOfType
  <1>4. \A d \in CashflowDays : /\ spent[d] \in Nat /\ earned[d] \in Nat
                                /\ spent[d] <= DaySums("EXPENSE")[d]
                                /\ earned[d] <= DaySums("INCOME")[d]
    BY CashflowReturned
  <1> HIDE DEF spent, earned
  <1>n. \A n \in Nat : n \in Int
    OBVIOUS
  <1>5. \A d \in CashflowDays : /\ spent[d] \in Int /\ DaySums("EXPENSE")[d] \in Int
                                /\ spent[d] <= DaySums("EXPENSE")[d]
    BY <1>3, <1>4, <1>n
  <1>6. \A d \in CashflowDays : /\ earned[d] \in Int /\ DaySums("INCOME")[d] \in Int
                                /\ earned[d] <= DaySums("INCOME")[d]
    BY <1>3, <1>4, <1>n
  <1>7. SumFunctionOnSet(spent, CashflowDays) <= SumFunctionOnSet(DaySums("EXPENSE"), CashflowDays)
    BY <1>2, <1>5, SumAtMost
  <1>8. SumFunctionOnSet(earned, CashflowDays) <= SumFunctionOnSet(DaySums("INCOME"), CashflowDays)
    BY <1>2, <1>6, SumAtMost
  <1>9. SumFunctionOnSet(spent, CashflowDays) \in Nat
    <2>1. \A d \in CashflowDays : spent[d] \in Nat
      BY <1>4
    <2> QED BY <1>2, <2>1, SumNat
  <1>10. SumFunctionOnSet(earned, CashflowDays) \in Nat
    <2>1. \A d \in CashflowDays : earned[d] \in Nat
      BY <1>4
    <2> QED BY <1>2, <2>1, SumNat
  <1>11. /\ FetchTotalsRange.expense = Sum(Typed(Asked, "EXPENSE"))
         /\ FetchTotalsRange.income = Sum(Typed(Asked, "INCOME"))
         /\ FetchTotalsRange.expense \in Nat /\ FetchTotalsRange.income \in Nat
    BY CashflowRowsAsked, TypesAreParts DEF FetchTotalsRange
  <1> QED BY <1>1, <1>3, <1>7, <1>8, <1>9, <1>10, <1>11

-----------------------------------------------------------------------------
(* The check, the projects and the activity.                                *)

\* The posted entries of the range are those of its rows: both sides are the rows' sum.
LEMMA CheckOfRows ==
  ASSUME RowsAreDrafts, JournalIsOfRows, request.book = Personal
  PROVE  /\ FetchLedgerCheck.debit = FetchLedgerCheck.credit
         /\ FetchLedgerCheck.debit = Sum(Asked) /\ Sum(Asked) \in Nat
         /\ Sum(Asked) = FetchTotalsRange.income + FetchTotalsRange.expense
  <1> DEFINE found == {e \in journal : e.book = Personal /\ e.status = "POSTED"
                                         /\ Within(e.at, AskedRange)}
             entry == [i \in Asked |-> RowEntry(i)]
             debit == [e \in found |-> e.debit]
  <1>1. Asked \subseteq Live /\ IsFiniteSet(Asked) /\ \A i \in Asked : rows[i].amount \in Nat
    BY RowsOf, SumOfRows, LiveRow DEF Asked
  <1>2. \A i \in Asked : entry[i] = RowEntry(i) /\ RowEntry(i).id = i /\ RowEntry(i).debit = rows[i].amount
    BY DEF RowEntry
  <1>3. ASSUME NEW e \in found PROVE e.id \in Asked /\ e = RowEntry(e.id)
    <2>1. e \in journal /\ e.book = Personal /\ e.status = "POSTED" /\ Within(e.at, AskedRange)
      OBVIOUS
    <2>2. e.id \in Ids
      BY <2>1 DEF JournalIsOfRows, Entries
    <2>3. e \in PostedOf(e.id)
      BY <2>1 DEF PostedOf
    <2>4. e.id \in Live /\ e = RowEntry(e.id)
      BY <2>2, <2>3 DEF JournalIsOfRows
    <2>5. rows[e.id].book = Personal /\ Within(rows[e.id].at, AskedRange)
      BY <2>1, <2>4 DEF RowEntry
    <2> QED BY <2>4, <2>5 DEF Asked, InRange, Of
  <1>4. ASSUME NEW i \in Asked PROVE RowEntry(i) \in found
    <2>1. i \in Live /\ i \in Ids /\ rows[i].book = Personal /\ Within(rows[i].at, AskedRange)
      BY DEF Asked, InRange, Of, Live
    <2>2. RowEntry(i) \in PostedOf(i)
      BY <2>1 DEF JournalIsOfRows
    <2>3. /\ RowEntry(i).book = Personal /\ RowEntry(i).status = "POSTED"
          /\ Within(RowEntry(i).at, AskedRange)
      BY <2>1 DEF RowEntry
    <2> QED BY <2>2, <2>3 DEF PostedOf
  <1>5. found = {entry[i] : i \in Asked}
    <2> HIDE DEF found
    <2> QED BY <1>2, <1>3, <1>4
  <1>6. /\ FetchLedgerCheck.debit = SumFunctionOnSet(debit, found)
        /\ FetchLedgerCheck.credit = SumFunctionOnSet([e \in found |-> e.credit], found)
    BY DEF FetchLedgerCheck, SumFunction
  <1>7. [e \in found |-> e.credit] = debit
    BY <1>3 DEF RowEntry
  <1>8. \A i \in Asked : entry[i] \in found /\ debit[entry[i]] = rows[i].amount
    BY <1>2, <1>4
  <1> HIDE DEF found, entry, debit
  <1>9. \A i, k \in Asked : entry[i] = entry[k] => i = k
    BY <1>2
  <1>10. \A i \in Asked : debit[entry[i]] \in Int
    BY <1>1, <1>8
  <1>11. SumFunctionOnSet(debit, {entry[i] : i \in Asked})
           = SumFunctionOnSet([i \in Asked |-> debit[entry[i]]], Asked)
    BY <1>1, <1>9, <1>10, SumRenamed
  <1>12. [i \in Asked |-> debit[entry[i]]] = [i \in Asked |-> rows[i].amount]
    BY <1>8
  <1>13. Sum(Asked) = SumFunctionOnSet([i \in Asked |-> rows[i].amount], Asked)
    BY DEF Sum, SumFunction
  <1>14. /\ Sum(Asked) \in Nat
         /\ Sum(Asked) = FetchTotalsRange.income + FetchTotalsRange.expense
    BY <1>1, SumOfRows, TypesAreParts DEF FetchTotalsRange
  <1>15. SumFunctionOnSet(debit, found) = Sum(Asked)
    BY <1>5, <1>11, <1>12, <1>13
  <1> QED BY <1>6, <1>7, <1>14, <1>15

\* The tolerance is a number.
LEMMA SlackType ==
  ASSUME NEW alloc
  PROVE  Slack(alloc) \in Nat
  <1> DEFINE rounded == Cardinality({p \in Projects : alloc[p] > 0})
  <1>1. {p \in Projects : alloc[p] > 0} \subseteq Projects
    OBVIOUS
  <1>2. rounded \in Nat
    BY <1>1, BooksAssumption, FS_Subset, FS_CardinalityType
  <1>3. Slack(alloc) = IF rounded = 0 THEN 0 ELSE 2 + rounded
    BY DEF Slack
  <1> HIDE DEF rounded
  <1> QED BY <1>2, <1>3

\* What the projects show of rows is not more than the rows and their tolerance.
LEMMA ProjectsBelow ==
  ASSUME RowsAreDrafts, NEW S, S \subseteq Live, NEW Q \in SUBSET Projects
  PROVE  2 * SumFunctionOnSet([p \in Q |-> SumFunction([i \in S |-> rows[i].alloc[p]])], Q)
           <= 2 * Sum(S) + SlackOf(S)
  <1> DEFINE a == [i \in S |-> rows[i].alloc]
             shown == [p \in Q |-> SumFunction([i \in S |-> rows[i].alloc[p]])]
             total == RowSums(a, S, Q)
             slack == [i \in S |-> Slack(rows[i].alloc)]
             twice == [i \in S |-> total[i] + total[i]]
             double == [i \in S |-> Amount[i] + Amount[i]]
             bound == [i \in S |-> double[i] + slack[i]]
  <1>1. /\ IsFiniteSet(S) /\ \A i \in S : Amount[i] = rows[i].amount /\ Amount[i] \in Nat
        /\ Sum(S) = SumFunctionOnSet(Amount, S)
    BY SumOfRows
  <1>2. IsFiniteSet(Q)
    BY FS_Subset, BooksAssumption
  <1>3. \A i \in S : /\ a[i] = rows[i].alloc /\ rows[i].alloc \in [Projects -> Nat]
                     /\ Fits(rows[i].alloc, rows[i].amount)
    BY LiveRow
  <1>4. shown = ColumnSums(a, S, Q)
    <2>1. \A p \in Q : [i \in S |-> rows[i].alloc[p]] = [i \in S |-> a[i][p]]
      OBVIOUS
    <2>2. \A p \in Q : shown[p] = ColumnSums(a, S, Q)[p]
      BY <2>1 DEF SumFunction, ColumnSums
    <2> QED BY <2>2 DEF ColumnSums
  <1> HIDE DEF a
  <1>5. \A i \in S, p \in Q : a[i][p] \in Int
    BY <1>3
  <1>6. SumFunctionOnSet(ColumnSums(a, S, Q), Q) = SumFunctionOnSet(total, S)
    BY <1>1, <1>2, <1>5, SumSwap
  <1>t. \A i \in S : total[i] = SumFunctionOnSet(a[i], Q)
    BY DEF RowSums
  <1> HIDE DEF total
  <1>7. ASSUME NEW i \in S
        PROVE  /\ total[i] \in Int /\ Amount[i] \in Int /\ slack[i] \in Int
               /\ total[i] + total[i] <= Amount[i] + Amount[i] + slack[i]
    <2>1. \A p \in Projects : a[i][p] \in Nat
      BY <1>3
    <2>2. /\ SumFunctionOnSet(a[i], Q) \in Nat
          /\ SumFunctionOnSet(a[i], Q) <= SumFunctionOnSet(a[i], Projects)
      BY <2>1, SumPart, BooksAssumption
    <2>3. SumFunctionOnSet(a[i], Projects) \in Nat
      BY <2>1, SumNat, BooksAssumption
    <2>4. 2 * SumFunctionOnSet(a[i], Projects) <= 2 * Amount[i] + slack[i]
      BY <1>1, <1>3 DEF Allocated, Fits
    <2>5. slack[i] \in Nat /\ Amount[i] \in Nat
      BY <1>1, SlackType
    <2> HIDE DEF slack
    <2> QED BY <1>t, <2>2, <2>3, <2>4, <2>5
  <1>8. SumFunctionOnSet(twice, S) = SumFunctionOnSet(total, S) + SumFunctionOnSet(total, S)
    <2>1. \A i \in S : total[i] \in Int /\ total[i] \in Int /\ twice[i] = total[i] + total[i]
      BY <1>7
    <2> HIDE DEF twice
    <2> QED BY <1>1, <2>1, SumPlus
  <1>9. SumFunctionOnSet(double, S) = SumFunctionOnSet(Amount, S) + SumFunctionOnSet(Amount, S)
    <2>1. \A i \in S : Amount[i] \in Int /\ Amount[i] \in Int /\ double[i] = Amount[i] + Amount[i]
      BY <1>7
    <2> HIDE DEF double
    <2> QED BY <1>1, <2>1, SumPlus
  <1>10. SumFunctionOnSet(bound, S) = SumFunctionOnSet(double, S) + SumFunctionOnSet(slack, S)
    <2>1. \A i \in S : double[i] \in Int /\ slack[i] \in Int /\ bound[i] = double[i] + slack[i]
      <3> SUFFICES ASSUME NEW i \in S
                   PROVE  double[i] \in Int /\ slack[i] \in Int /\ bound[i] = double[i] + slack[i]
        OBVIOUS
      <3>1. slack[i] \in Int /\ Amount[i] \in Int
        BY <1>7
      <3> HIDE DEF slack
      <3> QED BY <3>1
    <2> HIDE DEF double, slack, bound
    <2> QED BY <1>1, <2>1, SumPlus
  <1>11. SumFunctionOnSet(twice, S) <= SumFunctionOnSet(bound, S)
    <2>1. \A i \in S : twice[i] \in Int /\ bound[i] \in Int /\ twice[i] <= bound[i]
      <3> HIDE DEF slack
      <3> QED BY <1>7
    <2> HIDE DEF twice, bound
    <2> QED BY <1>1, <2>1, SumAtMost
  <1>12. SumFunctionOnSet(slack, S) = SlackOf(S)
    BY DEF SlackOf, SumFunction
  <1>13. /\ SumFunctionOnSet(total, S) \in Int /\ SumFunctionOnSet(Amount, S) \in Int
         /\ SumFunctionOnSet(slack, S) \in Int
    <2>1. \A i \in S : total[i] \in Int
      BY <1>7
    <2>2. \A i \in S : Amount[i] \in Int
      BY <1>7
    <2>3. \A i \in S : slack[i] \in Int
      BY <1>7
    <2> HIDE DEF slack
    <2>4. SumFunctionOnSet(total, S) \in Int
      BY <1>1, <2>1, SumInt
    <2>5. SumFunctionOnSet(Amount, S) \in Int
      BY <1>1, <2>2, SumInt
    <2>6. SumFunctionOnSet(slack, S) \in Int
      BY <1>1, <2>3, SumInt
    <2> QED BY <2>4, <2>5, <2>6
  <1>14. SumFunctionOnSet(shown, Q) = SumFunctionOnSet(total, S)
    BY <1>4, <1>6
  <1> HIDE DEF twice, double, bound, slack, shown
  <1>15. 2 * SumFunctionOnSet(shown, Q) <= 2 * Sum(S) + SlackOf(S)
    BY <1>1, <1>8, <1>9, <1>10, <1>11, <1>12, <1>13, <1>14
  <1> QED BY <1>15 DEF shown

\* The projects' sums by type are those of the range at most, but for the tolerance.
LEMMA ProjectsRead ==
  ASSUME RowsAreDrafts
  PROVE  LET projects == ListProjects IN
         /\ 2 * SumFunction([p \in DOMAIN projects |-> projects[p].expense])
              <= 2 * FetchTotalsRange.expense + SlackOf(Typed(Asked, "EXPENSE"))
         /\ 2 * SumFunction([p \in DOMAIN projects |-> projects[p].income])
              <= 2 * FetchTotalsRange.income + SlackOf(Typed(Asked, "INCOME"))
  <1> DEFINE Q == Projects \ archived
             S(type) == Typed(Asked, type)
             shown(type) == [p \in Q |-> SumFunction([i \in S(type) |-> rows[i].alloc[p]])]
  <1>1. Asked \subseteq Live /\ \A type : S(type) \subseteq Live
    BY RowsOf DEF Asked
  <1>2. /\ DOMAIN ListProjects = Q
        /\ [p \in DOMAIN ListProjects |-> ListProjects[p].expense] = shown("EXPENSE")
        /\ [p \in DOMAIN ListProjects |-> ListProjects[p].income] = shown("INCOME")
    BY DEF ListProjects
  <1>3. 2 * SumFunctionOnSet(shown("EXPENSE"), Q) <= 2 * Sum(S("EXPENSE")) + SlackOf(S("EXPENSE"))
    <2>1. S("EXPENSE") \subseteq Live /\ Q \in SUBSET Projects
      BY <1>1
    <2> QED BY <2>1, ProjectsBelow
  <1>4. 2 * SumFunctionOnSet(shown("INCOME"), Q) <= 2 * Sum(S("INCOME")) + SlackOf(S("INCOME"))
    <2>1. S("INCOME") \subseteq Live /\ Q \in SUBSET Projects
      BY <1>1
    <2> QED BY <2>1, ProjectsBelow
  <1>5. /\ SumFunction(shown("EXPENSE")) = SumFunctionOnSet(shown("EXPENSE"), Q)
        /\ SumFunction(shown("INCOME")) = SumFunctionOnSet(shown("INCOME"), Q)
    BY DEF SumFunction
  <1>6. /\ FetchTotalsRange.expense = Sum(S("EXPENSE"))
        /\ FetchTotalsRange.income = Sum(S("INCOME"))
    BY <1>1, TypesAreParts DEF FetchTotalsRange
  <1>7. /\ 2 * SumFunction(shown("EXPENSE"))
             <= 2 * FetchTotalsRange.expense + SlackOf(Typed(Asked, "EXPENSE"))
        /\ 2 * SumFunction(shown("INCOME"))
             <= 2 * FetchTotalsRange.income + SlackOf(Typed(Asked, "INCOME"))
    <2> HIDE DEF shown, Q
    <2> QED BY <1>3, <1>4, <1>5, <1>6
  <1> HIDE DEF shown, S, Q
  <1> QED BY <1>2, <1>7

\* One expense is not more than all of them; days with one are not more than rows.
LEMMA ActivityRead ==
  ASSUME RowsAreDrafts
  PROVE  /\ FetchMonthActivity.largest <= FetchTotalsRange.expense
         /\ FetchMonthActivity.days <= FetchMonthActivity.count
         /\ FetchMonthActivity.count = Cardinality(Asked) /\ Cardinality(Asked) \in Nat
  <1> DEFINE S == Typed(Asked, "EXPENSE")
             day == [i \in S |-> DayOf(rows[i].at)]
             amounts == {Amount[i] : i \in S}
  <1>1. Asked \subseteq Live /\ S \subseteq Asked /\ S \subseteq Live
    BY RowsOf DEF Asked
  <1>2. /\ IsFiniteSet(S) /\ \A i \in S : Amount[i] = rows[i].amount /\ Amount[i] \in Nat
        /\ Sum(S) = SumFunctionOnSet(Amount, S) /\ Sum(S) \in Nat
    <2> HIDE DEF S
    <2> QED BY <1>1, SumOfRows
  <1>3. FetchTotalsRange.expense = Sum(S)
    BY <1>1, TypesAreParts DEF FetchTotalsRange
  <1>4. {day[i] : i \in S} = {DayOf(rows[i].at) : i \in S} /\ amounts = {rows[i].amount : i \in S}
    BY <1>2
  <1>5. /\ FetchMonthActivity.count = Cardinality(Asked)
        /\ FetchMonthActivity.days = Cardinality({day[i] : i \in S})
        /\ FetchMonthActivity.largest = IF S = {} THEN 0 ELSE Max(amounts)
    <2> HIDE DEF day, amounts
    <2> QED BY <1>4 DEF FetchMonthActivity
  <1>6. IsFiniteSet(Asked) /\ Cardinality(Asked) \in Nat
    BY <1>1, SumOfRows, FS_CardinalityType
  <1> HIDE DEF day, S
  <1>7. IsFiniteSet({day[i] : i \in S}) /\ Cardinality({day[i] : i \in S}) <= Cardinality(S)
    BY <1>2, FiniteImage
  <1>8. Cardinality(S) <= Cardinality(Asked) /\ Cardinality(S) \in Nat
    BY <1>1, <1>2, <1>6, FS_Subset, FS_CardinalityType
  <1>9. Cardinality({day[i] : i \in S}) \in Nat
    BY <1>7, FS_CardinalityType
  <1>10. CASE S # {}
    <2>1. IsFiniteSet(amounts) /\ amounts \subseteq Int /\ amounts # {}
      <3>1. IsFiniteSet(amounts)
        BY <1>2, FiniteImage
      <3> QED BY <1>2, <1>10, <3>1
    <2> HIDE DEF amounts
    <2>2. PICK m \in amounts : \A x \in amounts : x <= m
      BY <2>1, GreatestElement
    <2>3. Max(amounts) \in amounts
      <3>1. \A x \in amounts : m >= x
        BY <2>1, <2>2
      <3> QED BY <2>2, <3>1 DEF Max
    <2>4. PICK i \in S : Max(amounts) = Amount[i]
      BY <2>3 DEF amounts
    <2>5. Amount[i] <= SumFunctionOnSet(Amount, S)
      <3>1. \A x \in S : Amount[x] \in Nat
        BY <1>2
      <3> QED BY <1>2, <3>1, SumHas
    <2> QED BY <1>2, <1>3, <1>5, <1>6, <1>7, <1>8, <1>9, <1>10, <2>4, <2>5
  <1>11. CASE S = {}
    BY <1>2, <1>3, <1>5, <1>6, <1>7, <1>8, <1>9, <1>11
  <1> QED BY <1>10, <1>11

-----------------------------------------------------------------------------
(* A report that no write overtook.                                         *)

\* What a summary lists of the day's expenses.
SummaryAgrees(today) ==
  /\ Listed(today.categories) <= today.sums.expense
  /\ Cardinality(DOMAIN today.categories) < SummaryLimit
       => Listed(today.categories) = today.sums.expense

\* The summary of the day is the day's totals, and its categories the day's expenses unless
\* there are too many.
LEMMA TodayRead ==
  ASSUME RowsAreDrafts, NEW today \in PeriodSummary(TodaySummary(Today))
  PROVE  today.sums = FetchToday /\ SummaryAgrees(today)
  <1> DEFINE S == TodaySummary(Today)
             E == Typed(S, "EXPENSE")
  <1>1. S = InRange(Personal, LocalDayRange(Today)) /\ S \subseteq Live
    BY RowsOf DEF TodaySummary, FetchUserRange
  <1>2. E \subseteq Live
    BY <1>1, RowsOf
  <1>3. {i \in E : rows[i].category # ""} = E
    BY <1>2, LiveRow
  <1>4. Totals(S).expense = Sum(E) /\ FetchToday = Totals(S)
    BY <1>1, TypesAreParts DEF FetchToday
  <1>5. PICK top \in Listing(SummaryLimit, CategoryTotals(E)) :
          today = [sums |-> Totals(S), categories |-> top]
    BY DEF PeriodSummary
  <1>6. top \in Listing(SummaryLimit, ByCategory(E))
    BY <1>3, <1>5 DEF CategoryTotals
  <1> HIDE DEF S, E
  <1>7. /\ Listed(top) <= Sum(E)
        /\ Cardinality(DOMAIN top) < SummaryLimit => Listed(top) = Sum(E)
    BY <1>2, <1>6, LimitsAssumption, ListingOfRows
  <1> QED BY <1>4, <1>5, <1>7 DEF SummaryAgrees

\* The range holds no more than everything.
LEMMA RangeInTotals ==
  ASSUME RowsAreDrafts, request.book = Personal
  PROVE  /\ FetchTotalsRange.expense <= FetchUserTotals.expense
         /\ Balance = FetchUserTotals.income - FetchUserTotals.expense
  <1> DEFINE S == Typed(Asked, "EXPENSE")
             U == Typed(Of(Personal), "EXPENSE")
  <1>1. /\ Asked \subseteq Live /\ Of(Personal) \subseteq Live /\ Asked \subseteq Of(Personal)
        /\ S \subseteq U /\ U \subseteq Live
    BY RowsOf DEF Asked, Typed
  <1>2. FetchTotalsRange.expense = Sum(S) /\ FetchUserTotals.expense = Sum(U)
    BY <1>1, TypesAreParts DEF FetchTotalsRange, FetchUserTotals
  <1>3. Sum(S) <= Sum(U)
    <2> HIDE DEF S, U
    <2> QED BY <1>1, SumOfParts
  <1> QED BY <1>2, <1>3 DEF Balance, FetchUserTotals

\* Today's range and the summary of the day differ by the day's last second and the
\* midnight after it.
LEMMA TodayInRange ==
  ASSUME RowsAreDrafts, request.book = Personal, request.from = Today, request.to = Today
  PROVE  FetchTotalsRange.expense - FetchToday.expense
           = Sum({i \in Typed(Asked, "EXPENSE") : rows[i].at >= LastSecond(Today)})
  <1> DEFINE S == Typed(Asked, "EXPENSE")
             today == InRange(Personal, LocalDayRange(Today))
             T == Typed(today, "EXPENSE")
             late == {i \in S : rows[i].at >= LastSecond(Today)}
  <1>1. Asked \subseteq Live /\ today \subseteq Live /\ S \subseteq Live
    BY RowsOf DEF Asked
  <1>2. FetchTotalsRange.expense = Sum(S) /\ FetchToday.expense = Sum(T)
    BY <1>1, TypesAreParts DEF FetchTotalsRange, FetchToday
  <1>3. /\ \A i : i \in Asked <=>
                    i \in Of(Personal) /\ 3 * Today <= rows[i].at /\ rows[i].at <= 3 * (Today + 1)
        /\ \A i : i \in today <=>
                    i \in Of(Personal) /\ 3 * Today <= rows[i].at /\ rows[i].at <= 3 * Today + 2 - 1
    <2>1. /\ AskedRange = <<3 * Today, 3 * (Today + 1)>>
          /\ LocalDayRange(Today) = <<3 * Today, 3 * Today + 2 - 1>>
      <3>1. AskedRange = NanoRange(Today, Today)
        BY DEF AskedRange
      <3>2. NanoRange(Today, Today) = <<3 * Today, 3 * (Today + 1)>>
        BY DEF NanoRange, Midnight
      <3>3. LocalDayRange(Today) = <<3 * Today, 3 * Today + 2 - 1>>
        BY CalendarAssumption DEF LocalDayRange, SecondRange, Midnight, LastSecond
      <3> QED BY <3>1, <3>2, <3>3
    <2>2. \A at : /\ Within(at, AskedRange) <=> 3 * Today <= at /\ at <= 3 * (Today + 1)
                  /\ Within(at, LocalDayRange(Today)) <=> 3 * Today <= at /\ at <= 3 * Today + 2 - 1
      BY <2>1 DEF Within
    <2>3. /\ Asked = InRange(Personal, AskedRange)
          /\ today = InRange(Personal, LocalDayRange(Today))
      BY DEF Asked
    <2> HIDE DEF today
    <2> QED BY <2>2, <2>3, RowsOf
  <1>4. \A i \in Of(Personal) : rows[i].at \in Nat
    BY RowsOf, LiveRow
  <1>5. Today \in Nat
    BY CalendarAssumption
  <1> HIDE DEF today
  <1>6. today \subseteq Asked
    <2> SUFFICES ASSUME NEW i \in today PROVE i \in Asked
      OBVIOUS
    <2>1. i \in Of(Personal) /\ 3 * Today <= rows[i].at /\ rows[i].at <= 3 * Today + 2 - 1
      BY <1>3
    <2>2. rows[i].at \in Nat
      BY <1>4, <2>1
    <2> QED BY <1>3, <1>5, <2>1, <2>2
  <1>7. \A i \in Asked : i \notin today <=> rows[i].at >= 3 * Today + 2
    <2> TAKE i \in Asked
    <2>1. i \in Of(Personal) /\ 3 * Today <= rows[i].at
      BY <1>3
    <2>2. rows[i].at \in Nat
      BY <1>4, <2>1
    <2> QED BY <1>3, <1>5, <2>1, <2>2
  <1>8. T \subseteq S /\ S \ T = late
    BY <1>6, <1>7 DEF Typed, LastSecond
  <1> HIDE DEF S, T, late
  <1>9. Sum(S) = Sum(T) + Sum(S \ T) /\ Sum(S) \in Nat /\ Sum(T) \in Nat /\ Sum(S \ T) \in Nat
    BY <1>1, <1>8, SumOfParts
  <1>10. Sum(S) - Sum(T) = Sum(late)
    <2>1. Sum(S \ T) = Sum(late)
      BY <1>8
    <2> QED BY <1>9, <2>1
  <1> QED BY <1>2, <1>10 DEF late, S

\* The last two weeks of a cashflow are among its days.
LEMMA WeeksRead ==
  ASSUME RowsAreDrafts, RequestIsRange, request.book = Personal
  PROVE  LET week == SplitCashflowExpense(FetchCashflowRange) IN
         week.recent + week.previous <= FetchTotalsRange.expense
  <1> DEFINE ago(a, b) == {d \in CashflowDays : request.to - b < d /\ d <= request.to - a}
             new == ago(0, WeekDays)
             old == ago(WeekDays, 2 * WeekDays)
             sums == DaySums("EXPENSE")
             spent(S) == [d \in S |-> FetchCashflowRange[d].expense]
             week == SplitCashflowExpense(FetchCashflowRange)
  <1>1. /\ DOMAIN FetchCashflowRange = CashflowDays
        /\ \A d \in CashflowDays : FetchCashflowRange[d].expense = sums[d]
    BY CashflowReturned
  <1>2. /\ \A d \in CashflowDays : sums[d] \in Nat
        /\ \A D \in SUBSET CashflowDays : /\ SumFunctionOnSet(sums, D) \in Nat
                                          /\ SumFunctionOnSet(sums, D) <= Sum(Typed(Asked, "EXPENSE"))
    BY CashflowOfType
  <1>3. week.recent = SumFunctionOnSet(spent(new), new) /\ week.previous = SumFunctionOnSet(spent(old), old)
    BY <1>1 DEF SplitCashflowExpense, SumFunction
  <1>4. /\ new \subseteq CashflowDays /\ old \subseteq CashflowDays
        /\ IsFiniteSet(CashflowDays) /\ \A d \in CashflowDays : d \in Int
    BY CashflowDaysInRange
  <1>5. new \cap old = {}
    BY <1>4, CalendarAssumption DEF RequestIsRange
  <1> HIDE DEF sums, week
  <1>6. IsFiniteSet(new) /\ IsFiniteSet(old)
    <2> HIDE DEF new, old
    <2> QED BY <1>4, FS_Subset
  <1>7. ASSUME NEW D, D \subseteq CashflowDays, IsFiniteSet(D)
        PROVE  SumFunctionOnSet(spent(D), D) = SumFunctionOnSet(sums, D)
    <2> DEFINE f == spent(D)
    <2>1. \A d \in D : f[d] = sums[d]
      BY <1>1, <1>7
    <2> HIDE DEF f
    <2>2. SumFunctionOnSet(f, D) = SumFunctionOnSet(sums, D)
      BY <1>7, <2>1, SumSame
    <2> QED BY <2>2 DEF f
  <1> HIDE DEF new, old, spent
  <1>8. SumFunctionOnSet(sums, new \cup old) = SumFunctionOnSet(sums, new) + SumFunctionOnSet(sums, old)
    <2>1. \A d \in new \cup old : sums[d] \in Int
      BY <1>2, <1>4
    <2> QED BY <1>5, <1>6, <2>1, SumUnion
  <1>9. SumFunctionOnSet(sums, new \cup old) <= Sum(Typed(Asked, "EXPENSE"))
    BY <1>2, <1>4
  <1>10. FetchTotalsRange.expense = Sum(Typed(Asked, "EXPENSE"))
    BY CashflowRowsAsked, TypesAreParts DEF FetchTotalsRange
  <1> QED BY <1>3, <1>4, <1>6, <1>7, <1>8, <1>9, <1>10 DEF week

\* All days of the range together show it, but for its last midnight.
LEMMA DaysRead ==
  ASSUME RowsAreDrafts, RequestIsRange, request.book = Personal,
         CashflowDays = request.from .. request.to
  PROVE  LET flow == FetchCashflowRange IN
         /\ Spent(flow) + Sum(Typed(Beyond, "EXPENSE")) = FetchTotalsRange.expense
         /\ Earned(flow) + Sum(Typed(Beyond, "INCOME")) = FetchTotalsRange.income
  <1> DEFINE spent == [d \in CashflowDays |-> FetchCashflowRange[d].expense]
             earned == [d \in CashflowDays |-> FetchCashflowRange[d].income]
  <1>1. /\ \A d \in CashflowDays : spent[d] = DaySums("EXPENSE")[d] /\ earned[d] = DaySums("INCOME")[d]
        /\ Spent(FetchCashflowRange) = SumFunctionOnSet(spent, CashflowDays)
        /\ Earned(FetchCashflowRange) = SumFunctionOnSet(earned, CashflowDays)
    BY CashflowReturned DEF Spent, Earned, SumFunction
  <1>2. IsFiniteSet(CashflowDays)
    BY CashflowDaysInRange
  <1> HIDE DEF spent, earned
  <1>3. SumFunctionOnSet(spent, CashflowDays) = SumFunctionOnSet(DaySums("EXPENSE"), CashflowDays)
    <2>1. \A d \in CashflowDays : spent[d] = DaySums("EXPENSE")[d]
      BY <1>1
    <2> QED BY <1>2, <2>1, SumSame
  <1>4. SumFunctionOnSet(earned, CashflowDays) = SumFunctionOnSet(DaySums("INCOME"), CashflowDays)
    <2>1. \A d \in CashflowDays : earned[d] = DaySums("INCOME")[d]
      BY <1>1
    <2> QED BY <1>2, <2>1, SumSame
  <1>5. /\ SumFunctionOnSet(DaySums("EXPENSE"), CashflowDays) + Sum(Typed(Beyond, "EXPENSE"))
             = Sum(Typed(Asked, "EXPENSE"))
        /\ SumFunctionOnSet(DaySums("INCOME"), CashflowDays) + Sum(Typed(Beyond, "INCOME"))
             = Sum(Typed(Asked, "INCOME"))
    BY CashflowOfType
  <1>6. /\ FetchTotalsRange.expense = Sum(Typed(Asked, "EXPENSE"))
        /\ FetchTotalsRange.income = Sum(Typed(Asked, "INCOME"))
    BY CashflowRowsAsked, TypesAreParts DEF FetchTotalsRange
  <1> QED BY <1>1, <1>3, <1>4, <1>5, <1>6

\* The parts of a personal report that are what they would be now agree.
LEMMA PersonalReport ==
  ASSUME RowsAreDrafts, JournalIsOfRows, RequestIsRange, request.book = Personal,
         DOMAIN read = PersonalParts, \A s \in DOMAIN read : Fresh(s)
  PROVE  PersonalPartsAgree
  <1>1. /\ Fresh("totals") /\ Fresh("today") /\ Fresh("range") /\ Fresh("categories")
        /\ Fresh("cashflow") /\ Fresh("recent") /\ Fresh("allocations") /\ Fresh("projects")
        /\ Fresh("check") /\ Fresh("activity")
    BY DEF PersonalParts, Before
  <1>2. /\ read["totals"] = FetchUserTotals /\ read["today"] = FetchToday
        /\ read["range"] = FetchTotalsRange /\ read["categories"] \in FetchExpenseCategories
        /\ read["cashflow"] = FetchCashflowRange
        /\ read["projects"] = ListProjects /\ read["check"] = FetchLedgerCheck
        /\ read["activity"] = FetchMonthActivity /\ read["allocations"] = FetchAllocations
    BY <1>1 DEF Fresh, Answers
  <1>3. PICK S \in FetchRecent : read["recent"] = Shown(S)
    BY <1>1 DEF Fresh, Answers
  <1>4. /\ FetchLedgerCheck.debit = FetchLedgerCheck.credit
        /\ FetchLedgerCheck.debit = FetchTotalsRange.income + FetchTotalsRange.expense
    BY CheckOfRows
  <1>5. /\ Listed(read["categories"]) <= FetchTotalsRange.expense
        /\ Cardinality(DOMAIN read["categories"]) < CategoryLimit
             => Listed(read["categories"]) = FetchTotalsRange.expense
    BY <1>2, CategoriesRead
  <1>6. DOMAIN FetchCashflowRange = request.from .. request.to =>
          /\ Spent(FetchCashflowRange) + Sum(Typed(Beyond, "EXPENSE")) = FetchTotalsRange.expense
          /\ Earned(FetchCashflowRange) + Sum(Typed(Beyond, "INCOME")) = FetchTotalsRange.income
    BY CashflowReturned, DaysRead
  <1>7. LET week == SplitCashflowExpense(FetchCashflowRange) IN
        week.recent + week.previous <= FetchTotalsRange.expense
    BY WeeksRead
  <1>8. /\ FetchMonthActivity.largest <= FetchTotalsRange.expense
        /\ FetchMonthActivity.days <= FetchMonthActivity.count
        /\ FetchMonthActivity.count = Cardinality(Asked) /\ Cardinality(Asked) \in Nat
    BY ActivityRead
  <1>9. /\ S \subseteq Asked
        /\ Cardinality(S) = IF Cardinality(Asked) < RecentLimit THEN Cardinality(Asked) ELSE RecentLimit
    <2>1. IsFiniteSet(Asked)
      <3>1. Asked \subseteq Live
        BY AskedInstants
      <3> QED BY <3>1, SumOfRows
    <2>2. RecentLimit \in Nat
      BY LimitsAssumption
    <2>3. S \in Top(RecentLimit, Asked, [i \in Asked |-> rows[i].at])
      BY DEF FetchRecent
    <2> QED BY <2>1, <2>2, <2>3, TopOfSet
  <1>10. SharesFit
    <2> SUFFICES ASSUME NEW i \in DOMAIN read["recent"]
                 PROVE  2 * read["allocations"][i]
                          <= 2 * read["recent"][i].amount + Slack(rows[i].alloc)
      BY DEF SharesFit
    <2>1. i \in S /\ read["recent"][i].amount = rows[i].amount
      BY <1>3 DEF Shown
    <2>2. read["allocations"][i] = Allocated(rows[i].alloc)
      BY <1>2 DEF FetchAllocations
    <2>3. i \in Live
      BY <1>9, <2>1, AskedInstants
    <2> QED BY <2>1, <2>2, <2>3, LiveRow DEF Fits
  <1>11. /\ 2 * SumFunction([p \in DOMAIN ListProjects |-> ListProjects[p].expense])
              <= 2 * FetchTotalsRange.expense + SlackOf(Typed(Asked, "EXPENSE"))
         /\ 2 * SumFunction([p \in DOMAIN ListProjects |-> ListProjects[p].income])
              <= 2 * FetchTotalsRange.income + SlackOf(Typed(Asked, "INCOME"))
    BY ProjectsRead
  <1>12. /\ FetchTotalsRange.expense <= FetchUserTotals.expense
         /\ Balance = FetchUserTotals.income - FetchUserTotals.expense
    BY RangeInTotals
  <1>13. \A today \in PeriodSummary(TodaySummary(Today)) :
           today.sums = FetchToday /\ SummaryAgrees(today)
    BY TodayRead
  <1>14. request.from = Today /\ request.to = Today =>
           FetchTotalsRange.expense - FetchToday.expense
             = Sum({i \in Typed(Asked, "EXPENSE") : rows[i].at >= LastSecond(Today)})
    BY TodayInRange
  <1>15. DOMAIN read["recent"] = S
    BY <1>3 DEF Shown
  <1>16. /\ read["check"].debit = read["check"].credit
         /\ read["check"].debit = read["range"].income + read["range"].expense
         /\ Listed(read["categories"]) <= read["range"].expense
         /\ Cardinality(DOMAIN read["categories"]) < CategoryLimit
              => Listed(read["categories"]) = read["range"].expense
    BY <1>2, <1>4, <1>5
  <1>17. /\ DOMAIN read["cashflow"] = request.from .. request.to =>
              /\ Spent(read["cashflow"]) + Sum(Typed(Beyond, "EXPENSE")) = read["range"].expense
              /\ Earned(read["cashflow"]) + Sum(Typed(Beyond, "INCOME")) = read["range"].income
         /\ LET week == SplitCashflowExpense(read["cashflow"]) IN
              week.recent + week.previous <= read["range"].expense
    BY <1>2, <1>6, <1>7
  <1>18. /\ read["activity"].largest <= read["range"].expense
         /\ read["activity"].days <= read["activity"].count
         /\ Cardinality(DOMAIN read["recent"])
              = IF read["activity"].count < RecentLimit THEN read["activity"].count ELSE RecentLimit
    BY <1>2, <1>8, <1>9, <1>15
  <1>19. /\ 2 * SumFunction([p \in DOMAIN read["projects"] |-> read["projects"][p].expense])
              <= 2 * read["range"].expense + SlackOf(Typed(Asked, "EXPENSE"))
         /\ 2 * SumFunction([p \in DOMAIN read["projects"] |-> read["projects"][p].income])
              <= 2 * read["range"].income + SlackOf(Typed(Asked, "INCOME"))
    BY <1>2, <1>11
  <1>20. /\ read["range"].expense <= read["totals"].expense
         /\ Balance = read["totals"].income - read["totals"].expense
    BY <1>2, <1>12
  <1>21. /\ \A today \in PeriodSummary(TodaySummary(Today)) :
              today.sums = read["today"] /\ SummaryAgrees(today)
         /\ request.from = Today /\ request.to = Today =>
              read["range"].expense - read["today"].expense
                = Sum({i \in Typed(Asked, "EXPENSE") : rows[i].at >= LastSecond(Today)})
    BY <1>2, <1>13, <1>14
  <1> QED BY <1>10, <1>16, <1>17, <1>18, <1>19, <1>20, <1>21 DEF PersonalPartsAgree, SummaryAgrees

\* The parts of a business report agree with one another and with the profit.
LEMMA BusinessReport ==
  ASSUME RowsAreDrafts, RequestIsRange, Fresh("rows"), Fresh("goods")
  PROVE  BusinessPartsAgree
  <1> DEFINE late == {i \in Asked : rows[i].at >= LastSecond(request.to)}
             found == InRange(request.book, SecondRange(request.from, request.to))
             S(type) == Typed(Asked, type)
             F(type) == Typed(found, type)
             L(type) == Typed(late, type)
  <1>1. read["rows"] = Totals(Asked) /\ read["goods"] \in {0, Sum(CostOfGoods(Asked))}
    BY DEF Fresh, Answers
  <1>2. request.from \in Int /\ request.to \in Int
    BY DEF RequestIsRange
  <1>3. Asked \subseteq Live /\ found \subseteq Live /\ late \subseteq Live
    BY RowsOf DEF Asked
  <1>4. /\ Totals(Asked).income = Sum(S("INCOME")) /\ Totals(Asked).expense = Sum(S("EXPENSE"))
        /\ Totals(found).income = Sum(F("INCOME")) /\ Totals(found).expense = Sum(F("EXPENSE"))
        /\ Totals(late).income = Sum(L("INCOME")) /\ Totals(late).expense = Sum(L("EXPENSE"))
    BY DEF Totals
  <1>5. found \subseteq Asked /\ late = Asked \ found
    <2>1. SecondRange(request.from, request.to) = <<3 * request.from, 3 * request.to + 2 - 1>>
      BY <1>2 DEF SecondRange, Midnight, LastSecond
    <2>2. \A at : Within(at, SecondRange(request.from, request.to))
                    <=> 3 * request.from <= at /\ at <= 3 * request.to + 2 - 1
      BY <2>1 DEF Within
    <2>3. \A at : Within(at, AskedRange) <=> 3 * request.from <= at /\ at <= 3 * (request.to + 1)
      BY AskedInstants
    <2>4. \A i \in Of(request.book) : rows[i].at \in Nat
      BY RowsOf, LiveRow
    <2>5. \A i \in Of(request.book) :
            /\ Within(rows[i].at, SecondRange(request.from, request.to)) => Within(rows[i].at, AskedRange)
            /\ Within(rows[i].at, AskedRange) =>
                 (rows[i].at >= 3 * request.to + 2
                    <=> ~ Within(rows[i].at, SecondRange(request.from, request.to)))
      <3> TAKE i \in Of(request.book)
      <3>1. rows[i].at \in Nat
        BY <2>4
      <3> QED BY <1>2, <2>2, <2>3, <3>1
    <2> QED BY <2>5 DEF Asked, InRange, LastSecond
  <1>6. ASSUME NEW type
        PROVE  /\ Sum(S(type)) = Sum(F(type)) + Sum(L(type))
               /\ Sum(S(type)) \in Nat /\ Sum(F(type)) \in Nat /\ Sum(L(type)) \in Nat
    <2>1. S(type) \subseteq Live /\ F(type) \subseteq S(type) /\ S(type) \ F(type) = L(type)
      BY <1>3, <1>5 DEF Typed
    <2> HIDE DEF S, F, L
    <2>2. /\ Sum(S(type)) = Sum(F(type)) + Sum(S(type) \ F(type))
          /\ Sum(S(type)) \in Nat /\ Sum(F(type)) \in Nat /\ Sum(S(type) \ F(type)) \in Nat
      BY <2>1, SumOfParts
    <2>3. Sum(S(type) \ F(type)) = Sum(L(type))
      BY <2>1
    <2> QED BY <2>2, <2>3
  <1>7. CostOfGoods(Asked) \subseteq S("EXPENSE") /\ CostOfGoods(found) \subseteq F("EXPENSE")
    BY DEF CostOfGoods, Typed
  <1>8. S("EXPENSE") \subseteq Live /\ F("EXPENSE") \subseteq Live
    BY <1>3 DEF Typed
  <1>9. WebProfit = [gross |-> Totals(found).income - Sum(CostOfGoods(found)),
                     net |-> Totals(found).income - Totals(found).expense]
    BY DEF WebProfit, ComputeBusinessProfit
  <1>10. request.preset = "this_month" => ChatProfit = WebProfit
    <2> SUFFICES ASSUME request.preset = "this_month" PROVE ChatProfit = WebProfit
      OBVIOUS
    <2>1. request.from = MonthStart(Today) /\ request.to = Today
      BY DEF RequestIsRange
    <2>2. Today \in Nat
      BY CalendarAssumption
    <2>3. Midnight(Today) + 1 = LastSecond(Today) - 1
      BY <2>2 DEF Midnight, LastSecond
    <2>4. SecondRange(request.from, request.to)
            = <<Midnight(MonthStart(Today)), Midnight(Today) + 1>>
      BY <2>1, <2>3 DEF SecondRange
    <2> QED BY <2>4 DEF WebProfit, ChatProfit
  <1> HIDE DEF S, F, L, found, late
  <1>11. /\ Sum(CostOfGoods(Asked)) <= Sum(S("EXPENSE")) /\ Sum(CostOfGoods(Asked)) \in Nat
         /\ Sum(CostOfGoods(found)) <= Sum(F("EXPENSE")) /\ Sum(CostOfGoods(found)) \in Nat
    BY <1>7, <1>8, SumOfParts
  <1>12. read["goods"] <= read["rows"].expense
    BY <1>1, <1>4, <1>6, <1>11
  <1>13. /\ WebProfit.net + Totals(late).income - Totals(late).expense
              = read["rows"].income - read["rows"].expense
         /\ WebProfit.net <= WebProfit.gross
    BY <1>1, <1>4, <1>6, <1>9, <1>11
  <1> QED BY <1>10, <1>12, <1>13 DEF BusinessPartsAgree, late

-----------------------------------------------------------------------------
(* The steps of a report.                                                   *)

\* The statements' names, and what their order says of what was read.
LEMMA Statements ==
  /\ DOMAIN After = {"totals", "today", "range", "categories", "cashflow", "recent", "allocations",
                     "projects", "check", "activity", "rows", "goods"}
  /\ PersonalParts = {"totals", "today", "range", "categories", "cashflow", "recent",
                      "allocations", "projects", "check", "activity"}
  /\ BusinessParts = {"rows", "goods"}
  BY DEF After, PersonalParts, BusinessParts, Before

\* A statement that comes next has not been read.
LEMMA OrderFacts ==
  ASSUME InOrder, step \in DOMAIN After \cup {"idle", "done"}
  PROVE  /\ step \in DOMAIN After => DOMAIN read = Before[step] /\ step \notin DOMAIN read
         /\ step \in PersonalParts => request.book = Personal
         /\ step \in BusinessParts => request.book # Personal
         /\ DOMAIN read \subseteq DOMAIN After
         /\ "allocations" \in DOMAIN read => "recent" \in DOMAIN read
         /\ "check" \in DOMAIN read => {"range", "categories", "cashflow"} \subseteq DOMAIN read
         /\ "activity" \in DOMAIN read => {"recent", "check"} \subseteq DOMAIN read
         /\ DOMAIN read \cap PersonalParts # {} => request.book = Personal
         /\ step = "done" /\ "activity" \in DOMAIN read => DOMAIN read = PersonalParts
         /\ step = "done" /\ "goods" \in DOMAIN read => DOMAIN read = BusinessParts
  <1>1. CASE step = "idle"
    BY <1>1, Statements DEF InOrder
  <1>2. CASE step = "done"
    BY <1>2, Statements DEF InOrder
  <1>3. CASE step \in PersonalParts
    <2>1. request.book = Personal /\ DOMAIN read = Before[step]
      BY <1>3, Statements DEF InOrder
    <2> QED BY <1>3, <2>1, Statements DEF Before
  <1>4. CASE step \in BusinessParts
    <2>1. request.book # Personal /\ DOMAIN read = Before[step]
      BY <1>4, Statements DEF InOrder
    <2> QED BY <1>4, <2>1, Statements DEF Before
  <1> QED BY <1>1, <1>2, <1>3, <1>4, Statements

\* Every step of a report reads what its statement returns.
LEMMA StatementAnswers ==
  ASSUME DashboardStep \/ BusinessStep
  PROVE  \E s \in DOMAIN After : \E v : Returns(s, v) /\ Answers(s, v)
  <1>1. Answers("totals", FetchUserTotals)
    BY DEF Answers
  <1>2. Answers("today", FetchToday)
    BY DEF Answers
  <1>3. Answers("range", FetchTotalsRange)
    BY DEF Answers
  <1>4. \A top \in FetchExpenseCategories : Answers("categories", top)
    BY DEF Answers
  <1>5. Answers("cashflow", FetchCashflowRange)
    BY DEF Answers
  <1>6. \A S \in FetchRecent : Answers("recent", Shown(S))
    BY DEF Answers
  <1>7. Answers("allocations", FetchAllocations)
    BY DEF Answers
  <1>8. Answers("projects", ListProjects)
    BY DEF Answers
  <1>9. Answers("check", FetchLedgerCheck)
    BY DEF Answers
  <1>10. Answers("activity", FetchMonthActivity)
    BY DEF Answers
  <1>11. Answers("rows", Totals(Asked))
    BY DEF Answers
  <1>12. \A goods \in {0, Sum(CostOfGoods(Asked))} : Answers("goods", goods)
    BY DEF Answers
  <1>13. CASE DashboardStep
    BY <1>1, <1>2, <1>3, <1>4, <1>5, <1>6, <1>7, <1>8, <1>9, <1>10, <1>13, Statements
       DEF DashboardStep
  <1>14. CASE BusinessStep
    BY <1>11, <1>12, <1>14, Statements DEF BusinessStep
  <1> QED BY <1>13, <1>14

\* What was read stays, and the statement's result is added to it.
LEMMA ReadExtended ==
  ASSUME NEW s, NEW v, Returns(s, v), s \notin DOMAIN read
  PROVE  /\ DOMAIN read' = DOMAIN read \cup {s} /\ read'[s] = v
         /\ \A t \in DOMAIN read : read'[t] = read[t]
         /\ step = s /\ step' = After[s]
         /\ UNCHANGED <<bookVars, request, overtaken>>
  BY DEF Returns

\* The statements return the same as long as nothing is written.
LEMMA SameAnswers ==
  ASSUME UNCHANGED <<rows, journal, archived, request>>
  PROVE  /\ Live' = Live /\ Asked' = Asked
         /\ FetchUserTotals' = FetchUserTotals /\ FetchToday' = FetchToday
         /\ FetchTotalsRange' = FetchTotalsRange
         /\ FetchExpenseCategories' = FetchExpenseCategories
         /\ FetchCashflowRange' = FetchCashflowRange /\ CashflowDays' = CashflowDays
         /\ FetchRecent' = FetchRecent /\ \A S : Shown(S)' = Shown(S)
         /\ ListProjects' = ListProjects /\ FetchLedgerCheck' = FetchLedgerCheck
         /\ FetchMonthActivity' = FetchMonthActivity
         /\ Totals(Asked)' = Totals(Asked)
         /\ Sum(CostOfGoods(Asked))' = Sum(CostOfGoods(Asked))
  <1>1. Live' = Live /\ Asked' = Asked /\ CashflowDays' = CashflowDays
    BY DEF Live, Asked, AskedRange, InRange, Of, CashflowDays
  <1>2. FetchUserTotals' = FetchUserTotals
    BY DEF FetchUserTotals, Totals, Sum, Typed, Of, Live
  <1>3. FetchToday' = FetchToday
    BY DEF FetchToday, Totals, Sum, Typed, InRange, Of, Live
  <1>4. FetchTotalsRange' = FetchTotalsRange /\ Totals(Asked)' = Totals(Asked)
    BY <1>1 DEF FetchTotalsRange, Totals, Sum, Typed
  <1>5. FetchExpenseCategories' = FetchExpenseCategories
    BY <1>1 DEF FetchExpenseCategories, Listing, ByCategory, Typed, Sum
  <1>6. FetchCashflowRange' = FetchCashflowRange
    BY <1>1 DEF FetchCashflowRange, Totals, Sum, Typed, InRange, Of, Live
  <1>7. FetchRecent' = FetchRecent /\ \A S : Shown(S)' = Shown(S)
    BY <1>1 DEF FetchRecent, Shown
  <1>8. ListProjects' = ListProjects
    BY <1>1 DEF ListProjects, Typed
  <1>9. FetchLedgerCheck' = FetchLedgerCheck
    BY DEF FetchLedgerCheck, AskedRange
  <1>10. FetchMonthActivity' = FetchMonthActivity
    BY <1>1 DEF FetchMonthActivity, Typed
  <1>11. Sum(CostOfGoods(Asked))' = Sum(CostOfGoods(Asked))
    BY <1>1 DEF Sum, CostOfGoods
  <1> QED BY <1>1, <1>2, <1>3, <1>4, <1>5, <1>6, <1>7, <1>8, <1>9, <1>10, <1>11

\* A statement that is read.
LEMMA StatementKeepsOrder ==
  ASSUME ReportInv, NEW s \in DOMAIN After, NEW v, Returns(s, v)
  PROVE  InOrder' /\ s \notin DOMAIN read /\ step' \in DOMAIN After \cup {"idle", "done"}
  <1>1. step = s /\ InOrder /\ step \in DOMAIN After \cup {"idle", "done"}
    BY DEF Returns, ReportInv
  <1>2. s \notin DOMAIN read /\ DOMAIN read = Before[s]
    BY <1>1, OrderFacts
  <1>3. DOMAIN read' = Before[s] \cup {s} /\ step' = After[s] /\ request' = request
    BY <1>2, ReadExtended
  <1>4. s \in PersonalParts \/ s \in BusinessParts
    BY Statements
  <1>5. ASSUME s \in PersonalParts PROVE InOrder'
    <2>1. request.book = Personal
      BY <1>1, <1>5, OrderFacts
    <2>2. CASE s = "activity"
      <3>1. step' = "done" /\ DOMAIN read' = PersonalParts
        BY <1>3, <2>2 DEF After, PersonalParts
      <3> QED BY <1>3, <2>1, <3>1, Statements DEF InOrder
    <2>3. CASE s # "activity"
      <3>1. step' \in PersonalParts /\ Before[step'] = Before[s] \cup {s}
        BY <1>3, <1>5, <2>3, Statements DEF After, Before
      <3>2. step' \notin {"idle", "done"} /\ step' \notin BusinessParts
        BY <3>1, Statements
      <3> QED BY <1>3, <2>1, <3>1, <3>2 DEF InOrder
    <2> QED BY <2>2, <2>3
  <1>6. ASSUME s \in BusinessParts PROVE InOrder'
    <2>1. request.book # Personal
      BY <1>1, <1>6, OrderFacts
    <2>2. CASE s = "goods"
      <3>1. step' = "done" /\ DOMAIN read' = BusinessParts
        BY <1>3, <2>2 DEF After, BusinessParts
      <3> QED BY <1>3, <2>1, <3>1, Statements DEF InOrder
    <2>3. CASE s = "rows"
      <3>1. step' = "goods" /\ DOMAIN read' = Before["goods"]
        BY <1>3, <2>3 DEF After, Before
      <3>2. step' \in BusinessParts /\ step' \notin PersonalParts
        BY <3>1, Statements
      <3> QED BY <1>3, <2>1, <3>1, <3>2 DEF InOrder
    <2> QED BY <1>6, <2>2, <2>3, Statements
  <1>7. step' \in DOMAIN After \cup {"idle", "done"}
    BY <1>3 DEF After
  <1> QED BY <1>2, <1>4, <1>5, <1>6, <1>7

\* A statement adds an answer of its type,
LEMMA StatementKeepsTypes ==
  ASSUME BooksInv, ReportInv, NEW s \in DOMAIN After, NEW v, Returns(s, v), Answers(s, v)
  PROVE  ReadTyped'
  <1>1. s \notin DOMAIN read
    BY StatementKeepsOrder
  <1>2. /\ DOMAIN read' = DOMAIN read \cup {s} /\ read'[s] = v
        /\ \A t \in DOMAIN read : read'[t] = read[t]
    BY <1>1, ReadExtended
  <1>3. /\ Asked \subseteq Live /\ Of(Personal) \subseteq Live
        /\ InRange(Personal, LocalDayRange(Today)) \subseteq Live
    BY RowsOf DEF Asked
  <1>4. /\ Totals(Asked) \in Sums /\ FetchUserTotals \in Sums /\ FetchToday \in Sums
        /\ FetchTotalsRange \in Sums
    BY <1>3, TypesAreParts DEF BooksInv, FetchUserTotals, FetchToday, FetchTotalsRange
  <1>5. s \in {"totals", "today", "range", "rows"} => v \in Sums
    BY <1>4 DEF Answers
  <1> QED BY <1>2, <1>5 DEF ReportInv, ReadTyped

\* one it would give again,
LEMMA StatementKeepsFresh ==
  ASSUME BooksInv, ReportInv, NEW s \in DOMAIN After, NEW v, Returns(s, v), Answers(s, v)
  PROVE  AllFresh'
  <1>1. s \notin DOMAIN read /\ InOrder'
    BY StatementKeepsOrder
  <1>2. /\ DOMAIN read' = DOMAIN read \cup {s} /\ read'[s] = v
        /\ \A t \in DOMAIN read : read'[t] = read[t]
        /\ UNCHANGED <<bookVars, request, overtaken>> /\ step = s
    BY <1>1, ReadExtended
  <1>3. UNCHANGED <<rows, journal, archived, request>>
    BY <1>2 DEF bookVars
  <1>4. /\ "allocations" \in DOMAIN read => "recent" \in DOMAIN read
        /\ s = "allocations" => "recent" \in DOMAIN read
    <2>1. s = "allocations" => DOMAIN read = Before["allocations"]
      BY <1>2, OrderFacts DEF ReportInv
    <2> QED BY <2>1, OrderFacts DEF ReportInv, Before
  <1>5. "recent" \in DOMAIN read => FetchAllocations' = FetchAllocations
    BY <1>2, <1>3 DEF FetchAllocations
  <1>6. ASSUME NEW t \in DOMAIN After, NEW w, Answers(t, w),
               t = "allocations" => "recent" \in DOMAIN read
        PROVE  Answers(t, w)'
    BY <1>3, <1>5, <1>6, SameAnswers, Statements DEF Answers
  <1>7. ASSUME overtaken' = "none", NEW t \in DOMAIN read' PROVE Fresh(t)'
    <2>1. CASE t = s
      BY <1>2, <1>4, <1>6, <2>1 DEF Fresh
    <2>2. CASE t # s
      <3>1. t \in DOMAIN read /\ overtaken = "none" /\ t \in DOMAIN After
        BY <1>2, <1>7, <2>2, OrderFacts DEF ReportInv
      <3>2. Answers(t, read[t])
        BY <3>1 DEF ReportInv, AllFresh, Fresh
      <3>3. Answers(t, read[t])'
        BY <1>2, <1>4, <1>6, <3>1, <3>2
      <3> QED BY <3>3 DEF Fresh
    <2> QED BY <2>1, <2>2
  <1> QED BY <1>7 DEF AllFresh

\* one that is not above the books;
LEMMA StatementKeepsBelow ==
  ASSUME BooksInv, ReportInv, NEW s \in DOMAIN After, NEW v, Returns(s, v), Answers(s, v)
  PROVE  Below'
  <1>1. s \notin DOMAIN read
    BY StatementKeepsOrder
  <1>2. /\ DOMAIN read' = DOMAIN read \cup {s} /\ read'[s] = v
        /\ \A t \in DOMAIN read : read'[t] = read[t]
        /\ UNCHANGED <<bookVars, request, overtaken>> /\ step = s
    BY <1>1, ReadExtended
  <1>3. UNCHANGED <<rows, journal, archived, request>>
    BY <1>2 DEF bookVars
  <1>4. RowsAreDrafts /\ RequestIsRange
    BY DEF BooksInv, ReportInv
  <1>5. SUFFICES ASSUME overtaken' # "changed"
                 PROVE  /\ "range" \in DOMAIN read' => RangeBelow'
                        /\ "categories" \in DOMAIN read' => CategoriesBelow'
                        /\ "cashflow" \in DOMAIN read' => FlowBelow'
                        /\ "recent" \in DOMAIN read' => RecentBelow'
                        /\ "allocations" \in DOMAIN read' => read'["allocations"] = FetchAllocations'
    BY DEF Below
  <1>6. /\ "range" \in DOMAIN read => RangeBelow
        /\ "categories" \in DOMAIN read => CategoriesBelow
        /\ "cashflow" \in DOMAIN read => FlowBelow
        /\ "recent" \in DOMAIN read => RecentBelow
        /\ "allocations" \in DOMAIN read => read["allocations"] = FetchAllocations
    BY <1>2, <1>5 DEF ReportInv, Below
  <1>7. FetchTotalsRange.income \in Nat /\ FetchTotalsRange.expense \in Nat
    BY <1>4, AskedInstants, TypesAreParts DEF FetchTotalsRange
  <1>8. ASSUME "range" \in DOMAIN read' PROVE RangeBelow'
    <2>1. CASE s = "range"
      <3>1. v = FetchTotalsRange
        BY <2>1 DEF Answers
      <3> QED BY <1>2, <1>3, <1>7, <2>1, <3>1, SameAnswers DEF RangeBelow
    <2>2. CASE s # "range"
      BY <1>2, <1>3, <1>6, <1>8, <2>2, SameAnswers DEF RangeBelow
    <2> QED BY <2>1, <2>2
  <1>9. ASSUME "categories" \in DOMAIN read' PROVE CategoriesBelow'
    <2>1. CASE s = "categories"
      <3>1. v \in FetchExpenseCategories
        BY <2>1 DEF Answers
      <3>2. Listed(v) \in Nat /\ Listed(v) <= FetchTotalsRange.expense
        BY <1>4, <3>1, CategoriesRead
      <3> QED BY <1>2, <1>3, <2>1, <3>2, SameAnswers DEF CategoriesBelow
    <2>2. CASE s # "categories"
      BY <1>2, <1>3, <1>6, <1>9, <2>2, SameAnswers DEF CategoriesBelow
    <2> QED BY <2>1, <2>2
  <1>10. ASSUME "cashflow" \in DOMAIN read' PROVE FlowBelow'
    <2>1. CASE s = "cashflow"
      <3>1. v = FetchCashflowRange
        BY <2>1 DEF Answers
      <3>2. request.book = Personal
        BY <1>2, <2>1, OrderFacts, Statements DEF ReportInv
      <3>3. \A d \in CashflowDays : DaySums("INCOME")[d] \in Nat /\ DaySums("EXPENSE")[d] \in Nat
        BY <1>4, <3>2, CashflowOfType
      <3>4. /\ DOMAIN v = CashflowDays
            /\ \A d \in CashflowDays :
                 /\ v[d].income \in Nat /\ v[d].expense \in Nat
                 /\ v[d].income <= FetchCashflowRange[d].income
                 /\ v[d].expense <= FetchCashflowRange[d].expense
        BY <3>1, <3>3, CashflowReturned
      <3> QED BY <1>2, <1>3, <2>1, <3>4, SameAnswers DEF FlowBelow
    <2>2. CASE s # "cashflow"
      BY <1>2, <1>3, <1>6, <1>10, <2>2, SameAnswers DEF FlowBelow
    <2> QED BY <2>1, <2>2
  <1>11. ASSUME "recent" \in DOMAIN read' PROVE RecentBelow'
    <2>1. CASE s = "recent"
      <3>1. PICK S \in FetchRecent : v = Shown(S)
        BY <2>1 DEF Answers
      <3>2. S \subseteq Asked
        BY <3>1 DEF FetchRecent, Top
      <3>3. DOMAIN v = S
        BY <3>1 DEF Shown
      <3>4. DOMAIN v \subseteq Asked /\ v = Shown(DOMAIN v)
        BY <3>1, <3>2, <3>3
      <3> QED BY <1>2, <1>3, <2>1, <3>4, SameAnswers DEF RecentBelow
    <2>2. CASE s # "recent"
      BY <1>2, <1>3, <1>6, <1>11, <2>2, SameAnswers DEF RecentBelow
    <2> QED BY <2>1, <2>2
  <1>12. ASSUME "allocations" \in DOMAIN read' PROVE read'["allocations"] = FetchAllocations'
    <2>1. "recent" \in DOMAIN read
      <3>1. s = "allocations" => DOMAIN read = Before["allocations"]
        BY <1>2, OrderFacts DEF ReportInv
      <3> QED BY <1>2, <1>12, <3>1, OrderFacts DEF ReportInv, Before
    <2>2. FetchAllocations' = FetchAllocations
      BY <1>2, <1>3, <2>1 DEF FetchAllocations
    <2>3. s = "allocations" => v = FetchAllocations
      BY DEF Answers
    <2> QED BY <1>2, <1>6, <1>12, <2>2, <2>3
  <1> QED BY <1>8, <1>9, <1>10, <1>11, <1>12

\* the check is read after what it is compared with,
LEMMA StatementKeepsCheck ==
  ASSUME BooksInv, ReportInv, NEW s \in DOMAIN After, NEW v, Returns(s, v), Answers(s, v)
  PROVE  CheckAbove'
  <1>1. s \notin DOMAIN read
    BY StatementKeepsOrder
  <1>2. /\ DOMAIN read' = DOMAIN read \cup {s} /\ read'[s] = v
        /\ \A t \in DOMAIN read : read'[t] = read[t]
        /\ UNCHANGED <<bookVars, request, overtaken>> /\ step = s
    BY <1>1, ReadExtended
  <1>3. SUFFICES ASSUME overtaken' # "changed", "check" \in DOMAIN read'
                 PROVE  LET range == read'["range"]
                            flow == read'["cashflow"] IN
                        /\ range.income + range.expense <= read'["check"].debit
                        /\ DOMAIN flow = request'.from .. request'.to =>
                             Spent(flow) + Earned(flow) <= read'["check"].debit
                        /\ Listed(read'["categories"]) <= read'["check"].debit
    BY DEF CheckAbove
  <1>4. /\ overtaken # "changed" /\ request' = request
        /\ {"range", "categories", "cashflow"} \subseteq DOMAIN read
    <2>1. s = "check" => DOMAIN read = Before["check"]
      BY <1>2, OrderFacts DEF ReportInv
    <2> QED BY <1>2, <1>3, <2>1, OrderFacts DEF ReportInv, Before
  <1>5. /\ read'["range"] = read["range"] /\ read'["categories"] = read["categories"]
        /\ read'["cashflow"] = read["cashflow"]
    BY <1>2, <1>4
  <1>6. CASE s = "check"
    <2>1. v = FetchLedgerCheck
      BY <1>6 DEF Answers
    <2>2. request.book = Personal /\ RowsAreDrafts /\ JournalIsOfRows /\ RequestIsRange
      BY <1>2, <1>6, OrderFacts, Statements DEF BooksInv, ReportInv
    <2>3. /\ v.debit = FetchTotalsRange.income + FetchTotalsRange.expense
          /\ FetchTotalsRange.income \in Nat /\ FetchTotalsRange.expense \in Nat
      BY <2>1, <2>2, CheckOfRows, AskedInstants, TypesAreParts DEF FetchTotalsRange
    <2>4. RangeBelow /\ CategoriesBelow /\ FlowBelow
      BY <1>4 DEF ReportInv, Below
    <2>5. read["range"].income \in Nat /\ read["range"].expense \in Nat
      BY <1>4 DEF ReportInv, ReadTyped, Sums
    <2>6. read["range"].income + read["range"].expense <= v.debit
      BY <2>3, <2>4, <2>5 DEF RangeBelow
    <2>7. Listed(read["categories"]) <= v.debit
      BY <2>3, <2>4 DEF CategoriesBelow
    <2>8. /\ Spent(read["cashflow"]) \in Nat /\ Spent(read["cashflow"]) <= FetchTotalsRange.expense
          /\ Earned(read["cashflow"]) \in Nat /\ Earned(read["cashflow"]) <= FetchTotalsRange.income
      <3> DEFINE flow == read["cashflow"]
      <3>1. /\ DOMAIN flow = CashflowDays
            /\ \A d \in CashflowDays : /\ flow[d].income \in Nat /\ flow[d].expense \in Nat
                                       /\ flow[d].income <= FetchCashflowRange[d].income
                                       /\ flow[d].expense <= FetchCashflowRange[d].expense
        BY <2>4 DEF FlowBelow
      <3> HIDE DEF flow
      <3>2. /\ Spent(flow) \in Nat /\ Spent(flow) <= FetchTotalsRange.expense
            /\ Earned(flow) \in Nat /\ Earned(flow) <= FetchTotalsRange.income
        BY <2>2, <3>1, CashflowBelow
      <3> QED BY <3>2 DEF flow
    <2>9. Spent(read["cashflow"]) + Earned(read["cashflow"]) <= v.debit
      BY <2>3, <2>8
    <2>10. read'["check"] = v
      BY <1>2, <1>6
    <2> QED BY <1>5, <2>6, <2>7, <2>9, <2>10
  <1>7. CASE s # "check"
    <2>1. "check" \in DOMAIN read /\ read'["check"] = read["check"]
      BY <1>2, <1>3, <1>7
    <2> QED BY <1>4, <1>5, <2>1 DEF ReportInv, CheckAbove
  <1> QED BY <1>6, <1>7

\* and the count after the rows that are listed.
LEMMA StatementKeepsCount ==
  ASSUME BooksInv, ReportInv, NEW s \in DOMAIN After, NEW v, Returns(s, v), Answers(s, v)
  PROVE  CountAbove'
  <1>1. s \notin DOMAIN read
    BY StatementKeepsOrder
  <1>2. /\ DOMAIN read' = DOMAIN read \cup {s} /\ read'[s] = v
        /\ \A t \in DOMAIN read : read'[t] = read[t]
        /\ UNCHANGED <<bookVars, request, overtaken>> /\ step = s
    BY <1>1, ReadExtended
  <1>3. SUFFICES ASSUME overtaken' # "changed", "activity" \in DOMAIN read'
                 PROVE  Cardinality(DOMAIN read'["recent"]) <= read'["activity"].count
    BY DEF CountAbove
  <1>4. overtaken # "changed" /\ "recent" \in DOMAIN read
    <2>1. s = "activity" => DOMAIN read = Before["activity"]
      BY <1>2, OrderFacts DEF ReportInv
    <2> QED BY <1>2, <1>3, <2>1, OrderFacts DEF ReportInv, Before
  <1>5. read'["recent"] = read["recent"]
    BY <1>2, <1>4
  <1>6. CASE s = "activity"
    <2>1. read'["activity"] = FetchMonthActivity
      BY <1>2, <1>6 DEF Answers
    <2>2. RowsAreDrafts /\ Asked \subseteq Live
      BY AskedInstants DEF BooksInv, ReportInv
    <2>3. IsFiniteSet(Asked) /\ FetchMonthActivity.count = Cardinality(Asked)
      BY <2>2, SumOfRows, ActivityRead
    <2>4. DOMAIN read["recent"] \subseteq Asked
      BY <1>4 DEF ReportInv, Below, RecentBelow
    <2>5. Cardinality(DOMAIN read["recent"]) <= Cardinality(Asked)
      BY <2>3, <2>4, FS_Subset
    <2> QED BY <1>5, <2>1, <2>3, <2>5
  <1>7. CASE s # "activity"
    BY <1>2, <1>3, <1>4, <1>5, <1>7 DEF ReportInv, CountAbove
  <1> QED BY <1>6, <1>7

\* A statement keeps the invariant of the report.
LEMMA StatementKeepsReport ==
  ASSUME BooksInv, ReportInv, DashboardStep \/ BusinessStep
  PROVE  ReportInv'
  <1>0. PICK s \in DOMAIN After : \E v : Returns(s, v) /\ Answers(s, v)
    BY StatementAnswers
  <1>1. PICK v : Returns(s, v) /\ Answers(s, v)
    BY <1>0
  <1>2. InOrder' /\ s \notin DOMAIN read /\ step' \in DOMAIN After \cup {"idle", "done"}
    BY <1>1, StatementKeepsOrder
  <1>3. request' = request /\ overtaken' = overtaken
    BY <1>1 DEF Returns
  <1>4. RequestIsRange'
    BY <1>3 DEF ReportInv, RequestIsRange
  <1>5. ReadTyped' /\ AllFresh' /\ Below'
    BY <1>1, StatementKeepsTypes, StatementKeepsFresh, StatementKeepsBelow
  <1>6. CheckAbove' /\ CountAbove'
    BY <1>1, StatementKeepsCheck, StatementKeepsCount
  <1> QED BY <1>2, <1>3, <1>4, <1>5, <1>6 DEF ReportInv

-----------------------------------------------------------------------------
(* The steps of the writer.                                                 *)

\* A sum does not shrink when rows are added.
LEMMA SumGrows ==
  ASSUME RowsAreDrafts, RowsAreDrafts', \A k \in Live : rows'[k] = rows[k],
         NEW S, S \subseteq Live, NEW T, S \subseteq T, T \subseteq Live'
  PROVE  /\ Sum(S) <= SumFunction([k \in T |-> rows'[k].amount])
         /\ SumFunction([k \in T |-> rows'[k].amount]) \in Nat
  <1> DEFINE f == [k \in T |-> rows'[k].amount]
  <1>1. \A k \in Live' : k \in Ids /\ rows'[k].amount \in Nat
    <2> TAKE k \in Live'
    <2>1. PICK b \in Books, d \in Drafts : rows'[k] = Row(b, d)
      BY DEF RowsAreDrafts
    <2>2. rows'[k].amount = d.amount
      BY <2>1 DEF Row
    <2>3. d.amount \in Nat
      BY BooksAssumption
    <2>4. k \in Ids
      BY DEF Live
    <2> QED BY <2>2, <2>3, <2>4
  <1>2. IsFiniteSet(T)
    BY <1>1, FS_Subset, BooksAssumption
  <1>3. \A k \in T : f[k] \in Nat
    BY <1>1
  <1>4. IsFiniteSet(S) /\ Sum(S) = SumFunctionOnSet(Amount, S) /\ \A k \in S : Amount[k] = rows[k].amount
    BY SumOfRows
  <1>5. \A k \in S : Amount[k] = f[k]
    BY <1>4
  <1>6. SumFunction(f) = SumFunctionOnSet(f, T)
    BY DEF SumFunction
  <1> HIDE DEF f
  <1>7. SumFunctionOnSet(Amount, S) = SumFunctionOnSet(f, S)
    BY <1>4, <1>5, SumSame
  <1>8. SumFunctionOnSet(f, S) <= SumFunctionOnSet(f, T) /\ SumFunctionOnSet(f, T) \in Nat
    BY <1>2, <1>3, SumPart, SumNat
  <1> QED BY <1>4, <1>6, <1>7, <1>8 DEF f

\* What a creation leaves as it was.
LEMMA CreateAdds ==
  ASSUME BooksInv, NEW i \in Ids, NEW b \in Books, NEW d \in Drafts, Create(i, b, d)
  PROVE  /\ RowsAreDrafts' /\ Live \subseteq Live' /\ \A k \in Live : rows'[k] = rows[k]
         /\ read' = read /\ request' = request /\ Asked \subseteq Asked'
  <1>1. /\ rows[i].status = "absent" /\ AllocationsPass(b, d)
        /\ rows' = [rows EXCEPT ![i] = Row(b, d)] /\ UNCHANGED reportVars
    BY DEF Create
  <1>2. /\ RowsAreDrafts' /\ Live' = Live \cup {i} /\ \A k \in Ids \ {i} : rows'[k] = rows[k]
    BY <1>1, RowWritten DEF BooksInv
  <1>3. \A k \in Live : rows'[k] = rows[k]
    BY <1>1, <1>2 DEF Live
  <1>4. read' = read /\ request' = request
    BY <1>1 DEF reportVars
  <1>5. Asked \subseteq Asked'
    BY <1>2, <1>3, <1>4 DEF Asked, AskedRange, InRange, Of
  <1> QED BY <1>2, <1>3, <1>4, <1>5

\* A new record lowers neither total of the range,
LEMMA CreateRaisesRange ==
  ASSUME BooksInv, NEW i \in Ids, NEW b \in Books, NEW d \in Drafts, Create(i, b, d)
  PROVE  /\ FetchTotalsRange.income <= FetchTotalsRange'.income
         /\ FetchTotalsRange.expense <= FetchTotalsRange'.expense
         /\ FetchTotalsRange.income \in Nat /\ FetchTotalsRange.expense \in Nat
         /\ FetchTotalsRange'.income \in Nat /\ FetchTotalsRange'.expense \in Nat
  <1> DEFINE S(type) == Typed(Asked, type)
             T(type) == {k \in Asked' : rows'[k].type = type}
             Later(type) == SumFunction([k \in T(type) |-> rows'[k].amount])
  <1>1. /\ RowsAreDrafts /\ RowsAreDrafts' /\ Live \subseteq Live'
        /\ \A k \in Live : rows'[k] = rows[k]
        /\ Asked \subseteq Asked' /\ Asked \subseteq Live /\ Asked' \subseteq Live'
    BY CreateAdds, RowsOf DEF BooksInv, Asked, InRange, Of
  <1>2. ASSUME NEW type PROVE Sum(S(type)) <= Later(type) /\ Later(type) \in Nat
    <2>1. S(type) \subseteq Live /\ S(type) \subseteq T(type) /\ T(type) \subseteq Live'
      BY <1>1 DEF Typed
    <2> HIDE DEF S, T
    <2> QED BY <1>1, <2>1, SumGrows
  <1>3. /\ FetchTotalsRange'.income = Later("INCOME")
        /\ FetchTotalsRange'.expense = Later("EXPENSE")
    BY DEF FetchTotalsRange, Totals, Sum, Typed
  <1>4. /\ FetchTotalsRange.income = Sum(S("INCOME")) /\ FetchTotalsRange.income \in Nat
        /\ FetchTotalsRange.expense = Sum(S("EXPENSE")) /\ FetchTotalsRange.expense \in Nat
    BY <1>1, TypesAreParts DEF FetchTotalsRange
  <1> HIDE DEF S, Later
  <1> QED BY <1>2, <1>3, <1>4

\* nor what any day of the cashflow shows.
LEMMA CreateRaisesCashflow ==
  ASSUME BooksInv, NEW i \in Ids, NEW b \in Books, NEW d \in Drafts, Create(i, b, d)
  PROVE  /\ CashflowDays' = CashflowDays
         /\ \A day \in CashflowDays :
              /\ FetchCashflowRange[day].income <= FetchCashflowRange'[day].income
              /\ FetchCashflowRange[day].expense <= FetchCashflowRange'[day].expense
              /\ FetchCashflowRange'[day].income \in Nat /\ FetchCashflowRange'[day].expense \in Nat
  <1> DEFINE range == NanoRange(Min(CashflowDays), request.to)
             found == {k \in {k \in Live' : rows'[k].book = Personal} : Within(rows'[k].at, range)}
             T(day, type) == {k \in {k \in found : DayOf(rows'[k].at) = day} : rows'[k].type = type}
             Later(day, type) == SumFunction([k \in T(day, type) |-> rows'[k].amount])
  <1>1. /\ RowsAreDrafts /\ RowsAreDrafts' /\ Live \subseteq Live'
        /\ \A k \in Live : rows'[k] = rows[k]
        /\ request' = request
    BY CreateAdds DEF BooksInv
  <1>2. CashflowDays' = CashflowDays
    BY <1>1 DEF CashflowDays
  <1>3. FetchCashflowRange' =
          [day \in CashflowDays |->
             [income |-> Later(day, "INCOME"), expense |-> Later(day, "EXPENSE")]]
    BY <1>1, <1>2 DEF FetchCashflowRange, Totals, Sum, Typed, InRange, Of
  <1>4. ASSUME NEW day, NEW type
        PROVE  Sum(Typed(DayRows(day), type)) <= Later(day, type) /\ Later(day, type) \in Nat
    <2>1. /\ Typed(DayRows(day), type) \subseteq Live
          /\ Typed(DayRows(day), type) \subseteq T(day, type)
          /\ T(day, type) \subseteq Live'
      BY <1>1 DEF Typed, DayRows, CashflowRows, InRange, Of
    <2> HIDE DEF T
    <2> QED BY <1>1, <2>1, SumGrows
  <1>5. \A day \in CashflowDays :
          /\ FetchCashflowRange[day].income = Sum(Typed(DayRows(day), "INCOME"))
          /\ FetchCashflowRange[day].expense = Sum(Typed(DayRows(day), "EXPENSE"))
    BY CashflowReturned DEF DaySums
  <1> HIDE DEF T, Later
  <1>6. \A day \in CashflowDays :
          /\ FetchCashflowRange'[day].income = Later(day, "INCOME")
          /\ FetchCashflowRange'[day].expense = Later(day, "EXPENSE")
    BY <1>3
  <1> QED BY <1>2, <1>4, <1>5, <1>6

\* What a new row leaves above what was read before it.
LEMMA CreateKeepsBelow ==
  ASSUME BooksInv, ReportInv, NEW i \in Ids, NEW b \in Books, NEW d \in Drafts, Create(i, b, d),
         overtaken # "changed"
  PROVE  Below'
  <1>1. /\ read' = read /\ request' = request /\ Asked \subseteq Asked'
        /\ Asked \subseteq Live /\ \A k \in Live : rows'[k] = rows[k]
    BY CreateAdds, RowsOf DEF Asked
  <1>2. /\ "range" \in DOMAIN read => RangeBelow
        /\ "categories" \in DOMAIN read => CategoriesBelow
        /\ "cashflow" \in DOMAIN read => FlowBelow
        /\ "recent" \in DOMAIN read => RecentBelow
        /\ "allocations" \in DOMAIN read => read["allocations"] = FetchAllocations
    BY DEF ReportInv, Below
  <1>3. /\ FetchTotalsRange.income <= FetchTotalsRange'.income
        /\ FetchTotalsRange.expense <= FetchTotalsRange'.expense
        /\ FetchTotalsRange.income \in Nat /\ FetchTotalsRange.expense \in Nat
        /\ FetchTotalsRange'.income \in Nat /\ FetchTotalsRange'.expense \in Nat
    BY CreateRaisesRange
  <1>4. ASSUME "range" \in DOMAIN read PROVE RangeBelow'
    <2>1. read["range"].income \in Nat /\ read["range"].expense \in Nat
      BY <1>4 DEF ReportInv, ReadTyped, Sums
    <2> QED BY <1>1, <1>2, <1>3, <1>4, <2>1 DEF RangeBelow
  <1>5. ASSUME "categories" \in DOMAIN read PROVE CategoriesBelow'
    BY <1>1, <1>2, <1>3, <1>5 DEF CategoriesBelow
  <1>6. ASSUME "cashflow" \in DOMAIN read PROVE FlowBelow'
    <2>1. RowsAreDrafts /\ RequestIsRange /\ request.book = Personal
      BY <1>6, OrderFacts, Statements DEF BooksInv, ReportInv
    <2>2. /\ CashflowDays' = CashflowDays
          /\ \A day \in CashflowDays :
               /\ FetchCashflowRange[day].income <= FetchCashflowRange'[day].income
               /\ FetchCashflowRange[day].expense <= FetchCashflowRange'[day].expense
               /\ FetchCashflowRange'[day].income \in Nat /\ FetchCashflowRange'[day].expense \in Nat
      BY CreateRaisesCashflow
    <2>3. \A day \in CashflowDays : /\ FetchCashflowRange[day].income \in Nat
                                    /\ FetchCashflowRange[day].expense \in Nat
      BY <2>1, CashflowOfType, CashflowReturned
    <2> QED BY <1>1, <1>2, <1>6, <2>2, <2>3 DEF FlowBelow
  <1>7. ASSUME "recent" \in DOMAIN read PROVE RecentBelow'
    <2>1. DOMAIN read["recent"] \subseteq Asked /\ read["recent"] = Shown(DOMAIN read["recent"])
      BY <1>2, <1>7 DEF RecentBelow
    <2>2. Shown(DOMAIN read["recent"])' = Shown(DOMAIN read["recent"])
      BY <1>1, <2>1 DEF Shown
    <2> QED BY <1>1, <2>1, <2>2 DEF RecentBelow
  <1>8. ASSUME "allocations" \in DOMAIN read PROVE read["allocations"] = FetchAllocations'
    <2>1. DOMAIN read["recent"] \subseteq Live
      BY <1>1, <1>2, <1>8, OrderFacts DEF RecentBelow, ReportInv
    <2>2. FetchAllocations' = FetchAllocations
      BY <1>1, <2>1 DEF FetchAllocations
    <2> QED BY <1>2, <1>8, <2>2
  <1> QED BY <1>1, <1>4, <1>5, <1>6, <1>7, <1>8 DEF Below

\* A write keeps the invariant: a new record adds, another one marks the report as changed.
LEMMA WriteKeepsReport ==
  ASSUME BooksInv, ReportInv, WriterStep
  PROVE  ReportInv'
  <1> DEFINE Overtakes ==
               /\ UNCHANGED reportVars
               /\ \/ overtaken' = overtaken /\ step = "idle"
                  \/ overtaken' = overtaken /\ overtaken = "changed"
                  \/ overtaken' = "changed"
                  \/ /\ overtaken' = "added" /\ overtaken # "changed"
                     /\ \E i \in Ids, b \in Books, d \in Drafts : Create(i, b, d)
  <1>1. Overtakes
    <2>1. ASSUME NEW i \in Ids, NEW b \in Books, NEW d \in Drafts, Create(i, b, d) PROVE Overtakes
      BY <2>1 DEF Create, Writes
    <2>2. ASSUME NEW i \in Ids, NEW d \in Drafts, Edit(i, d) PROVE Overtakes
      BY <2>2 DEF Edit, Writes
    <2>3. ASSUME NEW i \in Ids, Remove(i) PROVE Overtakes
      BY <2>3 DEF Remove, Writes
    <2>4. ASSUME NEW p \in Projects, Archive(p) PROVE Overtakes
      BY <2>4 DEF Archive, Writes
    <2> QED BY <2>1, <2>2, <2>3, <2>4, WriterCases
  <1>2. read' = read /\ step' = step /\ request' = request
    BY <1>1 DEF reportVars
  <1>3. /\ RequestIsRange' /\ InOrder' /\ ReadTyped'
        /\ step' \in DOMAIN After \cup {"idle", "done"} /\ overtaken' \in {"none", "added", "changed"}
    BY <1>1, <1>2 DEF ReportInv, RequestIsRange, InOrder, ReadTyped
  <1>4. step = "idle" => DOMAIN read = {}
    BY Statements DEF ReportInv, InOrder
  <1>5. AllFresh'
    BY <1>1, <1>2, <1>4 DEF AllFresh
  <1>6. CheckAbove' /\ CountAbove'
    <2>1. overtaken' # "changed" => overtaken # "changed" \/ DOMAIN read = {}
      BY <1>1, <1>4
    <2> QED BY <1>2, <2>1 DEF ReportInv, CheckAbove, CountAbove
  <1>7. Below'
    <2>1. CASE overtaken' = "changed" \/ DOMAIN read = {}
      BY <1>2, <2>1 DEF Below
    <2>2. CASE overtaken # "changed" /\ \E i \in Ids, b \in Books, d \in Drafts : Create(i, b, d)
      BY <2>2, CreateKeepsBelow
    <2> QED BY <1>1, <1>4, <2>1, <2>2
  <1> QED BY <1>3, <1>5, <1>6, <1>7 DEF ReportInv

-----------------------------------------------------------------------------
(* A report begins, or ends without an answer.                              *)

\* The presets are ranges of days.
LEMMA PresetsAreRanges ==
  ASSUME NEW p \in Presets
  PROVE  /\ PresetRange(p)[1] \in Int /\ PresetRange(p)[2] \in Int
         /\ PresetRange(p)[1] <= PresetRange(p)[2]
         /\ p = "this_month" => PresetRange(p)[1] = MonthStart(Today) /\ PresetRange(p)[2] = Today
  <1>1. /\ Today \in Nat /\ MonthDays \in Nat \ {0} /\ WeekDays \in Nat \ {0} /\ LongSpan \in Nat \ {0}
        /\ 3 * MonthDays \in Nat \ {0} /\ 12 * MonthDays \in Nat \ {0}
    BY CalendarAssumption
  <1>2. /\ MonthStart(Today) \in Int /\ MonthStart(Today) <= Today
        /\ WeekStart(Today) \in Int /\ WeekStart(Today) <= Today
        /\ QuarterStart(Today) \in Int /\ QuarterStart(Today) <= Today
        /\ YearStart(Today) \in Int /\ YearStart(Today) <= Today
    <2>1. ASSUME NEW m \in Nat \ {0} PROVE Today - (Today % m) \in Int /\ Today - (Today % m) <= Today
      <3>1. Today \in Int /\ Today % m \in 0 .. m - 1
        BY <1>1, Divides
      <3> QED BY <3>1
    <2> QED BY <1>1, <2>1 DEF MonthStart, WeekStart, QuarterStart, YearStart
  <1>3. CASE p = "today"
    BY <1>1, <1>3 DEF PresetRange
  <1>4. CASE p = "yesterday"
    BY <1>1, <1>4 DEF PresetRange
  <1>5. CASE p = "last_7_days"
    BY <1>1, <1>5 DEF PresetRange
  <1>6. CASE p = "last_30_days"
    BY <1>1, <1>6 DEF PresetRange
  <1>7. CASE p = "this_week"
    BY <1>1, <1>2, <1>7 DEF PresetRange
  <1>8. CASE p = "this_month"
    BY <1>1, <1>2, <1>8 DEF PresetRange
  <1>9. CASE p = "last_month"
    BY <1>1, <1>2, <1>9 DEF PresetRange
  <1>10. CASE p = "this_quarter"
    BY <1>1, <1>2, <1>10 DEF PresetRange
  <1>11. CASE p = "this_year"
    BY <1>1, <1>2, <1>11 DEF PresetRange
  <1>12. p \in {"today", "yesterday", "last_7_days", "last_30_days", "this_week",
                "this_month", "last_month", "this_quarter", "this_year"}
    BY CalendarAssumption
  <1> QED BY <1>3, <1>4, <1>5, <1>6, <1>7, <1>8, <1>9, <1>10, <1>11, <1>12

\* Nothing was read yet.
LEMMA NothingRead ==
  ASSUME read' = <<>>
  PROVE  DOMAIN read' = {} /\ ReadTyped' /\ AllFresh' /\ Below' /\ CheckAbove' /\ CountAbove'
  <1>1. DOMAIN read' = {}
    OBVIOUS
  <1> QED BY <1>1 DEF ReadTyped, AllFresh, Below, CheckAbove, CountAbove

\* A report that begins has read nothing.
LEMMA BeginKeepsReport ==
  ASSUME NEW book \in Books, NEW preset, NEW from \in Int, NEW to \in Int, from <= to,
         Begin(book, preset, from, to),
         preset = "this_month" => from = MonthStart(Today) /\ to = Today
  PROVE  ReportInv'
  <1> DEFINE r == [book |-> book, preset |-> preset, from |-> from, to |-> to]
  <1>1. /\ request' = r /\ read' = <<>> /\ overtaken' = "none"
        /\ step' = IF r.book = Personal THEN "totals" ELSE "rows"
    BY DEF Begin
  <1>2. RequestIsRange'
    BY <1>1 DEF RequestIsRange
  <1>3. DOMAIN read' = {} /\ ReadTyped' /\ AllFresh' /\ Below' /\ CheckAbove' /\ CountAbove'
    BY <1>1, NothingRead
  <1>4. InOrder' /\ step' \in DOMAIN After \cup {"idle", "done"}
    <2>1. CASE r.book = Personal
      <3>1. step' = "totals" /\ request'.book = Personal
        BY <1>1, <2>1
      <3>2. step' \in PersonalParts /\ step' \notin BusinessParts /\ step' \in DOMAIN After
            /\ Before[step'] = {}
        BY <3>1, Statements DEF Before
      <3> QED BY <1>3, <3>1, <3>2 DEF InOrder
    <2>2. CASE r.book # Personal
      <3>1. step' = "rows" /\ request'.book # Personal
        BY <1>1, <2>2
      <3>2. step' \in BusinessParts /\ step' \notin PersonalParts /\ step' \in DOMAIN After
            /\ Before[step'] = {}
        BY <3>1, Statements DEF Before
      <3> QED BY <1>3, <3>1, <3>2 DEF InOrder
    <2> QED BY <2>1, <2>2
  <1> QED BY <1>1, <1>2, <1>3, <1>4 DEF ReportInv

\* A preset and a range of one's own both ask for days in order.
LEMMA AskKeepsReport ==
  ASSUME Ask
  PROVE  ReportInv'
  <1>1. ASSUME NEW book \in Books, NEW p \in Presets, AskPreset(book, p) PROVE ReportInv'
    <2> DEFINE from == PresetRange(p)[1]
               to == PresetRange(p)[2]
    <2>1. Begin(book, p, from, to)
      BY <1>1 DEF AskPreset
    <2>2. /\ from \in Int /\ to \in Int /\ from <= to
          /\ p = "this_month" => from = MonthStart(Today) /\ to = Today
      BY PresetsAreRanges
    <2> HIDE DEF from, to
    <2> QED BY <2>1, <2>2, BeginKeepsReport
  <1>2. ASSUME NEW book \in Books, NEW range \in CustomRanges, AskCustom(book, range) PROVE ReportInv'
    <2> DEFINE from == range[1]
               to == range[2]
    <2>1. Begin(book, "custom", from, to) /\ from <= to
      BY <1>2 DEF AskCustom
    <2>2. from \in Int /\ to \in Int
      BY CalendarAssumption
    <2> HIDE DEF from, to
    <2> QED BY <2>1, <2>2, BeginKeepsReport
  <1> QED BY <1>1, <1>2 DEF Ask

\* The request of an idle reader is for one day.
LEMMA NobodyAsks ==
  /\ Nobody.book \in Books /\ Nobody.from = 0 /\ Nobody.to = 0 /\ Nobody.preset # "this_month"
  BY DEF Nobody, Books

\* A failed statement drops the report as a whole.
LEMMA FailKeepsReport ==
  ASSUME ReportFails
  PROVE  ReportInv'
  <1>1. request' = Nobody /\ read' = <<>> /\ overtaken' = "none" /\ step' = "idle"
    BY DEF ReportFails
  <1>2. RequestIsRange'
    BY <1>1, NobodyAsks DEF RequestIsRange
  <1>3. DOMAIN read' = {} /\ ReadTyped' /\ AllFresh' /\ Below' /\ CheckAbove' /\ CountAbove'
    BY <1>1, NothingRead
  <1>4. InOrder'
    BY <1>1, <1>3, Statements DEF InOrder
  <1> QED BY <1>1, <1>2, <1>3, <1>4 DEF ReportInv

\* Nobody has asked yet.
LEMMA InitReport ==
  ASSUME Init
  PROVE  ReportInv
  <1>1. request = Nobody /\ DOMAIN read = {} /\ overtaken = "none" /\ step = "idle"
    BY DEF Init
  <1>2. RequestIsRange
    BY <1>1, NobodyAsks DEF RequestIsRange
  <1>3. InOrder
    BY <1>1, Statements DEF InOrder
  <1>4. ReadTyped /\ AllFresh /\ Below /\ CheckAbove /\ CountAbove
    BY <1>1 DEF ReadTyped, AllFresh, Below, CheckAbove, CountAbove
  <1> QED BY <1>1, <1>2, <1>3, <1>4 DEF ReportInv

\* Nothing moves.
LEMMA StutterKeepsReport ==
  ASSUME ReportInv, UNCHANGED vars
  PROVE  ReportInv'
  <1>1. /\ UNCHANGED <<rows, journal, archived, request>> /\ read' = read /\ step' = step
        /\ overtaken' = overtaken
    BY DEF vars, bookVars, reportVars
  <1>2. FetchAllocations' = FetchAllocations
    BY <1>1 DEF FetchAllocations
  <1>3. RequestIsRange' /\ InOrder' /\ ReadTyped'
    BY <1>1 DEF ReportInv, RequestIsRange, InOrder, ReadTyped
  <1>4. ASSUME NEW s \in DOMAIN After, NEW v, Answers(s, v) PROVE Answers(s, v)'
    BY <1>1, <1>2, <1>4, SameAnswers, Statements DEF Answers
  <1>5. AllFresh'
    <2>1. \A s \in DOMAIN read : s \in DOMAIN After
      BY OrderFacts DEF ReportInv
    <2> QED BY <1>1, <1>4, <2>1 DEF ReportInv, AllFresh, Fresh
  <1>6. Below'
    BY <1>1, <1>2, SameAnswers
       DEF ReportInv, Below, RangeBelow, CategoriesBelow, FlowBelow, RecentBelow
  <1>7. CheckAbove' /\ CountAbove'
    BY <1>1 DEF ReportInv, CheckAbove, CountAbove
  <1> QED BY <1>1, <1>3, <1>5, <1>6, <1>7 DEF ReportInv

\* Books and report satisfy their invariants in every state.
LEMMA ReportInvariance == Spec => [](BooksInv /\ ReportInv)
  <1>1. Init => BooksInv /\ ReportInv
    BY InitBooks, InitReport
  <1>2. BooksInv /\ ReportInv /\ [Next]_vars => (BooksInv /\ ReportInv)'
    <2> SUFFICES ASSUME BooksInv, ReportInv, [Next]_vars PROVE BooksInv' /\ ReportInv'
      OBVIOUS
    <2>1. BooksInv'
      BY NextBooks
    <2>2. CASE WriterStep
      BY <2>1, <2>2, WriteKeepsReport
    <2>3. CASE Ask
      BY <2>1, <2>3, AskKeepsReport
    <2>4. CASE DashboardStep \/ BusinessStep
      BY <2>1, <2>4, StatementKeepsReport
    <2>5. CASE ReportFails
      BY <2>1, <2>5, FailKeepsReport
    <2>6. CASE UNCHANGED vars
      BY <2>1, <2>6, StutterKeepsReport
    <2> QED BY <2>2, <2>3, <2>4, <2>5, <2>6 DEF Next
  <1> QED BY <1>1, <1>2, PTL DEF Spec

-----------------------------------------------------------------------------
(* The theorems.                                                            *)

\* Every variable has its type, whatever is written and read: a live row has one posted
\* entry and the others none.
THEOREM Types == Spec => []TypeOK
  <1>1. BooksInv /\ ReportInv => TypeOK
    <2> SUFFICES ASSUME BooksInv, ReportInv PROVE TypeOK
      OBVIOUS
    <2>1. \A i \in Ids : rows[i].status \in {"absent", "live", "deleted"}
      BY DEF BooksInv, RowsAreDrafts
    <2>2. \A i \in Ids : Cardinality({e \in journal : e.id = i /\ e.status = "POSTED"})
                           = IF i \in Live THEN 1 ELSE 0
      BY FS_EmptySet, FS_Singleton DEF BooksInv, JournalIsOfRows, PostedOf
    <2>3. /\ archived \subseteq Projects /\ writes \in 0 .. MaxWrites
          /\ request.book \in Books /\ request.from <= request.to
          /\ step \in DOMAIN After \cup {"idle", "done"}
          /\ overtaken \in {"none", "added", "changed"}
      BY DEF BooksInv, ReportInv, RequestIsRange
    <2>4. DOMAIN read \subseteq DOMAIN After
      BY OrderFacts DEF ReportInv
    <2>5. \A s \in DOMAIN read \cap {"totals", "today", "range", "rows"} : read[s] \in Sums
      BY DEF ReportInv, ReadTyped
    <2> QED BY <2>1, <2>2, <2>3, <2>4, <2>5 DEF TypeOK
  <1> QED BY <1>1, ReportInvariance, PTL

\* Dashboard, BusinessDashboard: a report that no write overtook is of one piece.  Each
\* of its statements returned what it would return now, so that what they filter, group
\* and cut are the same rows, and the sums over them are parts of one another.
THEOREM OnePiece == Spec => []PartsAgree
  <1>1. BooksInv /\ ReportInv => PartsAgree
    <2> SUFFICES ASSUME BooksInv, ReportInv, overtaken = "none"
                 PROVE  /\ IsReport("activity") => PersonalPartsAgree
                        /\ IsReport("goods") => BusinessPartsAgree
      BY DEF PartsAgree
    <2>1. RowsAreDrafts /\ JournalIsOfRows /\ RequestIsRange /\ \A s \in DOMAIN read : Fresh(s)
      BY DEF BooksInv, ReportInv, AllFresh
    <2>2. ASSUME IsReport("activity") PROVE PersonalPartsAgree
      <3>1. DOMAIN read = PersonalParts /\ request.book = Personal
        BY <2>2, OrderFacts, Statements DEF IsReport, ReportInv
      <3> QED BY <2>1, <3>1, PersonalReport
    <2>3. ASSUME IsReport("goods") PROVE BusinessPartsAgree
      <3>1. DOMAIN read = BusinessParts
        BY <2>3, OrderFacts DEF IsReport, ReportInv
      <3>2. Fresh("rows") /\ Fresh("goods")
        BY <2>1, <3>1, Statements
      <3> QED BY <2>1, <3>2, BusinessReport
    <2> QED BY <2>2, <2>3
  <1> QED BY <1>1, ReportInvariance, PTL

\* DashboardWithRange: while only new rows are recorded, what was read before the check
\* of the journal shows no more than it, and what was listed no more than what is counted
\* last.
THEOREM NoLess == Spec => []PartsGrow
  <1>1. BooksInv /\ ReportInv => PartsGrow
    <2> SUFFICES ASSUME BooksInv, ReportInv, overtaken \in {"none", "added"}, IsReport("activity")
                 PROVE  LET range == read["range"]
                            flow == read["cashflow"] IN
                        /\ range.income + range.expense <= read["check"].debit
                        /\ DOMAIN flow = request.from .. request.to =>
                             Spent(flow) + Earned(flow) <= read["check"].debit
                        /\ Listed(read["categories"]) <= read["check"].debit
                        /\ SharesFit
                        /\ Cardinality(DOMAIN read["recent"]) <= read["activity"].count
      BY DEF PartsGrow
    <2>1. DOMAIN read = PersonalParts /\ overtaken # "changed"
      BY OrderFacts DEF IsReport, ReportInv
    <2>2. {"check", "activity", "recent", "allocations"} \subseteq DOMAIN read
      BY <2>1, Statements
    <2>3. /\ read["range"].income + read["range"].expense <= read["check"].debit
          /\ DOMAIN read["cashflow"] = request.from .. request.to =>
               Spent(read["cashflow"]) + Earned(read["cashflow"]) <= read["check"].debit
          /\ Listed(read["categories"]) <= read["check"].debit
      BY <2>1, <2>2 DEF ReportInv, CheckAbove
    <2>4. Cardinality(DOMAIN read["recent"]) <= read["activity"].count
      BY <2>1, <2>2 DEF ReportInv, CountAbove
    <2>5. ASSUME NEW i \in DOMAIN read["recent"]
          PROVE  2 * read["allocations"][i] <= 2 * read["recent"][i].amount + Slack(rows[i].alloc)
      <3>1. RecentBelow /\ read["allocations"] = FetchAllocations
        BY <2>1, <2>2 DEF ReportInv, Below
      <3>2. i \in Live
        BY <3>1, AskedInstants DEF RecentBelow, ReportInv
      <3>3. read["recent"][i].amount = rows[i].amount
        BY <3>1 DEF RecentBelow, Shown
      <3>4. read["allocations"][i] = Allocated(rows[i].alloc)
        BY <3>1 DEF FetchAllocations
      <3> QED BY <3>2, <3>3, <3>4, LiveRow DEF BooksInv, Fits
    <2>6. SharesFit
      BY <2>5 DEF SharesFit
    <2> QED BY <2>3, <2>4, <2>6
  <1> QED BY <1>1, ReportInvariance, PTL

==============================================================================
