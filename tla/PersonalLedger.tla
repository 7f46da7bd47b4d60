--------------------------- MODULE PersonalLedger ---------------------------
(***************************************************************************)
(* The write side of the accounting ledger (go-core/internal/ledger) for   *)
(* one namespace.  Every operation is a PostgreSQL transaction at READ     *)
(* COMMITTED, run by a session (a queue worker or a LIFF request), one     *)
(* action per group of statements that reads, or waits on, what other      *)
(* sessions write.  Uncommitted writes sit in the session's draft and      *)
(* become visible at commit.  What the tables hold is in whole satang, the *)
(* grain of the NUMERIC(12,2) columns.  A request carries floats: its      *)
(* amount is given by the satang it is stored as, the amounts of its lines *)
(* by their tenths of a satang.                                            *)
(***************************************************************************)
EXTENDS Naturals, FiniteSets, FiniteSetsExt

CONSTANTS
  Sessions,      \* concurrent callers of the ledger writer
  Messages,      \* causation ids: LINE message ids
  NoCause,       \* an empty CausationID, stored as NULL
  TxIds,         \* ids of transactions rows
  NoTx,
  Uuids,         \* uuid.NewString() values for the journals of edits
  Projects,      \* ids of projects rows
  Amounts,       \* amounts a request may carry, in satang
  AllocInputs,   \* allocation lists a request may carry, in tenths of a satang
  Free,          \* the owner of a lock nobody holds
  MaxEvents,     \* bound on ids drawn from the ledger_events sequence
  MaxMutations   \* bound on the statements that change one projects row

ASSUME SessionsAssumption == Free \notin Sessions
ASSUME CausesAssumption ==
  NoCause \notin Messages /\ (Messages \cup {NoCause}) \cap Uuids = {}
ASSUME TxIdsAssumption == NoTx \notin TxIds
ASSUME AmountsAssumption == Amounts \subseteq Nat
ASSUME AllocInputsAssumption ==
  /\ IsFiniteSet(Projects)
  /\ \A as \in AllocInputs :
       /\ IsFiniteSet(DOMAIN as)
       /\ \A i \in DOMAIN as : as[i].project \in Projects /\ as[i].amount \in Nat
ASSUME BoundAssumption == MaxEvents \in Nat /\ MaxMutations \in Nat

VARIABLES
  rows,          \* transactions: the committed row of each id
  journals,      \* journal_entries, each with its pair of journal_lines
  allocs,        \* transaction_project_allocations: satang per project
  events,        \* ledger_events of the types tx.*
  nextEvent,     \* the BIGSERIAL sequence of ledger_events, never rolled back
  projects,      \* projects: "absent", "live" or "deleted"
  mutations,     \* how many statements have changed each projects row
  projectLog,    \* how many project.* events ledger_events holds per project
  rowLock,       \* who holds the row lock of each transactions row
  cashLock,      \* who holds the row lock of the namespace's cash account
  pc,            \* per session: the statement it runs next
  req,           \* per session: the request it serves
  draft,         \* per session: its uncommitted writes
  owes,          \* per session: the projects rows it changed without an event yet
  acked          \* [cause, tx] pairs a create call returned without error

ledger == <<rows, journals, allocs, events>>
projectVars == <<projects, mutations, projectLog, owes>>
locks == <<rowLock, cashLock>>
vars == <<ledger, nextEvent, projectVars, locks, pc, req, draft, acked>>

Types == {"INCOME", "EXPENSE"}
RequestTypes == Types \cup {"TRANSFER"}
Causes == Messages \cup {NoCause} \cup Uuids

NoRow == [status |-> "absent", type |-> "none", amount |-> 0]
NoAllocs == [p \in Projects |-> 0]
NoDraft == [tx |-> NoTx, row |-> NoRow, journals |-> {}, allocs |-> NoAllocs,
            events |-> {}]
NoReq == [kind |-> "none", cause |-> NoCause, tx |-> NoTx, type |-> "none",
          amount |-> 0, allocs |-> <<>>]

Init ==
  /\ rows = [t \in TxIds |-> NoRow]
  /\ journals = {}
  /\ allocs = [t \in TxIds |-> NoAllocs]
  /\ events = {}
  /\ nextEvent = 1
  /\ projects = [p \in Projects |-> "absent"]
  /\ mutations = [p \in Projects |-> 0]
  /\ projectLog = [p \in Projects |-> 0]
  /\ rowLock = [t \in TxIds |-> Free]
  /\ cashLock = Free
  /\ pc = [s \in Sessions |-> "idle"]
  /\ req = [s \in Sessions |-> NoReq]
  /\ draft = [s \in Sessions |-> NoDraft]
  /\ owes = [s \in Sessions |-> {}]
  /\ acked = {}

-----------------------------------------------------------------------------
(* What the statements see and write.                                       *)

SameEntry(j, k) == j.tx = k.tx /\ j.cause = k.cause

\* Committed entries under the session's own versions of them.
Overlay(base, over) == {j \in base : \A k \in over : ~ SameEntry(j, k)} \cup over

\* A float of x tenths in a NUMERIC(12,2) column, half a satang rounded up.
Rounded(x) == (x + 5) \div 10

\* The floats, in tenths, that the column stores as n satang.
StoredAs(n) == (IF n = 0 THEN 0 ELSE 10 * n - 5) .. 10 * n + 4

\* Lines with an amount that is not positive are skipped everywhere.
EffectiveLines(as) == {i \in DOMAIN as : as[i].amount > 0}

AllocatedSum(as) == SumFunction([i \in EffectiveLines(as) |-> as[i].amount])

DuplicateProject(as) ==
  \E i, k \in EffectiveLines(as) : i # k /\ as[i].project = as[k].project

\* Mutant: the total is not checked.
PassWithoutTotal(as, amount) ==
  /\ ~ DuplicateProject(as)
  /\ \A i \in EffectiveLines(as) : projects[as[i].project] = "live"

\* `sum - txAmount > 0.01` compares floats, so an excess of exactly one satang
\* may go either way.
AllocationsPass(as, amount) ==
  /\ ~ DuplicateProject(as)
  /\ \A i \in EffectiveLines(as) : projects[as[i].project] = "live"
  /\ \E x \in StoredAs(amount) : AllocatedSum(as) <= x + 10

AllocationsFail(as, amount) ==
  \/ DuplicateProject(as)
  \/ \E i \in EffectiveLines(as) : projects[as[i].project] # "live"
  \/ \E x \in StoredAs(amount) : AllocatedSum(as) >= x + 10

\* Each line is rounded on its own, after their floats were summed and tested.
AllocationRows(as) ==
  [p \in Projects |->
     LET lines == {i \in EffectiveLines(as) : as[i].project = p}
     IN  IF lines = {} THEN 0 ELSE Rounded(as[CHOOSE i \in lines : TRUE].amount)]

\* The committed tx.recorded events of a cause, as both duplicate lookups and
\* the unique index ledger_events_ns_cause_tx_uniq read them.
RecordedAs(c) == {e \in events : c # NoCause /\ e.kind = "tx.recorded" /\ e.cause = c}

\* Mutant: journal_entries has no unique index.
CauseNeverTaken(c) == FALSE

\* The unique index journal_entries_ns_cause_uniq already holds the cause.
JournalCauseTaken(c) == c # NoCause /\ \E j \in journals : j.cause = c

UnusedTx(t) == rows[t].status = "absent" /\ \A s \in Sessions : draft[s].tx # t

UnusedUuid(u) ==
  /\ \A j \in journals : j.cause # u
  /\ \A s \in Sessions : req[s].cause # u

Goto(s, label) == pc' = [pc EXCEPT ![s] = label]

\* Mutant: a connection goes back to the pool with its transaction open.
EndWithoutRelease(s) ==
  /\ Goto(s, "idle")
  /\ req' = [req EXCEPT ![s] = NoReq]
  /\ draft' = [draft EXCEPT ![s] = NoDraft]
  /\ UNCHANGED locks

EndSession(s) ==
  /\ Goto(s, "idle")
  /\ req' = [req EXCEPT ![s] = NoReq]
  /\ draft' = [draft EXCEPT ![s] = NoDraft]
  /\ rowLock' = [t \in TxIds |-> IF rowLock[t] = s THEN Free ELSE rowLock[t]]
  /\ cashLock' = IF cashLock = s THEN Free ELSE cashLock

\* The deferred tx.Rollback, and an error returned to the caller.
Rollback(s) ==
  /\ EndSession(s)
  /\ UNCHANGED <<ledger, nextEvent, projectVars, acked>>

\* Keeps the sequence below MaxEvents whatever the running sessions do.
EventBudget ==
  nextEvent + Cardinality({s \in Sessions : pc[s] # "idle"}) <= MaxEvents

Begin(s, label, r) ==
  /\ pc[s] = "idle"
  /\ Goto(s, label)
  /\ req' = [req EXCEPT ![s] = r]
  /\ UNCHANGED <<ledger, nextEvent, projectVars, locks, draft, acked>>

-----------------------------------------------------------------------------
(* CreatePersonalTransaction and CreateBusinessTransaction.                 *)

\* Keeps an id of TxIds in reserve for every running create.
TxBudget ==
  Cardinality({t \in TxIds : rows[t].status = "absent"}) >
    Cardinality({s \in Sessions : req[s].kind = "create"})

\* A business write has no causation id and no lookup; neither has a personal
\* write whose CausationID is empty.
BeginCreate(s) ==
  /\ EventBudget /\ TxBudget
  /\ \E c \in Messages \cup {NoCause}, ty \in RequestTypes, a \in Amounts, as \in AllocInputs :
       Begin(s, IF c = NoCause THEN "insert" ELSE "lookup",
             [kind |-> "create", cause |-> c, tx |-> NoTx, type |-> ty, amount |-> a,
              allocs |-> as])

\* SELECT payload FROM ledger_events: a recorded cause returns its id.
LookupCause(s) ==
  LET c == req[s].cause IN
  /\ pc[s] = "lookup"
  /\ IF RecordedAs(c) = {}
     THEN /\ Goto(s, "insert")
          /\ UNCHANGED <<locks, req, draft, acked>>
     ELSE /\ \E e \in RecordedAs(c) :
               /\ \A f \in RecordedAs(c) : e.id <= f.id
               /\ acked' = acked \cup {[cause |-> c, tx |-> e.tx]}
          /\ EndSession(s)
  /\ UNCHANGED <<ledger, nextEvent, projectVars>>

InsertRow(s) ==
  /\ pc[s] = "insert"
  /\ \E t \in TxIds :
       /\ UnusedTx(t)
       /\ draft' = [draft EXCEPT ![s].tx = t,
                                 ![s].row = [status |-> "live", type |-> req[s].type,
                                             amount |-> req[s].amount]]
  /\ Goto(s, "accounts")
  /\ UNCHANGED <<ledger, nextEvent, projectVars, locks, req, acked>>

\* Mutant: ON CONFLICT DO NOTHING, which locks nothing.
EnsureAccountsWithoutLock(s) ==
  /\ pc[s] = "accounts"
  /\ Goto(s, "journal")
  /\ UNCHANGED <<ledger, nextEvent, projectVars, locks, req, draft, acked>>

\* ensureAccount: ON CONFLICT DO UPDATE takes the row lock of the cash account
\* and keeps it to the end of the transaction.
EnsureAccounts(s) ==
  /\ pc[s] = "accounts"
  /\ cashLock = Free
  /\ cashLock' = s
  /\ Goto(s, "journal")
  /\ UNCHANGED <<ledger, nextEvent, projectVars, rowLock, req, draft, acked>>

\* Mutant: lines of zero are accepted.
InsertAnyJournal(s) ==
  /\ pc[s] = "journal"
  /\ draft' = [draft EXCEPT ![s].journals =
       {[tx |-> draft[s].tx, cause |-> req[s].cause, type |-> req[s].type,
         amount |-> req[s].amount, status |-> "POSTED"]}]
  /\ Goto(s, "validate")
  /\ UNCHANGED <<ledger, nextEvent, projectVars, locks, req, acked>>

\* The entry and its two lines.  A taken cause is a unique violation, a type
\* without lines is an error, an amount of zero breaks the CHECK of the lines.
InsertJournal(s) ==
  LET d == draft[s]
      entry == [tx |-> d.tx, cause |-> req[s].cause, type |-> req[s].type,
                amount |-> req[s].amount, status |-> "POSTED"]
  IN
  /\ pc[s] = "journal"
  /\ IF JournalCauseTaken(req[s].cause) \/ req[s].type \notin Types \/ req[s].amount = 0
     THEN Rollback(s)
     ELSE /\ draft' = [draft EXCEPT ![s].journals = Overlay(@, {entry})]
          /\ Goto(s, IF req[s].kind = "create" THEN "validate" ELSE "allocate")
          /\ UNCHANGED <<ledger, nextEvent, projectVars, locks, req, acked>>

\* validateAllocations, after the journal of a create, before the rewrite of an
\* update.
ValidateAllocations(s) ==
  /\ pc[s] = "validate"
  /\ \/ /\ AllocationsPass(req[s].allocs, req[s].amount)
        /\ Goto(s, IF req[s].kind = "create" THEN "allocate" ELSE "rewrite")
        /\ UNCHANGED <<ledger, nextEvent, projectVars, locks, req, draft, acked>>
     \/ /\ AllocationsFail(req[s].allocs, req[s].amount)
        /\ Rollback(s)

\* DELETE of the old allocation rows (none for a create) and INSERT of the new.
InsertAllocations(s) ==
  /\ pc[s] = "allocate"
  /\ draft' = [draft EXCEPT ![s].allocs = AllocationRows(req[s].allocs)]
  /\ Goto(s, "event")
  /\ UNCHANGED <<ledger, nextEvent, projectVars, locks, req, acked>>

EventKind == [create |-> "tx.recorded", update |-> "tx.updated", delete |-> "tx.deleted"]

\* The ledger_events row.  Only tx.recorded carries the cause.  The handler of
\* a unique violation here is not modelled: EventIndexNeverHit shows that the
\* violation cannot happen, the one on journal_entries always comes first.
InsertEvent(s) ==
  LET event == [id |-> nextEvent, kind |-> EventKind[req[s].kind],
                cause |-> IF req[s].kind = "create" THEN req[s].cause ELSE NoCause,
                tx |-> draft[s].tx, type |-> req[s].type, amount |-> req[s].amount]
  IN
  /\ pc[s] = "event"
  /\ nextEvent' = nextEvent + 1
  /\ draft' = [draft EXCEPT ![s].events = {event}]
  /\ Goto(s, "commit")
  /\ UNCHANGED <<ledger, projectVars, locks, req, acked>>

\* The transaction becomes visible; the caller may still see an error when the
\* answer of COMMIT is lost.
Commit(s) ==
  LET d == draft[s] IN
  /\ pc[s] = "commit"
  /\ rows' = [rows EXCEPT ![d.tx] = d.row]
  /\ journals' = Overlay(journals, d.journals)
  /\ allocs' = [allocs EXCEPT ![d.tx] = d.allocs]
  /\ events' = events \cup d.events
  /\ \/ acked' = acked \cup {[cause |-> c, tx |-> d.tx] :
                               c \in {req[s].cause} \cap Messages}
     \/ UNCHANGED acked
  /\ EndSession(s)
  /\ UNCHANGED <<nextEvent, projectVars>>

-----------------------------------------------------------------------------
(* UpdateTransaction and DeleteTransaction.                                 *)

\* validateTransactionUpdate lets only a positive INCOME or EXPENSE through; an
\* amount of 0 stands for one below half a satang, which the column rounds to 0.
BeginUpdate(s) ==
  /\ EventBudget
  /\ \E t \in TxIds, ty \in Types, a \in Amounts, as \in AllocInputs, u \in Uuids :
       /\ UnusedUuid(u)
       /\ Begin(s, "lock", [kind |-> "update", cause |-> u, tx |-> t, type |-> ty,
                            amount |-> a, allocs |-> as])

BeginDelete(s) ==
  /\ EventBudget
  /\ \E t \in TxIds :
       Begin(s, "lock", [kind |-> "delete", cause |-> NoCause, tx |-> t, type |-> "none",
                         amount |-> 0, allocs |-> <<>>])

\* Mutant: the row is read without FOR UPDATE.
LockRowWithoutWaiting(s) ==
  LET t == req[s].tx IN
  /\ pc[s] = "lock"
  /\ rows[t].status = "live"
  /\ draft' = [draft EXCEPT ![s].tx = t, ![s].row = rows[t]]
  /\ Goto(s, IF req[s].kind = "update" THEN "validate" ELSE "rewrite")
  /\ UNCHANGED <<ledger, nextEvent, projectVars, locks, req, acked>>

\* Mutant: the statements match deleted rows too.
LockAnyRow(s) ==
  LET t == req[s].tx IN
  /\ pc[s] = "lock"
  /\ rowLock[t] = Free
  /\ rows[t].status # "absent"
  /\ rowLock' = [rowLock EXCEPT ![t] = s]
  /\ draft' = [draft EXCEPT ![s].tx = t, ![s].row = rows[t]]
  /\ Goto(s, IF req[s].kind = "update" THEN "validate" ELSE "rewrite")
  /\ UNCHANGED <<ledger, nextEvent, projectVars, cashLock, req, acked>>

\* SELECT ... FOR UPDATE of an update, the guarded UPDATE of a delete: both
\* wait for the row lock and then match only a row that is not deleted.
LockRow(s) ==
  LET t == req[s].tx IN
  /\ pc[s] = "lock"
  /\ rowLock[t] = Free
  /\ IF rows[t].status = "live"
     THEN /\ rowLock' = [rowLock EXCEPT ![t] = s]
          /\ draft' = [draft EXCEPT ![s].tx = t, ![s].row = rows[t]]
          /\ Goto(s, IF req[s].kind = "update" THEN "validate" ELSE "rewrite")
          /\ UNCHANGED <<ledger, nextEvent, projectVars, cashLock, req, acked>>
     ELSE Rollback(s)

\* Mutant: the old entries stay POSTED.
RewriteWithoutVoid(s) ==
  /\ pc[s] = "rewrite"
  /\ draft' = [draft EXCEPT ![s].row =
       IF req[s].kind = "update"
       THEN [status |-> "live", type |-> req[s].type, amount |-> req[s].amount]
       ELSE [@ EXCEPT !.status = "deleted"]]
  /\ Goto(s, IF req[s].kind = "update" THEN "accounts" ELSE "allocate")
  /\ UNCHANGED <<ledger, nextEvent, projectVars, locks, req, acked>>

\* The new row, and VOID for every POSTED entry of it the session sees.
RewriteRow(s) ==
  LET d == draft[s]
      isUpdate == req[s].kind = "update"
      posted == {j \in Overlay(journals, d.journals) : j.tx = d.tx /\ j.status = "POSTED"}
  IN
  /\ pc[s] = "rewrite"
  /\ draft' = [draft EXCEPT
       ![s].row = IF isUpdate
                  THEN [status |-> "live", type |-> req[s].type, amount |-> req[s].amount]
                  ELSE [@ EXCEPT !.status = "deleted"],
       ![s].journals = Overlay(@, {[j EXCEPT !.status = "VOID"] : j \in posted})]
  /\ Goto(s, IF isUpdate THEN "accounts" ELSE "allocate")
  /\ UNCHANGED <<ledger, nextEvent, projectVars, locks, req, acked>>

-----------------------------------------------------------------------------
(* Failures: the process dies, the context ends or PostgreSQL reports an    *)
(* error before COMMIT; the server rolls back and drops the locks.          *)

\* Mutant: the error of COMMIT is ignored and the id returned.
FailAcknowledged(s) ==
  /\ pc[s] = "commit"
  /\ EndSession(s)
  /\ acked' = acked \cup {[cause |-> c, tx |-> draft[s].tx] :
                            c \in {req[s].cause} \cap Messages}
  /\ UNCHANGED <<ledger, nextEvent, projectVars>>

Fail(s) ==
  /\ pc[s] \notin {"idle", "project"}
  /\ Rollback(s)

-----------------------------------------------------------------------------
(* CreateProject, UpdateProject and DeleteProject: one statement, then the  *)
(* event in a transaction of its own whose error is dropped.                *)

MutateProject(s, p, from, to) ==
  /\ pc[s] = "idle"
  /\ EventBudget
  /\ mutations[p] < MaxMutations
  /\ projects[p] = from
  /\ projects' = [projects EXCEPT ![p] = to]
  /\ mutations' = [mutations EXCEPT ![p] = @ + 1]
  /\ owes' = [owes EXCEPT ![s] = {p}]
  /\ Goto(s, "project")
  /\ UNCHANGED <<ledger, nextEvent, projectLog, locks, req, draft, acked>>

CreateProject(s) == \E p \in Projects : MutateProject(s, p, "absent", "live")

UpdateProject(s) == \E p \in Projects : MutateProject(s, p, "live", "live")

DeleteProject(s) == \E p \in Projects : MutateProject(s, p, "live", "deleted")

\* appendLedgerEvent: the insert, or an error (or a crash) nobody hears of.
AppendProjectEvent(s) ==
  /\ pc[s] = "project"
  /\ \/ /\ projectLog' = [p \in Projects |->
                           IF p \in owes[s] THEN projectLog[p] + 1 ELSE projectLog[p]]
        /\ nextEvent' = nextEvent + 1
     \/ UNCHANGED <<projectLog, nextEvent>>
  /\ owes' = [owes EXCEPT ![s] = {}]
  /\ Goto(s, "idle")
  /\ UNCHANGED <<ledger, projects, mutations, locks, req, draft, acked>>

-----------------------------------------------------------------------------
WriteStep(s) ==
  \/ LookupCause(s) \/ InsertRow(s) \/ InsertJournal(s) \/ ValidateAllocations(s)
  \/ InsertAllocations(s) \/ InsertEvent(s) \/ Commit(s) \/ RewriteRow(s)

LockStep(s) == EnsureAccounts(s) \/ LockRow(s)

Call(s) ==
  \/ BeginCreate(s) \/ BeginUpdate(s) \/ BeginDelete(s)
  \/ CreateProject(s) \/ UpdateProject(s) \/ DeleteProject(s)

\* The bound on events is used up and every session has returned.
Exhausted == (\A s \in Sessions : pc[s] = "idle") /\ ~ EventBudget /\ UNCHANGED vars

Next ==
  \/ \E s \in Sessions :
       Call(s) \/ WriteStep(s) \/ LockStep(s) \/ AppendProjectEvent(s) \/ Fail(s)
  \/ Exhausted

Spec == Init /\ [][Next]_vars

\* A running session goes on to its next statement; PostgreSQL queues the
\* waiters of a row lock in arrival order, so no waiter is passed over forever.
Fairness ==
  \A s \in Sessions :
    WF_vars(WriteStep(s)) /\ WF_vars(AppendProjectEvent(s)) /\ SF_vars(LockStep(s))

FairSpec == Spec /\ Fairness

-----------------------------------------------------------------------------
(* Properties.                                                              *)

Row == [status : {"absent", "live", "deleted"}, type : RequestTypes \cup {"none"},
        amount : Nat]

\* The two lines of an entry follow from its type and amount: INCOME debits
\* cash and credits its income account, EXPENSE debits its expense account and
\* credits cash.
Journal == [tx : TxIds, cause : Causes, type : Types, amount : Nat \ {0},
            status : {"POSTED", "VOID"}]

Event == [id : Nat, kind : {"tx.recorded", "tx.updated", "tx.deleted"},
          cause : Messages \cup {NoCause}, tx : TxIds,
          type : RequestTypes \cup {"none"}, amount : Nat]

Draft == [tx : TxIds \cup {NoTx}, row : Row, journals : SUBSET Journal,
          allocs : [Projects -> Nat], events : SUBSET Event]

Request == [kind : {"none", "create", "update", "delete"}, cause : Causes,
            tx : TxIds \cup {NoTx}, type : RequestTypes \cup {"none"}, amount : Nat,
            allocs : AllocInputs \cup {<<>>}]

Labels == {"idle", "lookup", "insert", "accounts", "journal", "validate", "allocate",
           "event", "commit", "lock", "rewrite", "project"}

\* Every variable has its type.
TypeOK ==
  /\ rows \in [TxIds -> Row]
  /\ journals \subseteq Journal
  /\ allocs \in [TxIds -> [Projects -> Nat]]
  /\ events \subseteq Event
  /\ nextEvent \in Nat
  /\ projects \in [Projects -> {"absent", "live", "deleted"}]
  /\ mutations \in [Projects -> Nat]
  /\ projectLog \in [Projects -> Nat]
  /\ rowLock \in [TxIds -> Sessions \cup {Free}]
  /\ cashLock \in Sessions \cup {Free}
  /\ pc \in [Sessions -> Labels]
  /\ req \in [Sessions -> Request]
  /\ draft \in [Sessions -> Draft]
  /\ owes \in [Sessions -> SUBSET Projects]
  /\ acked \subseteq [cause : Messages, tx : TxIds]

Posted(t) == {j \in journals : j.tx = t /\ j.status = "POSTED"}

\* A live transaction has exactly one POSTED entry, of its own type and amount;
\* a deleted or absent one has none.  This is what the dashboard's ledger check
\* and totals rely on: POSTED entries and live rows tell the same story, however
\* edits, deletions and failures interleave.
BooksMatchRows ==
  \A t \in TxIds :
    IF rows[t].status = "live"
    THEN \E j \in Posted(t) :
           /\ Posted(t) = {j}
           /\ j.type = rows[t].type
           /\ j.amount = rows[t].amount
    ELSE Posted(t) = {}

EventsOf(t) == {e \in events : e.tx = t}

\* The row an event-log reader rebuilds: the last recorded or updated values,
\* and gone once a tx.deleted event exists.
Rebuilt(t) ==
  LET values == {e \in EventsOf(t) : e.kind # "tx.deleted"} IN
  IF values = {} THEN NoRow
  ELSE LET last == CHOOSE e \in values : \A f \in values : f.id <= e.id IN
       [status |-> IF \E e \in EventsOf(t) : e.kind = "tx.deleted" THEN "deleted" ELSE "live",
        type |-> last.type, amount |-> last.amount]

\* CreatePersonalTransaction writes row and event in one transaction so that
\* projections can rebuild from the log: replaying the committed events in id
\* order gives the committed rows, although ids are drawn before commit.
EventLogRebuildsRows == \A t \in TxIds : Rebuilt(t) = rows[t]

\* A causation id is recorded at most once, whatever duplicates of a LINE
\* message run at the same time.
OneRecordPerCause ==
  \A c \in Messages : \A e, f \in RecordedAs(c) : e = f

\* The unique index on ledger_events is never the one that stops a duplicate:
\* when a create reaches its event, its cause has no event yet.  The handler
\* that returns the existing id is therefore never run, and the losing
\* duplicate reports an error.
EventIndexNeverHit ==
  \A s \in Sessions :
    pc[s] = "event" /\ req[s].kind = "create" => RecordedAs(req[s].cause) = {}

\* All successful answers for one message name one transaction, and that
\* transaction is the recorded one: a retry never learns another id.
AnswersAgree ==
  \A a \in acked :
    RecordedAs(a.cause) # {} /\ \A e \in RecordedAs(a.cause) : e.tx = a.tx

WithinTolerance(shares, amount) ==
  2 * SumFunctionOnSet(shares, Projects)
    <= 2 * amount + 2 + Cardinality({p \in Projects : shares[p] > 0})

\* Allocations of a transaction exceed its amount by no more than the one satang that
\* projects.go:478 lets pass and the half satang that the column may add to each of its
\* rows (projects.go:494-497), even when edits of the amount and of the allocations race.
AllocationsWithinTolerance ==
  \A t \in TxIds : WithinTolerance(allocs[t], rows[t].amount)

\* A deleted transaction is history: no later edit, retry or race brings it back
\* or changes it, and its entries stay VOID.
DeletedIsFinal ==
  [][\A t \in TxIds :
       rows[t].status = "deleted" =>
         /\ rows'[t] = rows[t]
         /\ \A j \in journals' : j.tx = t => j.status = "VOID"]_vars

\* What the tables amount to for a caller: see LedgerPromise.
Promise == INSTANCE LedgerPromise WITH
  entry <- rows,
  posted <- [t \in TxIds |->
               {[type |-> j.type, amount |-> j.amount] : j \in Posted(t)}],
  recorded <- [c \in Messages |->
                 IF RecordedAs(c) = {} THEN NoTx
                 ELSE (CHOOSE e \in RecordedAs(c) : TRUE).tx]

\* The writer implements the promise: rows, posted entries and the memory of
\* recorded messages change together at Commit and at no other step.
ImplementsPromise == Promise!Spec

\* Row locks and the cash account lock never leave sessions waiting on each
\* other: every call returns.
EveryCallReturns == \A s \in Sessions : pc[s] # "idle" ~> pc[s] = "idle"

=============================================================================
