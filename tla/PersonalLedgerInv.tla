-------------------------- MODULE PersonalLedgerInv --------------------------
(***************************************************************************)
(* The inductive invariant of PersonalLedger: what a session's uncommitted *)
(* writes look like at each statement, and what the locks it holds keep    *)
(* other sessions from changing.                                           *)
(***************************************************************************)
EXTENDS PersonalLedger

\* Labels at which a session has a transaction with writes of its own.
Writing == {"accounts", "journal", "validate", "allocate", "event", "commit", "rewrite"}

\* Labels at which a create, an update or a delete may be.
LabelsOf ==
  [create |-> {"lookup", "insert", "accounts", "journal", "validate", "allocate",
               "event", "commit"},
   update |-> {"lock", "validate", "rewrite", "accounts", "journal", "allocate",
               "event", "commit"},
   delete |-> {"lock", "rewrite", "allocate", "event", "commit"},
   none   |-> {"idle", "project"}]

\* The entry of the request has been inserted.
Entered(s) ==
  \/ pc[s] \in {"allocate", "event", "commit"} /\ req[s].kind \in {"create", "update"}
  \/ pc[s] = "validate" /\ req[s].kind = "create"

\* The row of the request has its new value and the old entries are voided.
Rewritten(s) == pc[s] \in Writing /\ (pc[s] \in {"validate", "rewrite"} => req[s].kind = "create")

HoldsCash(s) == Entered(s) \/ pc[s] = "journal"

Shape(s) ==
  /\ pc[s] \in LabelsOf[req[s].kind]
  /\ IF req[s].kind = "create"
     THEN req[s].cause \in Messages \cup {NoCause}
     ELSE req[s].cause \notin Messages
  /\ req[s].kind \in {"update", "delete"} => req[s].tx \in TxIds
  /\ IF pc[s] \in Writing THEN draft[s].tx \in TxIds ELSE draft[s] = NoDraft

\* A new row is the session's alone; an existing one is live and locked by it.
OwnsRow(s) ==
  pc[s] \in Writing =>
    IF req[s].kind = "create"
    THEN /\ rows[draft[s].tx].status = "absent"
         /\ \A r \in Sessions : r # s => draft[r].tx # draft[s].tx
    ELSE /\ rows[draft[s].tx].status = "live"
         /\ rowLock[draft[s].tx] = s

OwnsCash(s) == HoldsCash(s) => cashLock = s

NewRow(s) ==
  IF req[s].kind = "delete"
  THEN [rows[draft[s].tx] EXCEPT !.status = "deleted"]
  ELSE [status |-> "live", type |-> req[s].type, amount |-> req[s].amount]

DraftRow(s) ==
  pc[s] \in Writing =>
    draft[s].row = IF Rewritten(s) THEN NewRow(s) ELSE rows[draft[s].tx]

DraftPosted(s) == {k \in draft[s].journals : k.status = "POSTED"}

\* Before the rewrite there are none.  Draft entries belong to the draft's row and
\* the POSTED one is the request's own; the others void committed entries.
DraftEntries(s) ==
  /\ ~ Rewritten(s) => draft[s].journals = {}
  /\ \A k \in draft[s].journals : k.tx = draft[s].tx
  /\ \A k \in DraftPosted(s) :
       k.cause = req[s].cause /\ k.type = req[s].type /\ k.amount = req[s].amount
  /\ DraftPosted(s) # {} <=> Entered(s)
  /\ \A k \in draft[s].journals \ DraftPosted(s) : \E j \in journals : j.cause = k.cause

\* Once rewritten, every POSTED entry of the row lies under an entry of the draft.
DraftCovers(s) ==
  Rewritten(s) =>
    \A j \in Posted(draft[s].tx) : \E k \in draft[s].journals : SameEntry(j, k)

\* While a session holds the cash account, nobody else takes its cause.
CauseReserved(s) == Entered(s) => ~ JournalCauseTaken(req[s].cause)

DraftEvent(s) ==
  IF pc[s] = "commit"
  THEN \E e \in draft[s].events :
         /\ draft[s].events = {e}
         /\ e.kind = EventKind[req[s].kind]
         /\ e.tx = draft[s].tx
         /\ e.cause = IF req[s].kind = "create" THEN req[s].cause ELSE NoCause
  ELSE draft[s].events = {}

SessionOK(s) ==
  /\ Shape(s)
  /\ OwnsRow(s)
  /\ OwnsCash(s)
  /\ DraftRow(s)
  /\ DraftEntries(s)
  /\ DraftCovers(s)
  /\ CauseReserved(s)
  /\ DraftEvent(s)

\* A recorded message has its journal entry.
RecordedHasEntry ==
  \A c \in Messages : RecordedAs(c) # {} => JournalCauseTaken(c)

\* The inductive invariant.
IInv ==
  /\ TypeOK
  /\ \A s \in Sessions : SessionOK(s)
  /\ RecordedHasEntry
  /\ BooksMatchRows
  /\ OneRecordPerCause
  /\ AnswersAgree

-----------------------------------------------------------------------------
(* The log.  Ids are drawn before the commit, so events of different rows   *)
(* may become visible in another order than that of their ids; those of one *)
(* row cannot, since its writers hold the row when they draw.               *)

EventsAreDrawn == \A e \in events : e.id < nextEvent

\* The event about to be committed is the youngest of its row, and tells of the request.
DraftIsYoungest(s) ==
  pc[s] = "commit" =>
    \A e \in draft[s].events :
      /\ e.id < nextEvent
      /\ e.type = req[s].type /\ e.amount = req[s].amount
      /\ \A f \in EventsOf(draft[s].tx) : f.id < e.id

DeletionsAreDone == \A e \in events : e.kind = "tx.deleted" => rows[e.tx].status = "deleted"

AmountsAreAsked == \A s \in Sessions : req[s].kind \in {"create", "update"} => req[s].amount \in Amounts

\* What IInv needs besides, for the log and for LedgerPromise.
LogInv ==
  /\ EventsAreDrawn
  /\ \A s \in Sessions : DraftIsYoungest(s)
  /\ DeletionsAreDone
  /\ AmountsAreAsked
  /\ EventLogRebuildsRows

\* A session keeps the id it has drawn to itself until it commits.
DrawnIds(s) == {e.id : e \in draft[s].events}

IdsAreApart ==
  /\ \A s \in Sessions : \A i \in DrawnIds(s) : i < nextEvent /\ \A e \in events : e.id # i
  /\ \A s, r \in Sessions : s # r => DrawnIds(s) \cap DrawnIds(r) = {}

\* An id names one event of the log: what a reader keeps by id it never mixes up.
EventIdsAreUnique == \A e, f \in events : e.id = f.id => e = f

\* A transaction is recorded once, so with OneRecordPerCause recorded messages and their
\* transactions correspond one to one: no message's record is another one's.
OneRecordPerTransaction ==
  \A e, f \in events :
    e.kind = "tx.recorded" /\ f.kind = "tx.recorded" /\ e.tx = f.tx => e = f

\* What LogInv needs besides, for the ids.
IdInv == IdsAreApart /\ EventIdsAreUnique /\ OneRecordPerTransaction

-----------------------------------------------------------------------------
(* Allocations.                                                             *)

\* The lines of the request have passed validateAllocations.
Validated(s) ==
  \/ req[s].kind = "create" /\ pc[s] \in {"allocate", "event", "commit"}
  \/ req[s].kind = "update" /\ pc[s] \in {"rewrite", "accounts", "journal", "allocate", "event", "commit"}

LinesPassed(s) ==
  Validated(s) =>
    /\ ~ DuplicateProject(req[s].allocs)
    /\ \E x \in StoredAs(req[s].amount) : AllocatedSum(req[s].allocs) <= x + 10

DeletesLines(s) == req[s].kind = "delete" => req[s].allocs = <<>>

\* What the session is about to commit.
DraftWithinTolerance(s) ==
  pc[s] \in {"event", "commit"} =>
    WithinTolerance(draft[s].allocs, draft[s].row.amount)

SessionAllocates(s) == LinesPassed(s) /\ DeletesLines(s) /\ DraftWithinTolerance(s)

\* What IInv needs besides, for the allocations.
AllocInv ==
  /\ AllocationsWithinTolerance
  /\ \A s \in Sessions : SessionAllocates(s)

-----------------------------------------------------------------------------
(* Waiting.  The rows of transactions are locked before the cash account,   *)
(* and a session waits for at most one of them at a time.                   *)

\* s waits for a lock that h holds.
WaitsFor(s, h) ==
  \/ pc[s] = "lock" /\ rowLock[req[s].tx] = h
  \/ pc[s] = "accounts" /\ cashLock = h

Waits(s) == \E h \in Sessions : WaitsFor(s, h)

Runs(s) == pc[s] # "idle" /\ ~ Waits(s)

\* Only a session that edits a row holds it, and only one past its accounts holds the
\* cash account.
HoldsInUse(s) ==
  /\ \A t \in TxIds : rowLock[t] = s =>
       pc[s] \in Writing /\ req[s].kind \in {"update", "delete"} /\ draft[s].tx = t
  /\ cashLock = s => HoldsCash(s)

\* No call returns with a lock.
LocksInUse == \A s \in Sessions : HoldsInUse(s)

\* No deadlock among any number of sessions: whoever waits for a lock waits for a session
\* that runs, or for one that waits in turn for a session that runs.
WaitsAreShort ==
  \A s \in Sessions : Waits(s) =>
    \E h \in Sessions :
      /\ WaitsFor(s, h)
      /\ Runs(h) \/ \E k \in Sessions : WaitsFor(h, k) /\ Runs(k)

\* How far a call has come.
Progress(s) ==
  CASE pc[s] = "idle" -> 0
    [] pc[s] \in {"lookup", "lock", "project"} -> 1
    [] pc[s] = "insert" -> 2
    [] pc[s] = "validate" -> IF req[s].kind = "create" THEN 6 ELSE 2
    [] pc[s] = "rewrite" -> 3
    [] pc[s] = "accounts" -> 4
    [] pc[s] = "journal" -> 5
    [] pc[s] = "allocate" -> 7
    [] pc[s] = "event" -> 8
    [] pc[s] = "commit" -> 9

\* Every step leaves a call alone, brings it nearer to its COMMIT or ends it: a call runs
\* nine statements at most, and nobody sets it back.  With WaitsAreShort this is the
\* part of EveryCallReturns that needs no fairness.
CallsGoForward ==
  [][\A s \in Sessions : pc[s] # "idle" =>
       \/ pc'[s] = "idle"
       \/ req'[s] = req[s] /\ Progress(s)' > Progress(s)
       \/ pc'[s] = pc[s] /\ req'[s] = req[s] /\ draft'[s] = draft[s]]_vars

=============================================================================
