------------------------- MODULE PersonalLedgerProofs -------------------------
(***************************************************************************)
(* Proofs about PersonalLedger: IInv of PersonalLedgerInv is inductive,    *)
(* and the safety properties of the ledger follow from it.  Types first,   *)
(* then one lemma per action, then the theorems.                           *)
(***************************************************************************)
EXTENDS PersonalLedgerInv, TLAPS

USE DEF Types

\* A rounded amount is an amount.
LEMMA RoundedType ==
  ASSUME NEW x \in Nat
  PROVE  Rounded(x) \in Nat
  BY DEF Rounded

\* The initial state satisfies the inductive invariant.
LEMMA InitIInv == Init => IInv
  <1> SUFFICES ASSUME Init PROVE IInv
    OBVIOUS
  <1> USE DEF Init
  <1>1. TypeOK
    BY SessionsAssumption, TxIdsAssumption, CausesAssumption
    DEF TypeOK, NoRow, NoAllocs, NoDraft, NoReq, Row, Draft, Request, Labels, Causes, RequestTypes
  <1>2. \A s \in Sessions : SessionOK(s)
    BY CausesAssumption
    DEF SessionOK, Shape, OwnsRow, OwnsCash, DraftRow, DraftEntries, DraftCovers,
      CauseReserved, DraftEvent, LabelsOf, Writing, Entered, Rewritten, HoldsCash,
      DraftPosted, NoDraft, NoReq
  <1>3. RecordedHasEntry /\ BooksMatchRows /\ OneRecordPerCause /\ AnswersAgree
    BY DEF RecordedHasEntry, BooksMatchRows, OneRecordPerCause, AnswersAgree, RecordedAs,
      Posted, NoRow
  <1> QED BY <1>1, <1>2, <1>3 DEF IInv

-----------------------------------------------------------------------------
(* Type correctness.                                                        *)

\* Releasing a session's locks and draft keeps the types.
LEMMA EndSessionType ==
  ASSUME TypeOK, NEW s \in Sessions, EndSession(s)
  PROVE  /\ pc' \in [Sessions -> Labels]
         /\ req' \in [Sessions -> Request]
         /\ draft' \in [Sessions -> Draft]
         /\ rowLock' \in [TxIds -> Sessions \cup {Free}]
         /\ cashLock' \in Sessions \cup {Free}
  <1>1. NoReq \in Request /\ NoDraft \in Draft
    BY DEF NoReq, Request, NoDraft, Draft, NoRow, Row, NoAllocs, Causes, RequestTypes
  <1> QED BY <1>1 DEF TypeOK, EndSession, Goto, Labels

\* A rollback keeps the types.
LEMMA RollbackType ==
  ASSUME TypeOK, NEW s \in Sessions, Rollback(s)
  PROVE  TypeOK'
  BY EndSessionType DEF TypeOK, Rollback, ledger, projectVars

\* Accepting a request of any kind keeps the types.
LEMMA BeginType ==
  ASSUME TypeOK, NEW s \in Sessions, NEW label \in Labels, NEW r \in Request,
         Begin(s, label, r)
  PROVE  TypeOK'
  BY DEF TypeOK, Begin, Goto, ledger, projectVars, locks

\* A draft with one of its fields replaced is a draft.
LEMMA DraftFields ==
  ASSUME NEW d \in Draft
  PROVE  /\ \A t \in TxIds : [d EXCEPT !.tx = t] \in Draft
         /\ \A w \in Row : [d EXCEPT !.row = w] \in Draft
         /\ \A J \in SUBSET Journal : [d EXCEPT !.journals = J] \in Draft
         /\ \A A \in [Projects -> Nat] : [d EXCEPT !.allocs = A] \in Draft
         /\ \A E \in SUBSET Event : [d EXCEPT !.events = E] \in Draft
  BY DEF Draft

\* The steps that start a call, and those of the projects calls, keep the types.
LEMMA CallType ==
  ASSUME TypeOK, NEW s \in Sessions, Call(s)
  PROVE  TypeOK'
  <1>1. CASE BeginCreate(s)
    BY <1>1, BeginType, AmountsAssumption DEF BeginCreate, Request, Labels, Causes, RequestTypes
  <1>2. CASE BeginUpdate(s)
    BY <1>2, BeginType, AmountsAssumption DEF BeginUpdate, Request, Labels, Causes, RequestTypes
  <1>3. CASE BeginDelete(s)
    BY <1>3, BeginType DEF BeginDelete, Request, Labels, Causes, RequestTypes
  <1>4. CASE CreateProject(s) \/ UpdateProject(s) \/ DeleteProject(s)
    <2>1. PICK p \in Projects, to \in {"live", "deleted"} :
            \E from \in {"absent", "live"} : MutateProject(s, p, from, to)
      BY <1>4 DEF CreateProject, UpdateProject, DeleteProject
    <2> QED BY <2>1 DEF TypeOK, MutateProject, Goto, ledger, locks, Labels
  <1> QED BY <1>1, <1>2, <1>3, <1>4 DEF Call

\* The statements inside a transaction keep the types.
LEMMA WriteType ==
  ASSUME IInv, NEW s \in Sessions, WriteStep(s)
  PROVE  TypeOK'
  <1> USE DEF IInv, ledger, projectVars, locks, Goto
  <1>s. Shape(s)
    BY DEF SessionOK
  <1>1. CASE LookupCause(s)
    <2>1. acked' \subseteq [cause : Messages, tx : TxIds]
      BY <1>1, <1>s DEF TypeOK, LookupCause, RecordedAs, Event, Shape, LabelsOf, Request
    <2> QED BY <1>1, <2>1, EndSessionType DEF LookupCause, TypeOK, Labels
  <1>2. CASE InsertRow(s)
    <2> DEFINE w == [status |-> "live", type |-> req[s].type, amount |-> req[s].amount]
    <2>1. w \in Row /\ draft[s] \in Draft
      BY DEF TypeOK, Request, Row
    <2>2. PICK t \in TxIds : draft' = [draft EXCEPT ![s].tx = t, ![s].row = w]
      BY <1>2 DEF InsertRow
    <2>3. draft' = [draft EXCEPT ![s] = [[draft[s] EXCEPT !.tx = t] EXCEPT !.row = w]]
      BY <2>1, <2>2 DEF TypeOK
    <2>4. [[draft[s] EXCEPT !.tx = t] EXCEPT !.row = w] \in Draft
      BY <2>1, DraftFields
    <2> QED BY <1>2, <2>3, <2>4 DEF InsertRow, TypeOK, Labels
  <1>3. CASE InsertJournal(s)
    <2>1. CASE Rollback(s)
      BY <2>1, RollbackType
    <2>2. CASE ~ Rollback(s)
      <3> DEFINE entry == [tx |-> draft[s].tx, cause |-> req[s].cause, type |-> req[s].type,
                           amount |-> req[s].amount, status |-> "POSTED"]
      <3>1. entry \in Journal
        BY <1>3, <2>2, <1>s DEF InsertJournal, TypeOK, Draft, Request, Journal, Shape, Writing
      <3>2. Overlay(draft[s].journals, {entry}) \subseteq Journal
        BY <3>1 DEF Overlay, TypeOK, Draft
      <3>3. draft' \in [Sessions -> Draft]
        <4>1. draft' = [draft EXCEPT ![s].journals = Overlay(@, {entry})]
          BY <1>3, <2>2 DEF InsertJournal
        <4>2. draft' = [draft EXCEPT ![s] =
                          [draft[s] EXCEPT !.journals = Overlay(draft[s].journals, {entry})]]
          BY <4>1 DEF TypeOK
        <4> QED BY <4>2, <3>2, DraftFields DEF TypeOK
      <3> QED BY <1>3, <2>2, <3>3 DEF InsertJournal, TypeOK, Labels
    <2> QED BY <2>1, <2>2
  <1>4. CASE ValidateAllocations(s)
    BY <1>4, RollbackType DEF ValidateAllocations, TypeOK, Labels
  <1>5. CASE InsertAllocations(s)
    <2>1. req[s].allocs \in AllocInputs \cup {<<>>}
      BY DEF TypeOK, Request
    <2>2. AllocationRows(req[s].allocs) \in [Projects -> Nat]
      <3> SUFFICES ASSUME NEW p \in Projects
                   PROVE  AllocationRows(req[s].allocs)[p] \in Nat
        BY DEF AllocationRows
      <3> DEFINE lines == {i \in EffectiveLines(req[s].allocs) : req[s].allocs[i].project = p}
      <3>1. CASE lines = {}
        BY <3>1 DEF AllocationRows
      <3>2. CASE lines # {}
        <4>1. (CHOOSE i \in lines : TRUE) \in lines
          BY <3>2
        <4>2. req[s].allocs \in AllocInputs
          BY <2>1, <3>2 DEF EffectiveLines
        <4>3. req[s].allocs[CHOOSE i \in lines : TRUE].amount \in Nat
          BY <4>1, <4>2, AllocInputsAssumption DEF EffectiveLines
        <4>4. Rounded(req[s].allocs[CHOOSE i \in lines : TRUE].amount) \in Nat
          BY <4>3, RoundedType
        <4> QED BY <4>4, <3>2 DEF AllocationRows
      <3> QED BY <3>1, <3>2
    <2> QED BY <1>5, <2>2 DEF InsertAllocations, TypeOK, Draft, Labels
  <1>6. CASE InsertEvent(s)
    <2>1. req[s].kind \in {"create", "update", "delete"} /\ draft[s].tx \in TxIds
      <3>1. pc[s] = "event" /\ req[s].kind \in {"none", "create", "update", "delete"}
        BY <1>6 DEF InsertEvent, TypeOK, Request
      <3> QED BY <3>1, <1>s DEF Shape, LabelsOf, Writing
    <2>2. EventKind[req[s].kind] \in {"tx.recorded", "tx.updated", "tx.deleted"}
      BY <2>1 DEF EventKind
    <2> DEFINE event == [id |-> nextEvent, kind |-> EventKind[req[s].kind],
                cause |-> IF req[s].kind = "create" THEN req[s].cause ELSE NoCause,
                tx |-> draft[s].tx, type |-> req[s].type, amount |-> req[s].amount]
    <2>3. event \in Event
      BY <2>1, <2>2, <1>s DEF Event, Shape, TypeOK, Request
    <2>4. draft' = [draft EXCEPT ![s].events = {event}]
      BY <1>6 DEF InsertEvent
    <2>5. draft' \in [Sessions -> Draft]
      <3>1. draft' = [draft EXCEPT ![s] = [draft[s] EXCEPT !.events = {event}]]
        BY <2>4 DEF TypeOK
      <3> QED BY <3>1, <2>3, DraftFields DEF TypeOK
    <2> QED BY <1>6, <2>5 DEF InsertEvent, TypeOK, Labels
  <1>7. CASE Commit(s)
    <2>1. draft[s] \in Draft /\ draft[s].tx \in TxIds
      BY <1>7, <1>s DEF Commit, Shape, TypeOK, Writing
    <2>2. /\ rows' \in [TxIds -> Row]
          /\ journals' \subseteq Journal
          /\ allocs' \in [TxIds -> [Projects -> Nat]]
          /\ events' \subseteq Event
      BY <1>7, <2>1 DEF Commit, TypeOK, Draft, Overlay
    <2>3. acked' \subseteq [cause : Messages, tx : TxIds]
      BY <1>7, <2>1 DEF Commit, TypeOK
    <2> QED BY <1>7, <2>2, <2>3, EndSessionType DEF Commit, TypeOK
  <1>8. CASE RewriteRow(s)
    <2> DEFINE posted == {j \in Overlay(journals, draft[s].journals) :
                            j.tx = draft[s].tx /\ j.status = "POSTED"}
               void == {[j EXCEPT !.status = "VOID"] : j \in posted}
    <2>1. posted \subseteq Journal
      BY DEF TypeOK, Draft, Overlay
    <2>2. void \subseteq Journal
      BY <2>1 DEF Journal
    <2>3. Overlay(draft[s].journals, void) \subseteq Journal
      BY <2>2 DEF Overlay, TypeOK, Draft
    <2>4. draft' \in [Sessions -> Draft]
      <3> DEFINE w == IF req[s].kind = "update"
                      THEN [status |-> "live", type |-> req[s].type, amount |-> req[s].amount]
                      ELSE [draft[s].row EXCEPT !.status = "deleted"]
                 J == Overlay(draft[s].journals, void)
      <3>1. draft' = [draft EXCEPT ![s] = [[draft[s] EXCEPT !.row = w] EXCEPT !.journals = J]]
        BY <1>8 DEF RewriteRow, TypeOK
      <3>2. w \in Row
        <4>1. draft[s].row \in Row /\ req[s] \in Request
          BY DEF TypeOK, Draft
        <4>2. [draft[s].row EXCEPT !.status = "deleted"] \in Row
          BY <4>1 DEF Row
        <4>3. [status |-> "live", type |-> req[s].type, amount |-> req[s].amount] \in Row
          BY <4>1 DEF Row, Request
        <4> QED BY <4>2, <4>3
      <3> QED BY <3>1, <3>2, <2>3, DraftFields DEF TypeOK
    <2> QED BY <1>8, <2>4 DEF RewriteRow, TypeOK, Labels
  <1> QED BY <1>1, <1>2, <1>3, <1>4, <1>5, <1>6, <1>7, <1>8 DEF WriteStep

\* Taking the row lock, the event of a projects call and a failure keep the types.
LEMMA OtherType ==
  ASSUME IInv, NEW s \in Sessions,
         LockStep(s) \/ AppendProjectEvent(s) \/ Fail(s)
  PROVE  TypeOK'
  <1> USE DEF IInv, ledger, projectVars, locks, Goto
  <1>s. Shape(s)
    BY DEF SessionOK
  <1>1. CASE EnsureAccounts(s)
    BY <1>1 DEF EnsureAccounts, TypeOK, Labels
  <1>2. CASE LockRow(s)
    <2>1. CASE Rollback(s)
      BY <2>1, RollbackType
    <2>2. CASE ~ Rollback(s)
      <3> DEFINE t == req[s].tx
      <3>1. t \in TxIds
        <4>1. pc[s] = "lock" /\ req[s].kind \in {"none", "create", "update", "delete"}
          BY <1>2 DEF LockRow, TypeOK, Request
        <4> QED BY <4>1, <1>s DEF Shape, LabelsOf
      <3>2. draft' = [draft EXCEPT ![s] = [[draft[s] EXCEPT !.tx = t] EXCEPT !.row = rows[t]]]
        BY <1>2, <2>2 DEF LockRow, TypeOK
      <3>3. draft' \in [Sessions -> Draft]
        BY <3>1, <3>2, DraftFields DEF TypeOK
      <3> QED BY <1>2, <2>2, <3>1, <3>3 DEF LockRow, TypeOK, Labels
    <2> QED BY <2>1, <2>2
  <1>3. CASE AppendProjectEvent(s)
    BY <1>3 DEF AppendProjectEvent, TypeOK, Labels
  <1>4. CASE Fail(s)
    BY <1>4, RollbackType DEF Fail
  <1> QED BY <1>1, <1>2, <1>3, <1>4 DEF LockStep

-----------------------------------------------------------------------------
(* Steps that leave rows and entries alone.                                 *)

\* What the step of one session leaves to the others.
Apart(s) ==
  \A r \in Sessions \ {s} :
    /\ pc'[r] = pc[r] /\ req'[r] = req[r] /\ draft'[r] = draft[r]
    /\ \A t \in TxIds : rowLock[t] = r => rowLock'[t] = r
    /\ cashLock = r => cashLock' = r
    /\ pc[r] \in Writing /\ req[r].kind = "create" => draft'[s].tx # draft[r].tx

\* A step of s that leaves the committed tables alone, and takes nothing from
\* another session, keeps every other session's part of the invariant.
LEMMA QuietStep ==
  ASSUME IInv, TypeOK', NEW s \in Sessions, Apart(s), SessionOK(s)', AnswersAgree',
         UNCHANGED <<rows, journals, events>>
  PROVE  IInv'
  <1>1. ASSUME NEW r \in Sessions PROVE SessionOK(r)'
    <2>1. CASE r = s
      BY <2>1
    <2>2. CASE r # s
      <3> USE <2>2 DEF Apart
      <3>1. SessionOK(r)
        BY DEF IInv
      <3>2. Shape(r)' /\ OwnsCash(r)' /\ DraftEvent(r)'
        BY <3>1 DEF SessionOK, Shape, OwnsCash, HoldsCash, Entered, DraftEvent
      <3>3. OwnsRow(r)'
        BY <3>1 DEF SessionOK, OwnsRow, Shape
      <3>4. DraftRow(r)' /\ DraftEntries(r)' /\ DraftCovers(r)' /\ CauseReserved(r)'
        BY <3>1 DEF SessionOK, DraftRow, DraftEntries, DraftCovers, CauseReserved, Rewritten,
          Entered, NewRow, DraftPosted, Posted, JournalCauseTaken
      <3> QED BY <3>2, <3>3, <3>4 DEF SessionOK
    <2> QED BY <2>1, <2>2
  <1>2. RecordedHasEntry' /\ BooksMatchRows' /\ OneRecordPerCause'
    BY DEF IInv, RecordedHasEntry, BooksMatchRows, OneRecordPerCause, RecordedAs,
      JournalCauseTaken, Posted
  <1> QED BY <1>1, <1>2 DEF IInv

\* AnswersAgree reads only the events and the answers.
LEMMA AnswersKept ==
  ASSUME AnswersAgree, UNCHANGED <<events, acked>>
  PROVE  AnswersAgree'
  BY DEF AnswersAgree, RecordedAs

\* A session without a transaction of its own.
LEMMA Idling ==
  ASSUME NEW s \in Sessions, pc'[s] \in {"idle", "lookup", "insert", "lock", "project"},
         draft'[s] = NoDraft, Shape(s)'
  PROVE  SessionOK(s)'
  BY DEF SessionOK, Shape, OwnsRow, OwnsCash, DraftRow, DraftEntries, DraftCovers,
    CauseReserved, DraftEvent, Writing, Entered, Rewritten, HoldsCash, DraftPosted, NoDraft

\* A session that ends is in order.
LEMMA EndSessionOK ==
  ASSUME IInv, NEW s \in Sessions, EndSession(s)
  PROVE  SessionOK(s)' /\ Apart(s)
  <1>1. pc'[s] = "idle" /\ req'[s] = NoReq /\ draft'[s] = NoDraft
    BY DEF IInv, TypeOK, EndSession, Goto
  <1>2. Shape(s)'
    BY <1>1, CausesAssumption DEF Shape, NoReq, LabelsOf, Writing
  <1>3. ASSUME NEW r \in Sessions, pc[r] \in Writing
        PROVE  draft'[s].tx # draft[r].tx
    BY <1>1, <1>3, TxIdsAssumption DEF IInv, SessionOK, Shape, NoDraft
  <1>4. Apart(s)
    BY <1>3, SessionsAssumption DEF Apart, EndSession, Goto, IInv, TypeOK
  <1> QED BY <1>1, <1>2, <1>4, Idling

\* A rollback keeps the invariant.
LEMMA RollbackInv ==
  ASSUME IInv, NEW s \in Sessions, Rollback(s)
  PROVE  IInv'
  <1>1. TypeOK'
    BY RollbackType DEF IInv
  <1>2. SessionOK(s)' /\ Apart(s)
    BY EndSessionOK DEF Rollback
  <1>3. AnswersAgree'
    BY AnswersKept DEF IInv, Rollback, ledger
  <1> QED BY <1>1, <1>2, <1>3, QuietStep DEF Rollback, ledger

\* So does the start of a call.
LEMMA CallInv ==
  ASSUME IInv, NEW s \in Sessions, Call(s)
  PROVE  IInv'
  <1>1. TypeOK'
    BY CallType DEF IInv
  <1>2. pc[s] = "idle" /\ UNCHANGED <<ledger, locks, draft, acked>>
    BY DEF Call, BeginCreate, BeginUpdate, BeginDelete, CreateProject, UpdateProject,
      DeleteProject, MutateProject, Begin
  <1>3. draft'[s] = NoDraft
    BY <1>2 DEF IInv, SessionOK, Shape, Writing
  <1>4. Shape(s)' /\ pc'[s] \in {"lookup", "insert", "lock", "project"}
    <2>1. CASE BeginCreate(s)
      BY <2>1, <1>3 DEF BeginCreate, Begin, Goto, Shape, IInv, TypeOK, LabelsOf, Writing
    <2>2. CASE BeginUpdate(s)
      BY <2>2, <1>3, CausesAssumption
      DEF BeginUpdate, Begin, Goto, Shape, IInv, TypeOK, LabelsOf, Writing
    <2>3. CASE BeginDelete(s)
      BY <2>3, <1>3, CausesAssumption
      DEF BeginDelete, Begin, Goto, Shape, IInv, TypeOK, LabelsOf, Writing
    <2>4. CASE CreateProject(s) \/ UpdateProject(s) \/ DeleteProject(s)
      <3>1. pc'[s] = "project" /\ req'[s] = req[s]
        BY <2>4 DEF CreateProject, UpdateProject, DeleteProject, MutateProject, Goto, IInv, TypeOK
      <3>2. req[s].kind = "none"
        <4>1. req[s].kind \in {"none", "create", "update", "delete"}
          BY DEF IInv, TypeOK, Request
        <4> QED BY <4>1, <1>2 DEF IInv, SessionOK, Shape, LabelsOf
      <3> QED BY <3>1, <3>2, <1>3 DEF IInv, SessionOK, Shape, LabelsOf, Writing
    <2> QED BY <2>1, <2>2, <2>3, <2>4 DEF Call
  <1>5. Apart(s)
    <2>1. \A r \in Sessions \ {s} : pc'[r] = pc[r] /\ req'[r] = req[r]
      BY DEF Call, BeginCreate, BeginUpdate, BeginDelete, CreateProject, UpdateProject,
        DeleteProject, MutateProject, Begin, Goto, IInv, TypeOK
    <2>2. ASSUME NEW r \in Sessions, pc[r] \in Writing PROVE draft'[s].tx # draft[r].tx
      BY <1>3, <2>2, TxIdsAssumption DEF IInv, SessionOK, Shape, NoDraft
    <2> QED BY <1>2, <2>1, <2>2 DEF Apart, locks
  <1>6. SessionOK(s)'
    BY <1>3, <1>4, Idling
  <1> QED BY <1>1, <1>2, <1>5, <1>6, QuietStep, AnswersKept DEF IInv, ledger

\* So does findExisting, which only reads.
LEMMA LookupInv ==
  ASSUME IInv, NEW s \in Sessions, LookupCause(s)
  PROVE  IInv'
  <1>1. TypeOK'
    BY WriteType DEF WriteStep
  <1>2. CASE RecordedAs(req[s].cause) = {}
    <2>1. /\ pc' = [pc EXCEPT ![s] = "insert"]
          /\ UNCHANGED <<ledger, locks, req, draft, acked>>
      BY <1>2 DEF LookupCause, Goto
    <2>2. pc[s] = "lookup" /\ draft[s] = NoDraft /\ Shape(s)
      BY DEF LookupCause, IInv, SessionOK, Shape, Writing
    <2>3. req[s].kind = "create"
      <3>1. req[s].kind \in {"none", "create", "update", "delete"}
        BY DEF IInv, TypeOK, Request
      <3> QED BY <3>1, <2>2 DEF Shape, LabelsOf
    <2>4. Shape(s)' /\ pc'[s] = "insert" /\ draft'[s] = NoDraft
      BY <2>1, <2>2, <2>3 DEF Shape, LabelsOf, Writing, IInv, TypeOK
    <2>5. Apart(s)
      BY <2>1, <2>2, TxIdsAssumption
      DEF Apart, locks, IInv, TypeOK, SessionOK, Shape, NoDraft
    <2> QED BY <1>1, <2>1, <2>4, <2>5, Idling, QuietStep, AnswersKept DEF IInv, ledger
  <1>3. CASE RecordedAs(req[s].cause) # {}
    <2>1. PICK e \in RecordedAs(req[s].cause) :
            acked' = acked \cup {[cause |-> req[s].cause, tx |-> e.tx]}
      BY <1>3 DEF LookupCause
    <2>2. EndSession(s) /\ UNCHANGED ledger
      BY <1>3 DEF LookupCause
    <2>3. req[s].cause \in Messages
      BY <2>1 DEF RecordedAs, IInv, TypeOK, Event
    <2>4. \A f \in RecordedAs(req[s].cause) : f = e
      BY <2>1, <2>3 DEF IInv, OneRecordPerCause
    <2>5. AnswersAgree'
      BY <2>1, <2>2, <2>4 DEF IInv, AnswersAgree, RecordedAs, ledger
    <2> QED BY <1>1, <2>2, <2>5, EndSessionOK, QuietStep DEF ledger
  <1> QED BY <1>2, <1>3

\* Where a session stands tells which kind of request it serves.
LEMMA KindOf ==
  ASSUME IInv, NEW s \in Sessions
  PROVE  /\ req[s].kind \in {"none", "create", "update", "delete"}
         /\ pc[s] \in {"insert", "lookup"} => req[s].kind = "create"
         /\ pc[s] = "lock" => req[s].kind \in {"update", "delete"}
         /\ pc[s] \in {"accounts", "journal", "validate"} => req[s].kind \in {"create", "update"}
         /\ pc[s] = "rewrite" => req[s].kind \in {"update", "delete"}
         /\ pc[s] \in {"allocate", "event", "commit"} =>
              req[s].kind \in {"create", "update", "delete"}
  <1>1. req[s].kind \in {"none", "create", "update", "delete"}
    BY DEF IInv, TypeOK, Request
  <1> QED BY <1>1 DEF IInv, SessionOK, Shape, LabelsOf

\* A step that moves a session with writes on, and keeps its row.
LEMMA WritingOn ==
  ASSUME IInv, NEW s \in Sessions, pc[s] \in Writing,
         UNCHANGED <<rowLock, req>>,
         \A r \in Sessions \ {s} : pc'[r] = pc[r] /\ draft'[r] = draft[r],
         cashLock' \in {cashLock, s}, cashLock \in Sessions => cashLock' = cashLock,
         draft'[s].tx = draft[s].tx
  PROVE  Apart(s)
  BY DEF Apart, IInv, SessionOK, OwnsRow

\* INSERT INTO transactions under a fresh id.
LEMMA InsertRowInv ==
  ASSUME IInv, NEW s \in Sessions, InsertRow(s)
  PROVE  IInv'
  <1>1. TypeOK'
    BY WriteType DEF WriteStep
  <1> DEFINE w == [status |-> "live", type |-> req[s].type, amount |-> req[s].amount]
  <1>2. PICK t \in TxIds : UnusedTx(t) /\ draft' = [draft EXCEPT ![s].tx = t, ![s].row = w]
    BY DEF InsertRow
  <1>3. /\ pc[s] = "insert" /\ pc' = [pc EXCEPT ![s] = "accounts"]
        /\ UNCHANGED <<rows, journals, events, rowLock, cashLock, req, acked>>
    BY DEF InsertRow, Goto, ledger, locks
  <1>4. draft[s] = NoDraft /\ req[s].kind = "create" /\ Shape(s)
    BY <1>3, KindOf DEF IInv, SessionOK, Shape, Writing
  <1>5. /\ draft'[s].tx = t /\ draft'[s].row = w
        /\ draft'[s].journals = {} /\ draft'[s].events = {}
        /\ \A r \in Sessions \ {s} : draft'[r] = draft[r]
    BY <1>2, <1>4 DEF NoDraft, IInv, TypeOK
  <1>6. pc'[s] = "accounts" /\ \A r \in Sessions \ {s} : pc'[r] = pc[r]
    BY <1>3 DEF IInv, TypeOK
  <1>7. Apart(s)
    BY <1>2, <1>3, <1>5, <1>6 DEF Apart, UnusedTx
  <1>8. Shape(s)'
    BY <1>3, <1>4, <1>5, <1>6 DEF Shape, LabelsOf, Writing
  <1>9. OwnsRow(s)'
    BY <1>2, <1>3, <1>4, <1>5 DEF OwnsRow, UnusedTx
  <1>10. Posted(t) = {}
    BY <1>2 DEF IInv, BooksMatchRows, UnusedTx
  <1>11. SessionOK(s)'
    BY <1>3, <1>4, <1>5, <1>6, <1>8, <1>9, <1>10
    DEF SessionOK, OwnsCash, DraftRow, DraftEntries, DraftCovers, CauseReserved, DraftEvent,
      Writing, Entered, Rewritten, HoldsCash, DraftPosted, NewRow, Posted
  <1> QED BY <1>1, <1>3, <1>7, <1>11, QuietStep, AnswersKept DEF IInv

\* ensureAccount: the upsert that takes the cash account's row lock.
LEMMA EnsureAccountsInv ==
  ASSUME IInv, NEW s \in Sessions, EnsureAccounts(s)
  PROVE  IInv'
  <1>1. TypeOK'
    BY OtherType DEF LockStep
  <1>2. /\ pc[s] = "accounts" /\ cashLock = Free /\ cashLock' = s
        /\ pc' = [pc EXCEPT ![s] = "journal"]
        /\ UNCHANGED <<rows, journals, events, rowLock, req, draft, acked>>
    BY DEF EnsureAccounts, Goto, ledger
  <1>3. pc'[s] = "journal" /\ \A r \in Sessions \ {s} : pc'[r] = pc[r]
    BY <1>2 DEF IInv, TypeOK
  <1>4. req[s].kind \in {"create", "update"} /\ SessionOK(s)
    BY <1>2, KindOf DEF IInv
  <1>5. Apart(s)
    BY <1>2, <1>3, SessionsAssumption, WritingOn DEF Writing
  <1>6. Shape(s)' /\ OwnsRow(s)' /\ OwnsCash(s)' /\ DraftEvent(s)'
    BY <1>2, <1>3, <1>4
    DEF SessionOK, Shape, OwnsRow, OwnsCash, DraftEvent, LabelsOf, Writing
  <1>7. DraftRow(s)' /\ DraftEntries(s)' /\ DraftCovers(s)' /\ CauseReserved(s)'
    BY <1>2, <1>3, <1>4
    DEF SessionOK, DraftRow, DraftEntries, DraftCovers, CauseReserved, Writing,
      Entered, Rewritten, DraftPosted, NewRow, Posted
  <1> QED BY <1>1, <1>2, <1>5, <1>6, <1>7, QuietStep, AnswersKept DEF IInv, SessionOK

\* The insert of the journal entry, or its unique violation.
LEMMA InsertJournalInv ==
  ASSUME IInv, NEW s \in Sessions, InsertJournal(s)
  PROVE  IInv'
  <1>1. CASE Rollback(s)
    BY <1>1, RollbackInv
  <1>2. CASE ~ Rollback(s)
    <2>1. TypeOK'
      BY WriteType DEF WriteStep
    <2> DEFINE entry == [tx |-> draft[s].tx, cause |-> req[s].cause, type |-> req[s].type,
                         amount |-> req[s].amount, status |-> "POSTED"]
               next == IF req[s].kind = "create" THEN "validate" ELSE "allocate"
    <2>2. /\ pc[s] = "journal" /\ ~ JournalCauseTaken(req[s].cause)
          /\ draft' = [draft EXCEPT ![s].journals = Overlay(@, {entry})]
          /\ pc' = [pc EXCEPT ![s] = next]
          /\ UNCHANGED <<rows, journals, events, rowLock, cashLock, req, acked>>
      BY <1>2 DEF InsertJournal, Goto, ledger, locks
    <2>3. /\ pc'[s] = next /\ \A r \in Sessions \ {s} : pc'[r] = pc[r] /\ draft'[r] = draft[r]
          /\ draft'[s].journals = Overlay(draft[s].journals, {entry})
          /\ draft'[s].tx = draft[s].tx /\ draft'[s].row = draft[s].row
          /\ draft'[s].events = draft[s].events
      BY <2>2 DEF IInv, TypeOK, Draft
    <2>4. req[s].kind \in {"create", "update"} /\ SessionOK(s)
      BY <2>2, KindOf DEF IInv
    <2>5. Apart(s)
      BY <2>2, <2>3, WritingOn DEF Writing
    <2>6. Shape(s)' /\ OwnsRow(s)' /\ OwnsCash(s)' /\ DraftEvent(s)'
      BY <2>2, <2>3, <2>4
      DEF SessionOK, Shape, OwnsRow, OwnsCash, DraftEvent, LabelsOf, Writing, HoldsCash, Entered
    <2>7. DraftRow(s)' /\ CauseReserved(s)'
      BY <2>2, <2>3, <2>4
      DEF SessionOK, DraftRow, CauseReserved, Rewritten, Writing, NewRow, JournalCauseTaken
    <2>8. DraftPosted(s) = {} /\ Entered(s)' /\ Rewritten(s) /\ Rewritten(s)'
      BY <2>2, <2>3, <2>4 DEF SessionOK, DraftEntries, Entered, Rewritten, Writing
    <2>9. \A k \in draft'[s].journals : k = entry \/ k \in draft[s].journals
      BY <2>3 DEF Overlay
    <2>10. entry \in draft'[s].journals /\ DraftPosted(s)' = {entry}
      BY <2>3, <2>8, <2>9 DEF Overlay, DraftPosted
    <2>f. draft'[s].tx = draft[s].tx /\ UNCHANGED <<journals, req>>
      BY <2>2, <2>3
    <2>g. DraftEntries(s) /\ DraftCovers(s)
      BY <2>4 DEF SessionOK
    <2>11. DraftEntries(s)'
      <3>1. \A k \in draft[s].journals : k.tx = draft[s].tx
        BY <2>g DEF DraftEntries
      <3>2. \A k \in draft[s].journals \ DraftPosted(s) : \E j \in journals : j.cause = k.cause
        BY <2>g DEF DraftEntries
      <3>3. \A k \in draft'[s].journals : k.tx = draft'[s].tx
        BY <3>1, <2>f, <2>9
      <3>4. \A k \in draft'[s].journals \ {entry} : \E j \in journals' : j.cause = k.cause
        BY <3>2, <2>8, <2>9, <2>f
      <3>5. \A k \in {entry} :
              k.cause = req'[s].cause /\ k.type = req'[s].type /\ k.amount = req'[s].amount
        BY <2>f
      <3>6. {entry} # {}
        OBVIOUS
      <3> HIDE DEF entry
      <3> QED BY <2>8, <2>10, <3>3, <3>4, <3>5, <3>6 DEF DraftEntries
    <2>12. \A k \in draft[s].journals : \E l \in draft'[s].journals : SameEntry(k, l)
      BY <2>3 DEF Overlay, SameEntry
    <2>13. DraftCovers(s)'
      <3>1. ASSUME NEW j \in Posted(draft[s].tx)
            PROVE  \E l \in draft'[s].journals : SameEntry(j, l)
        <4>1. PICK k \in draft[s].journals : SameEntry(j, k)
          BY <2>g, <2>8 DEF DraftCovers
        <4>2. PICK l \in draft'[s].journals : SameEntry(k, l)
          BY <2>12
        <4> QED BY <4>1, <4>2 DEF SameEntry
      <3>2. Posted(draft[s].tx)' = Posted(draft[s].tx)
        BY <2>f DEF Posted
      <3> QED BY <3>1, <3>2 DEF DraftCovers, SameEntry
    <2> QED BY <2>1, <2>2, <2>5, <2>6, <2>7, <2>11, <2>13, QuietStep, AnswersKept
            DEF IInv, SessionOK
  <1> QED BY <1>1, <1>2

\* Steps of a session that change nothing of its draft but its allocations.
LEMMA PassInv ==
  ASSUME IInv, NEW s \in Sessions, NEW next \in {"allocate", "rewrite", "event"}, TypeOK',
         pc[s] \in {"validate", "allocate"},
         next = "event" <=> pc[s] = "allocate",
         next = "rewrite" <=> pc[s] = "validate" /\ req[s].kind = "update",
         pc' = [pc EXCEPT ![s] = next],
         \A r \in Sessions \ {s} : draft'[r] = draft[r],
         draft'[s].tx = draft[s].tx, draft'[s].row = draft[s].row,
         draft'[s].journals = draft[s].journals, draft'[s].events = draft[s].events,
         UNCHANGED <<rows, journals, events, rowLock, cashLock, req, acked>>
  PROVE  IInv'
  <1>1. pc'[s] = next /\ \A r \in Sessions \ {s} : pc'[r] = pc[r]
    BY DEF IInv, TypeOK
  <1>2. SessionOK(s) /\ req[s].kind \in {"create", "update", "delete"}
    BY KindOf DEF IInv
  <1>3. pc[s] = "validate" => req[s].kind \in {"create", "update"}
    BY KindOf
  <1>4. Apart(s)
    BY <1>1, WritingOn DEF Writing
  <1>5. Shape(s)' /\ OwnsRow(s)' /\ OwnsCash(s)' /\ DraftEvent(s)'
    BY <1>1, <1>2, <1>3
    DEF SessionOK, Shape, OwnsRow, OwnsCash, DraftEvent, LabelsOf, Writing, HoldsCash, Entered
  <1>6. DraftRow(s)' /\ DraftEntries(s)' /\ DraftCovers(s)' /\ CauseReserved(s)'
    BY <1>1, <1>2, <1>3
    DEF SessionOK, DraftRow, DraftEntries, DraftCovers, CauseReserved, Writing,
      Entered, Rewritten, DraftPosted, NewRow, Posted, JournalCauseTaken
  <1> QED BY <1>4, <1>5, <1>6, QuietStep, AnswersKept DEF IInv, SessionOK

\* validateAllocations only reads.
LEMMA ValidateInv ==
  ASSUME IInv, NEW s \in Sessions, ValidateAllocations(s)
  PROVE  IInv'
  <1>1. CASE Rollback(s)
    BY <1>1, RollbackInv
  <1>2. CASE ~ Rollback(s)
    <2> DEFINE next == IF req[s].kind = "create" THEN "allocate" ELSE "rewrite"
    <2>1. /\ pc[s] = "validate" /\ pc' = [pc EXCEPT ![s] = next]
          /\ UNCHANGED <<rows, journals, events, rowLock, cashLock, req, draft, acked>>
      BY <1>2 DEF ValidateAllocations, Goto, ledger, locks
    <2>2. TypeOK'
      BY WriteType DEF WriteStep
    <2>3. req[s].kind \in {"create", "update"}
      BY <2>1, KindOf
    <2> QED BY <2>1, <2>2, <2>3, PassInv
  <1> QED BY <1>1, <1>2

\* insertAllocations writes the draft's allocations only.
LEMMA InsertAllocationsInv ==
  ASSUME IInv, NEW s \in Sessions, InsertAllocations(s)
  PROVE  IInv'
  <1>1. /\ pc[s] = "allocate" /\ pc' = [pc EXCEPT ![s] = "event"]
        /\ draft' = [draft EXCEPT ![s].allocs = AllocationRows(req[s].allocs)]
        /\ UNCHANGED <<rows, journals, events, rowLock, cashLock, req, acked>>
    BY DEF InsertAllocations, Goto, ledger, locks
  <1>2. /\ draft'[s].tx = draft[s].tx /\ draft'[s].row = draft[s].row
        /\ draft'[s].journals = draft[s].journals /\ draft'[s].events = draft[s].events
        /\ \A r \in Sessions \ {s} : draft'[r] = draft[r]
    BY <1>1 DEF IInv, TypeOK, Draft
  <1>3. TypeOK'
    BY WriteType DEF WriteStep
  <1> QED BY <1>1, <1>2, <1>3, PassInv

\* The insert of the ledger event takes the next id of its sequence.
LEMMA InsertEventInv ==
  ASSUME IInv, NEW s \in Sessions, InsertEvent(s)
  PROVE  IInv'
  <1>1. TypeOK'
    BY WriteType DEF WriteStep
  <1> DEFINE event == [id |-> nextEvent, kind |-> EventKind[req[s].kind],
                cause |-> IF req[s].kind = "create" THEN req[s].cause ELSE NoCause,
                tx |-> draft[s].tx, type |-> req[s].type, amount |-> req[s].amount]
  <1>2. /\ pc[s] = "event" /\ pc' = [pc EXCEPT ![s] = "commit"]
        /\ draft' = [draft EXCEPT ![s].events = {event}]
        /\ UNCHANGED <<rows, journals, events, rowLock, cashLock, req, acked>>
    BY DEF InsertEvent, Goto, ledger, locks
  <1>3. /\ pc'[s] = "commit" /\ \A r \in Sessions \ {s} : pc'[r] = pc[r] /\ draft'[r] = draft[r]
        /\ draft'[s].events = {event}
        /\ draft'[s].tx = draft[s].tx /\ draft'[s].row = draft[s].row
        /\ draft'[s].journals = draft[s].journals
    BY <1>2 DEF IInv, TypeOK, Draft
  <1>4. SessionOK(s) /\ req[s].kind \in {"create", "update", "delete"}
    BY <1>2, KindOf DEF IInv
  <1>5. Apart(s)
    BY <1>2, <1>3, WritingOn DEF Writing
  <1>6. Shape(s)' /\ OwnsRow(s)' /\ OwnsCash(s)' /\ DraftEvent(s)'
    <2>1. Shape(s)' /\ OwnsRow(s)' /\ OwnsCash(s)'
      BY <1>2, <1>3, <1>4
      DEF SessionOK, Shape, OwnsRow, OwnsCash, LabelsOf, Writing, HoldsCash, Entered
    <2>2. event.kind = EventKind[req[s].kind] /\ event.tx = draft[s].tx
          /\ event.cause = IF req[s].kind = "create" THEN req[s].cause ELSE NoCause
      OBVIOUS
    <2>3. UNCHANGED req /\ pc'[s] = "commit" /\ draft'[s].events = {event}
          /\ draft'[s].tx = draft[s].tx
      BY <1>2, <1>3
    <2> HIDE DEF event
    <2>4. DraftEvent(s)'
      BY <2>2, <2>3 DEF DraftEvent
    <2> QED BY <2>1, <2>4
  <1>7. (Entered(s)' <=> Entered(s)) /\ Rewritten(s) /\ Rewritten(s)' /\ pc[s] \in Writing
    BY <1>2, <1>3, <1>4 DEF Entered, Rewritten, Writing
  <1>f. /\ UNCHANGED <<rows, journals, req>>
        /\ draft'[s].tx = draft[s].tx /\ draft'[s].row = draft[s].row
        /\ draft'[s].journals = draft[s].journals
    BY <1>2, <1>3
  <1>8. DraftRow(s)' /\ DraftCovers(s)' /\ CauseReserved(s)'
    BY <1>4, <1>7, <1>f
    DEF SessionOK, DraftRow, DraftCovers, CauseReserved, NewRow, Posted, JournalCauseTaken
  <1>9. DraftEntries(s)'
    BY <1>2, <1>3, <1>4, <1>7 DEF SessionOK, DraftEntries, DraftPosted
  <1> QED BY <1>1, <1>2, <1>5, <1>6, <1>8, <1>9, QuietStep, AnswersKept DEF IInv, SessionOK

\* SELECT ... FOR UPDATE of an edit or a deletion.
LEMMA LockRowInv ==
  ASSUME IInv, NEW s \in Sessions, LockRow(s)
  PROVE  IInv'
  <1>1. CASE Rollback(s)
    BY <1>1, RollbackInv
  <1>2. CASE ~ Rollback(s)
    <2>1. TypeOK'
      BY OtherType DEF LockStep
    <2> DEFINE t == req[s].tx
               next == IF req[s].kind = "update" THEN "validate" ELSE "rewrite"
    <2>2. /\ pc[s] = "lock" /\ rowLock[t] = Free /\ rows[t].status = "live"
          /\ rowLock' = [rowLock EXCEPT ![t] = s]
          /\ draft' = [draft EXCEPT ![s].tx = t, ![s].row = rows[t]]
          /\ pc' = [pc EXCEPT ![s] = next]
          /\ UNCHANGED <<rows, journals, events, cashLock, req, acked>>
      BY <1>2 DEF LockRow, Goto, ledger
    <2>3. req[s].kind \in {"update", "delete"} /\ Shape(s) /\ draft[s] = NoDraft
      BY <2>2, KindOf DEF IInv, SessionOK, Shape, Writing
    <2>4. t \in TxIds
      BY <2>3 DEF Shape
    <2>5. /\ draft'[s].tx = t /\ draft'[s].row = rows[t] /\ draft'[s].journals = {} /\ draft'[s].events = {}
          /\ \A r \in Sessions \ {s} : draft'[r] = draft[r]
      BY <2>2, <2>3 DEF NoDraft, IInv, TypeOK
    <2>6. /\ pc'[s] = next /\ \A r \in Sessions \ {s} : pc'[r] = pc[r]
          /\ rowLock'[t] = s /\ \A u \in TxIds \ {t} : rowLock'[u] = rowLock[u]
      BY <2>2, <2>4 DEF IInv, TypeOK
    <2>7. ASSUME NEW r \in Sessions, pc[r] \in Writing, req[r].kind = "create"
          PROVE  draft'[s].tx # draft[r].tx
      BY <2>2, <2>5, <2>7 DEF IInv, SessionOK, OwnsRow
    <2>8. Apart(s)
      BY <2>2, <2>5, <2>6, <2>7, SessionsAssumption DEF Apart
    <2>9. Shape(s)' /\ OwnsRow(s)' /\ OwnsCash(s)' /\ DraftEvent(s)'
      <3>1. /\ pc'[s] \in {"validate", "rewrite"} /\ pc'[s] \in LabelsOf[req[s].kind]
            /\ req' = req
        BY <2>2, <2>3, <2>6 DEF LabelsOf
      <3>2. Shape(s)'
        BY <2>3, <2>4, <2>5, <3>1 DEF Shape, Writing
      <3>3. OwnsRow(s)'
        BY <2>2, <2>3, <2>4, <2>5, <2>6 DEF OwnsRow
      <3>4. OwnsCash(s)' /\ DraftEvent(s)'
        BY <2>3, <2>5, <3>1 DEF OwnsCash, DraftEvent, HoldsCash, Entered
      <3> QED BY <3>2, <3>3, <3>4
    <2>10. DraftRow(s)' /\ DraftEntries(s)' /\ DraftCovers(s)' /\ CauseReserved(s)'
      BY <2>3, <2>5, <2>6, <2>2
      DEF DraftRow, DraftEntries, DraftCovers, CauseReserved, Entered, Rewritten, DraftPosted
    <2> QED BY <2>1, <2>2, <2>8, <2>9, <2>10, QuietStep, AnswersKept DEF IInv, SessionOK
  <1> QED BY <1>1, <1>2

\* UPDATE of the row together with the VOID of its posted entries.
LEMMA RewriteRowInv ==
  ASSUME IInv, NEW s \in Sessions, RewriteRow(s)
  PROVE  IInv'
  <1>1. TypeOK'
    BY WriteType DEF WriteStep
  <1> DEFINE d == draft[s]
             isUpdate == req[s].kind = "update"
             posted == {j \in Overlay(journals, d.journals) : j.tx = d.tx /\ j.status = "POSTED"}
             void == {[j EXCEPT !.status = "VOID"] : j \in posted}
             next == IF isUpdate THEN "accounts" ELSE "allocate"
             row == IF isUpdate
                    THEN [status |-> "live", type |-> req[s].type, amount |-> req[s].amount]
                    ELSE [d.row EXCEPT !.status = "deleted"]
  <1>2. /\ pc[s] = "rewrite" /\ pc' = [pc EXCEPT ![s] = next]
        /\ draft' = [draft EXCEPT ![s].row = row, ![s].journals = Overlay(@, void)]
        /\ UNCHANGED <<rows, journals, events, rowLock, cashLock, req, acked>>
    BY DEF RewriteRow, Goto, ledger, locks
  <1>3. /\ pc'[s] = next /\ \A r \in Sessions \ {s} : pc'[r] = pc[r] /\ draft'[r] = draft[r]
        /\ draft'[s].row = row /\ draft'[s].journals = Overlay(d.journals, void)
        /\ draft'[s].tx = d.tx /\ draft'[s].events = d.events
    BY <1>2 DEF IInv, TypeOK, Draft
  <1>4. SessionOK(s) /\ req[s].kind \in {"update", "delete"}
    BY <1>2, KindOf DEF IInv
  <1>5. Apart(s)
    BY <1>2, <1>3, WritingOn DEF Writing
  <1>r. ~ Rewritten(s) /\ Rewritten(s)'
    BY <1>2, <1>3, <1>4 DEF Rewritten, Writing
  <1>6. Shape(s)' /\ OwnsRow(s)' /\ OwnsCash(s)' /\ DraftEvent(s)'
    <2>1. Shape(s)'
      BY <1>2, <1>3, <1>4 DEF SessionOK, Shape, LabelsOf, Writing
    <2>2. OwnsRow(s)'
      BY <1>2, <1>3, <1>4 DEF SessionOK, OwnsRow, Writing
    <2>3. OwnsCash(s)' /\ DraftEvent(s)'
      <3>1. draft'[s].events = {}
        BY <1>2, <1>3, <1>4 DEF SessionOK, DraftEvent
      <3>2. pc'[s] \in {"accounts", "allocate"} /\ pc'[s] = "allocate" => req'[s].kind = "delete"
        BY <1>2, <1>3, <1>4
      <3> QED BY <1>4, <3>1, <3>2, <1>2 DEF OwnsCash, DraftEvent, HoldsCash, Entered
    <2> QED BY <2>1, <2>2, <2>3
  <1>7. ~ Entered(s) /\ ~ Entered(s)' /\ DraftPosted(s) = {}
    BY <1>2, <1>3, <1>4 DEF Entered, SessionOK, DraftEntries
  <1>8. DraftRow(s)' /\ CauseReserved(s)'
    <2>1. draft[s].row = rows[draft[s].tx]
      BY <1>2, <1>4, <1>r DEF SessionOK, DraftRow, Writing
    <2> QED BY <1>2, <1>3, <1>4, <1>7, <1>r, <2>1 DEF DraftRow, CauseReserved, NewRow
  <1>9. d.journals = {} /\ posted = Posted(d.tx) /\ draft'[s].journals = void
    BY <1>3, <1>4, <1>r DEF SessionOK, DraftEntries, Overlay, Posted
  <1>10. /\ \A j \in posted : j \in journals /\ j \in Journal /\ j.tx = d.tx
         /\ \A k \in void : \E j \in posted :
              k.tx = j.tx /\ k.cause = j.cause /\ k.status = "VOID"
         /\ \A j \in posted : \E k \in void : SameEntry(j, k)
    <2>1. \A j \in posted : j \in journals /\ j \in Journal /\ j.tx = d.tx
      BY <1>9 DEF IInv, TypeOK, Posted
    <2>2. \A j \in posted : LET v == [j EXCEPT !.status = "VOID"] IN
            v.tx = j.tx /\ v.cause = j.cause /\ v.status = "VOID"
      BY <2>1 DEF Journal
    <2>3. \A k \in void : \E j \in posted :
            k.tx = j.tx /\ k.cause = j.cause /\ k.status = "VOID"
      BY <2>2
    <2>4. \A j \in posted : \E k \in void : SameEntry(j, k)
      <3> SUFFICES ASSUME NEW j \in posted PROVE \E k \in void : SameEntry(j, k)
        OBVIOUS
      <3>1. [j EXCEPT !.status = "VOID"] \in void
        OBVIOUS
      <3> QED BY <3>1, <2>2 DEF SameEntry
    <2> QED BY <2>1, <2>3, <2>4
  <1>11. DraftEntries(s)'
    <2>1. \A k \in draft'[s].journals : k.tx = draft'[s].tx /\ k.status = "VOID"
      BY <1>3, <1>9, <1>10
    <2>2. DraftPosted(s)' = {}
      BY <2>1 DEF DraftPosted
    <2>3. \A k \in draft'[s].journals : \E j \in journals' : j.cause = k.cause
      BY <1>2, <1>9, <1>10
    <2> QED BY <1>7, <1>r, <2>1, <2>2, <2>3 DEF DraftEntries
  <1>12. DraftCovers(s)'
    <2>1. Posted(d.tx)' = posted
      BY <1>2, <1>3, <1>9 DEF Posted
    <2> QED BY <1>9, <1>10, <2>1 DEF DraftCovers, SameEntry
  <1> QED BY <1>1, <1>2, <1>5, <1>6, <1>8, <1>11, <1>12, QuietStep, AnswersKept
          DEF IInv, SessionOK

-----------------------------------------------------------------------------
(* Commit, the one step that changes rows and entries.                      *)

\* What becomes visible: one row, the entries under it, one event.
LEMMA CommitEffect ==
  ASSUME IInv, NEW s \in Sessions, Commit(s)
  PROVE  /\ pc[s] = "commit" /\ SessionOK(s) /\ Rewritten(s)
         /\ req[s].kind \in {"create", "update", "delete"}
         /\ draft[s].tx \in TxIds
         /\ rows' = [rows EXCEPT ![draft[s].tx] = NewRow(s)]
         /\ journals' = Overlay(journals, draft[s].journals)
         /\ events' = events \cup draft[s].events
         /\ EndSession(s)
  <1>1. pc[s] = "commit" /\ SessionOK(s)
    BY DEF Commit, IInv
  <1>2. req[s].kind \in {"create", "update", "delete"}
    BY <1>1, KindOf
  <1>3. Rewritten(s) /\ draft[s].tx \in TxIds
    BY <1>1 DEF Rewritten, Writing, SessionOK, Shape
  <1>4. draft[s].row = NewRow(s)
    BY <1>1, <1>3 DEF SessionOK, DraftRow, Writing
  <1> QED BY <1>1, <1>2, <1>3, <1>4 DEF Commit

\* After a commit the committed entries of the row are those of its draft.
LEMMA CommitPosted ==
  ASSUME IInv, NEW s \in Sessions, Commit(s)
  PROVE  /\ \A t \in TxIds \ {draft[s].tx} :
              Posted(t)' = Posted(t)
         /\ \A j \in journals' : j.tx = draft[s].tx /\ j.status = "POSTED"
              <=> j \in DraftPosted(s)
  <1> USE CommitEffect
  <1>1. DraftEntries(s) /\ DraftCovers(s)
    BY DEF SessionOK
  <1>2. \A k \in draft[s].journals : k.tx = draft[s].tx
    BY <1>1 DEF DraftEntries
  <1>3. ASSUME NEW t \in TxIds \ {draft[s].tx} PROVE Posted(t)' = Posted(t)
    BY <1>2 DEF Posted, Overlay, SameEntry
  <1>4. ASSUME NEW j \in journals', j.tx = draft[s].tx, j.status = "POSTED"
        PROVE  j \in DraftPosted(s)
    <2>1. CASE j \in draft[s].journals
      BY <1>4, <2>1 DEF DraftPosted
    <2>2. CASE j \notin draft[s].journals
      <3>1. j \in Posted(draft[s].tx)
        BY <1>4, <2>2 DEF Overlay, Posted
      <3>2. PICK k \in draft[s].journals : SameEntry(j, k)
        BY <1>1, <3>1 DEF DraftCovers
      <3> QED BY <2>2, <3>2 DEF Overlay
    <2> QED BY <2>1, <2>2
  <1>5. \A j \in DraftPosted(s) : j.tx = draft[s].tx /\ j.status = "POSTED"
    BY <1>2 DEF DraftPosted
  <1> QED BY <1>3, <1>4, <1>5

\* A commit keeps books and rows together.
LEMMA CommitBooks ==
  ASSUME IInv, NEW s \in Sessions, Commit(s)
  PROVE  BooksMatchRows'
  <1> DEFINE u == draft[s].tx
  <1>e. /\ SessionOK(s) /\ pc[s] = "commit" /\ u \in TxIds
        /\ rows' = [rows EXCEPT ![u] = NewRow(s)]
        /\ req[s].kind \in {"create", "update", "delete"}
        /\ draft[s].journals \subseteq journals' /\ draft[s].journals \subseteq Journal
    BY CommitEffect DEF Overlay, IInv, TypeOK, Draft
  <1>p. DraftPosted(s) = {j \in journals' : j.tx = u /\ j.status = "POSTED"}
    BY CommitPosted, <1>e DEF DraftPosted
  <1> SUFFICES ASSUME NEW t \in TxIds
               PROVE  IF rows'[t].status = "live"
                      THEN \E j \in Posted(t)' :
                             /\ Posted(t)' = {j}
                             /\ j.type = rows'[t].type
                             /\ j.amount = rows'[t].amount
                      ELSE Posted(t)' = {}
    BY DEF BooksMatchRows
  <1>1. CASE t # u
    <2>1. rows'[t] = rows[t] /\ Posted(t)' = Posted(t)
      BY <1>1, <1>e, CommitPosted DEF IInv, TypeOK
    <2> QED BY <2>1 DEF IInv, BooksMatchRows
  <1>2. CASE t = u
    <2>1. rows'[t] = NewRow(s) /\ Posted(t)' = DraftPosted(s)
      BY <1>2, <1>e, <1>p DEF IInv, TypeOK, Posted
    <2>2. DraftPosted(s) # {} <=> req[s].kind # "delete"
      BY <1>e DEF SessionOK, DraftEntries, Entered
    <2>3. CASE req[s].kind = "delete"
      <3>1. NewRow(s).status = "deleted"
        BY <1>e, <2>3 DEF NewRow, IInv, TypeOK, Row
      <3> QED BY <2>1, <2>2, <2>3, <3>1
    <2>4. CASE req[s].kind # "delete"
      <3>1. PICK j \in DraftPosted(s) : TRUE
        BY <2>2, <2>4
      <3>2. \A k \in DraftPosted(s) :
              /\ k \in Journal /\ k.tx = u /\ k.status = "POSTED"
              /\ k.cause = req[s].cause /\ k.type = req[s].type /\ k.amount = req[s].amount
        BY <1>e DEF SessionOK, DraftEntries, DraftPosted
      <3>3. \A k \in DraftPosted(s) : k = j
        BY <3>1, <3>2 DEF Journal
      <3>4. NewRow(s) = [status |-> "live", type |-> req[s].type, amount |-> req[s].amount]
        BY <2>4 DEF NewRow
      <3>5. DraftPosted(s) = {j} /\ j.type = NewRow(s).type /\ j.amount = NewRow(s).amount
        BY <3>1, <3>2, <3>3, <3>4
      <3> QED BY <2>1, <3>4, <3>5
    <2> QED BY <2>3, <2>4
  <1> QED BY <1>1, <1>2

\* Causes stay taken, and the only one a commit adds is its own.
LEMMA CommitCauses ==
  ASSUME IInv, NEW s \in Sessions, Commit(s)
  PROVE  /\ \A j \in journals : \E k \in journals' : k.cause = j.cause
         /\ \A c : JournalCauseTaken(c)' =>
              JournalCauseTaken(c) \/ (Entered(s) /\ c = req[s].cause)
  <1> USE CommitEffect
  <1>1. DraftEntries(s)
    BY DEF SessionOK
  <1>2. \A j \in journals : \E k \in journals' : k.cause = j.cause
    BY DEF Overlay, SameEntry
  <1>3. ASSUME NEW c, JournalCauseTaken(c)', ~ JournalCauseTaken(c)
        PROVE  Entered(s) /\ c = req[s].cause
    <2>1. PICK k \in journals' : k.cause = c
      BY <1>3 DEF JournalCauseTaken
    <2>2. k \in draft[s].journals
      BY <1>3, <2>1 DEF JournalCauseTaken, Overlay
    <2>3. k \in DraftPosted(s)
      BY <1>1, <1>3, <2>1, <2>2 DEF DraftEntries, JournalCauseTaken
    <2> QED BY <1>1, <2>1, <2>3 DEF DraftEntries
  <1> QED BY <1>2, <1>3

\* A commit keeps one record per message and the answers given.
LEMMA CommitRecords ==
  ASSUME IInv, NEW s \in Sessions, Commit(s), TypeOK'
  PROVE  RecordedHasEntry' /\ OneRecordPerCause' /\ AnswersAgree'
  <1>e. /\ pc[s] = "commit" /\ SessionOK(s)
        /\ req[s].kind \in {"create", "update", "delete"}
        /\ events' = events \cup draft[s].events
        /\ draft[s].journals \subseteq journals'
    BY CommitEffect DEF Overlay
  <1>1. PICK e \in draft[s].events :
          /\ draft[s].events = {e} /\ e.kind = EventKind[req[s].kind] /\ e.tx = draft[s].tx
          /\ e.cause = IF req[s].kind = "create" THEN req[s].cause ELSE NoCause
    BY <1>e DEF SessionOK, DraftEvent
  <1>2. e.kind = "tx.recorded" <=> req[s].kind = "create"
    BY <1>e, <1>1 DEF EventKind
  <1>3. ASSUME NEW c \in Messages
        PROVE  RecordedAs(c)' = IF req[s].kind = "create" /\ req[s].cause = c
                                THEN {e} ELSE RecordedAs(c)
    <2>1. c # NoCause
      BY CausesAssumption
    <2>2. CASE req[s].kind = "create" /\ req[s].cause = c
      <3>1. Entered(s)
        BY <1>e, <2>2 DEF Entered
      <3>2. RecordedAs(c) = {}
        BY <1>e, <2>2, <3>1 DEF SessionOK, CauseReserved, IInv, RecordedHasEntry
      <3> QED BY <1>e, <1>1, <1>2, <2>1, <2>2, <3>2 DEF RecordedAs
    <2>3. CASE ~ (req[s].kind = "create" /\ req[s].cause = c)
      <3>1. e \notin RecordedAs(c)'
        BY <1>1, <1>2, <2>3 DEF RecordedAs
      <3> QED BY <1>e, <1>1, <2>3, <3>1 DEF RecordedAs
    <2> QED BY <2>2, <2>3
  <1>4. RecordedHasEntry'
    <2> SUFFICES ASSUME NEW c \in Messages, RecordedAs(c)' # {} PROVE JournalCauseTaken(c)'
      BY DEF RecordedHasEntry
    <2>1. CASE req[s].kind = "create" /\ req[s].cause = c
      <3>1. Entered(s)
        BY <1>e, <2>1 DEF Entered
      <3>2. PICK k \in DraftPosted(s) : k.cause = req[s].cause
        BY <1>e, <3>1 DEF SessionOK, DraftEntries
      <3> QED BY <1>e, <2>1, <3>2, CausesAssumption DEF DraftPosted, JournalCauseTaken
    <2>2. CASE ~ (req[s].kind = "create" /\ req[s].cause = c)
      <3>1. JournalCauseTaken(c)
        BY <1>3, <2>2 DEF IInv, RecordedHasEntry
      <3> QED BY <3>1, CommitCauses DEF JournalCauseTaken
    <2> QED BY <2>1, <2>2
  <1>5. OneRecordPerCause'
    BY <1>3 DEF OneRecordPerCause, IInv
  <1>6. AnswersAgree'
    <2> SUFFICES ASSUME NEW a \in acked'
                 PROVE  RecordedAs(a.cause)' # {} /\ \A f \in RecordedAs(a.cause)' : f.tx = a.tx
      BY DEF AnswersAgree, RecordedAs
    <2>1. a.cause \in Messages
      BY DEF TypeOK
    <2>2. CASE a \in acked
      <3>1. RecordedAs(a.cause) # {} /\ \A f \in RecordedAs(a.cause) : f.tx = a.tx
        BY <2>2 DEF IInv, AnswersAgree
      <3>2. ~ (req[s].kind = "create" /\ req[s].cause = a.cause)
        <4> SUFFICES ASSUME req[s].kind = "create", req[s].cause = a.cause PROVE FALSE
          OBVIOUS
        <4>1. Entered(s) /\ CauseReserved(s)
          BY <1>e DEF Entered, SessionOK
        <4> QED BY <2>1, <3>1, <4>1 DEF CauseReserved, IInv, RecordedHasEntry
      <3> QED BY <1>3, <2>1, <3>1, <3>2
    <2>3. CASE a \notin acked
      <3>1. a.cause = req[s].cause /\ a.tx = draft[s].tx
        BY <2>3 DEF Commit
      <3>2. req[s].kind = "create"
        BY <1>e, <2>1, <3>1 DEF SessionOK, Shape
      <3> QED BY <1>1, <1>3, <2>1, <3>1, <3>2
    <2> QED BY <2>2, <2>3
  <1> QED BY <1>4, <1>5, <1>6

\* The row of another session is not the one committed.
LEMMA OtherRow ==
  ASSUME IInv, NEW s \in Sessions, NEW r \in Sessions \ {s},
         pc[s] \in Writing, pc[r] \in Writing
  PROVE  draft[r].tx # draft[s].tx
  BY DEF IInv, SessionOK, OwnsRow

\* A commit leaves every other session in order.
LEMMA CommitOthers ==
  ASSUME IInv, NEW s \in Sessions, Commit(s), NEW r \in Sessions \ {s}
  PROVE  SessionOK(r)'
  <1>e. /\ pc[s] = "commit" /\ SessionOK(s) /\ EndSession(s) /\ draft[s].tx \in TxIds
        /\ rows' = [rows EXCEPT ![draft[s].tx] = NewRow(s)]
        /\ journals' = Overlay(journals, draft[s].journals)
    BY CommitEffect
  <1>a. Apart(s)
    BY <1>e, EndSessionOK
  <1>1. pc'[r] = pc[r] /\ req'[r] = req[r] /\ draft'[r] = draft[r]
    BY <1>a DEF Apart
  <1>2. SessionOK(r)
    BY DEF IInv
  <1>3. Shape(r)' /\ OwnsCash(r)' /\ DraftEvent(r)'
    BY <1>a, <1>1, <1>2
    DEF SessionOK, Shape, OwnsCash, HoldsCash, Entered, DraftEvent, Apart
  <1>4. pc[r] \in Writing =>
          /\ draft[r].tx \in TxIds
          /\ rows'[draft[r].tx] = rows[draft[r].tx]
          /\ Posted(draft[r].tx)' = Posted(draft[r].tx)
    <2> SUFFICES ASSUME pc[r] \in Writing
                 PROVE  /\ draft[r].tx \in TxIds
                        /\ rows'[draft[r].tx] = rows[draft[r].tx]
                        /\ Posted(draft[r].tx)' = Posted(draft[r].tx)
      OBVIOUS
    <2>1. draft[r].tx \in TxIds \ {draft[s].tx}
      BY <1>2, <1>e, OtherRow DEF SessionOK, Shape, Writing
    <2>2. rows'[draft[r].tx] = rows[draft[r].tx]
      BY <1>e, <2>1 DEF IInv, TypeOK
    <2>3. \A t \in TxIds \ {draft[s].tx} : Posted(t)' = Posted(t)
      BY CommitPosted
    <2>4. Posted(draft[r].tx)' = {j \in journals' : j.tx = draft[r].tx /\ j.status = "POSTED"}
      BY <1>1 DEF Posted
    <2>5. Posted(draft[r].tx) = {j \in journals' : j.tx = draft[r].tx /\ j.status = "POSTED"}
      BY <2>1, <2>3 DEF Posted
    <2> QED BY <2>1, <2>2, <2>4, <2>5
  <1>5. OwnsRow(r)'
    <2>1. \A q \in Sessions : draft'[q].tx # draft[q].tx => q = s /\ draft'[q].tx = NoTx
      BY <1>a, <1>e DEF Apart, EndSession, NoDraft, IInv, TypeOK
    <2> QED BY <1>a, <1>1, <1>2, <1>4, <2>1, TxIdsAssumption DEF SessionOK, OwnsRow, Apart
  <1>6. DraftRow(r)'
    BY <1>1, <1>2, <1>4 DEF SessionOK, DraftRow, Rewritten, NewRow
  <1>7. DraftEntries(r)'
    <2>1. DraftEntries(r) /\ \A j \in journals : \E k \in journals' : k.cause = j.cause
      BY <1>2, CommitCauses DEF SessionOK
    <2>2. DraftPosted(r)' = DraftPosted(r)
      BY <1>1 DEF DraftPosted
    <2> QED BY <1>1, <2>1, <2>2 DEF DraftEntries, Entered, Rewritten
  <1>8. DraftCovers(r)'
    BY <1>1, <1>2, <1>4 DEF SessionOK, DraftCovers, Rewritten, SameEntry
  <1>9. CauseReserved(r)'
    <2> SUFFICES ASSUME Entered(r) PROVE ~ JournalCauseTaken(req[r].cause)'
      BY <1>1 DEF CauseReserved, Entered, JournalCauseTaken
    <2>1. ~ Entered(s)
      BY <1>2, <1>e DEF SessionOK, OwnsCash, HoldsCash
    <2>2. ~ JournalCauseTaken(req[r].cause)
      BY <1>2 DEF SessionOK, CauseReserved
    <2> QED BY <1>1, <2>1, <2>2, CommitCauses DEF JournalCauseTaken
  <1> QED BY <1>3, <1>5, <1>6, <1>7, <1>8, <1>9 DEF SessionOK

\* A commit keeps the invariant.
LEMMA CommitInv ==
  ASSUME IInv, NEW s \in Sessions, Commit(s)
  PROVE  IInv'
  <1>1. TypeOK'
    BY WriteType DEF WriteStep
  <1>2. SessionOK(s)'
    BY CommitEffect, EndSessionOK
  <1> QED BY <1>1, <1>2, CommitOthers, CommitBooks, CommitRecords DEF IInv

\* The events of the projects calls keep the invariant.
LEMMA ProjectEventInv ==
  ASSUME IInv, NEW s \in Sessions, AppendProjectEvent(s)
  PROVE  IInv'
  <1>1. TypeOK'
    BY OtherType
  <1>2. /\ pc[s] = "project" /\ pc' = [pc EXCEPT ![s] = "idle"]
        /\ UNCHANGED <<rows, journals, events, rowLock, cashLock, req, draft, acked>>
    BY DEF AppendProjectEvent, Goto, ledger, locks
  <1>3. pc'[s] = "idle" /\ \A r \in Sessions \ {s} : pc'[r] = pc[r]
    BY <1>2 DEF IInv, TypeOK
  <1>4. draft[s] = NoDraft /\ Shape(s)
    BY <1>2 DEF IInv, SessionOK, Shape, Writing
  <1>5. Shape(s)'
    <2>1. req[s].kind = "none"
      BY <1>2, <1>4, KindOf DEF Shape, LabelsOf
    <2> QED BY <1>2, <1>3, <1>4, <2>1 DEF Shape, LabelsOf, Writing
  <1>6. Apart(s)
    <2>1. \A r \in Sessions : pc[r] \in Writing => draft[r].tx # NoTx
      BY TxIdsAssumption DEF IInv, SessionOK, Shape
    <2> QED BY <1>2, <1>3, <1>4, <2>1 DEF Apart, NoDraft
  <1> QED BY <1>1, <1>2, <1>3, <1>4, <1>5, <1>6, Idling, QuietStep, AnswersKept DEF IInv

-----------------------------------------------------------------------------
(* The theorems.                                                            *)

\* Every step keeps the invariant.
LEMMA NextIInv == IInv /\ [Next]_vars => IInv'
  <1> SUFFICES ASSUME IInv, [Next]_vars PROVE IInv'
    OBVIOUS
  <1>1. CASE UNCHANGED vars
    <2>1. UNCHANGED <<rows, journals, allocs, events, nextEvent, projects, mutations,
                      projectLog, rowLock, cashLock, pc, req, draft, owes, acked>>
      BY <1>1 DEF vars, ledger, projectVars, locks
    <2>2. TypeOK'
      BY <2>1 DEF IInv, TypeOK
    <2>3. ASSUME NEW s \in Sessions PROVE SessionOK(s)'
      <3>1. SessionOK(s)
        BY DEF IInv
      <3> QED BY <2>1, <3>1
          DEF SessionOK, Shape, OwnsRow, OwnsCash, DraftRow, DraftEntries, DraftCovers,
            CauseReserved, DraftEvent, Entered, Rewritten, HoldsCash, DraftPosted, Posted,
            NewRow, JournalCauseTaken
    <2> QED BY <2>1, <2>2, <2>3
        DEF IInv, RecordedHasEntry, BooksMatchRows, OneRecordPerCause, AnswersAgree,
          RecordedAs, Posted, JournalCauseTaken
  <1>2. CASE Exhausted
    BY <1>1, <1>2 DEF Exhausted
  <1>3. ASSUME NEW s \in Sessions,
               Call(s) \/ WriteStep(s) \/ LockStep(s) \/ AppendProjectEvent(s) \/ Fail(s)
        PROVE  IInv'
    <2>1. CASE Call(s)
      BY <2>1, CallInv
    <2>2. CASE WriteStep(s)
      BY <2>2, LookupInv, InsertRowInv, InsertJournalInv, ValidateInv, InsertAllocationsInv,
        InsertEventInv, CommitInv, RewriteRowInv DEF WriteStep
    <2>3. CASE LockStep(s)
      BY <2>3, EnsureAccountsInv, LockRowInv DEF LockStep
    <2>4. CASE AppendProjectEvent(s)
      BY <2>4, ProjectEventInv
    <2>5. CASE Fail(s)
      BY <2>5, RollbackInv DEF Fail
    <2> QED BY <1>3, <2>1, <2>2, <2>3, <2>4, <2>5
  <1> QED BY <1>1, <1>2, <1>3 DEF Next

\* The inductive invariant holds in every reachable state, for any number of
\* sessions, messages, transactions and amounts.
THEOREM Invariance == Spec => []IInv
  BY InitIInv, NextIInv, PTL DEF Spec

\* Every variable keeps its type.
THEOREM TypeCorrect == Spec => []TypeOK
  <1>1. IInv => TypeOK
    BY DEF IInv
  <1> QED BY <1>1, Invariance, PTL

\* The books and the rows tell the same story: writer.go and projects.go keep
\* one POSTED entry per live transaction, whatever runs or fails beside them.
THEOREM BooksMatch == Spec => []BooksMatchRows
  <1>1. IInv => BooksMatchRows
    BY DEF IInv
  <1> QED BY <1>1, Invariance, PTL

\* A LINE message is recorded at most once.
THEOREM RecordedOnce == Spec => []OneRecordPerCause
  <1>1. IInv => OneRecordPerCause
    BY DEF IInv
  <1> QED BY <1>1, Invariance, PTL

\* Every answer a create gave for a message names the recorded transaction.
THEOREM Answers == Spec => []AnswersAgree
  <1>1. IInv => AnswersAgree
    BY DEF IInv
  <1> QED BY <1>1, Invariance, PTL

\* The duplicate handler of the event insert (writer.go) is dead code: the unique
\* index of journal_entries and the lock of the cash account come first.
THEOREM EventIndexUnused == Spec => []EventIndexNeverHit
  <1>1. IInv => EventIndexNeverHit
    <2> SUFFICES ASSUME IInv, NEW s \in Sessions, pc[s] = "event", req[s].kind = "create"
                 PROVE  RecordedAs(req[s].cause) = {}
      BY DEF EventIndexNeverHit
    <2>1. SessionOK(s) /\ Entered(s)
      BY DEF IInv, Entered
    <2>2. ~ JournalCauseTaken(req[s].cause)
      BY <2>1 DEF SessionOK, CauseReserved
    <2>3. CASE req[s].cause = NoCause
      BY <2>3 DEF RecordedAs
    <2>4. CASE req[s].cause \in Messages
      BY <2>2, <2>4 DEF IInv, RecordedHasEntry
    <2> QED BY <2>1, <2>3, <2>4 DEF SessionOK, Shape
  <1> QED BY <1>1, Invariance, PTL

\* No step changes a deleted transaction or brings an entry of it back.
THEOREM Deletion == Spec => DeletedIsFinal
  <1> DEFINE Final == \A t \in TxIds :
                rows[t].status = "deleted" =>
                  /\ rows'[t] = rows[t]
                  /\ \A j \in journals' : j.tx = t => j.status = "VOID"
  <1>1. IInv /\ IInv' /\ [Next]_vars => Final
    <2> SUFFICES ASSUME IInv, IInv', [Next]_vars, NEW t \in TxIds, rows[t].status = "deleted"
                 PROVE  rows'[t] = rows[t] /\ \A j \in journals' : j.tx = t => j.status = "VOID"
      OBVIOUS
    <2>1. rows'[t] = rows[t]
      <3>1. CASE UNCHANGED rows
        BY <3>1
      <3>2. CASE \E s \in Sessions : Commit(s)
        <4>1. PICK s \in Sessions : Commit(s)
          BY <3>2
        <4>2. /\ rows' = [rows EXCEPT ![draft[s].tx] = NewRow(s)]
              /\ pc[s] = "commit" /\ SessionOK(s)
          BY <4>1, CommitEffect
        <4>3. draft[s].tx # t
          BY <4>2 DEF SessionOK, OwnsRow, Writing
        <4> QED BY <4>2, <4>3 DEF IInv, TypeOK
      <3>3. ASSUME NEW s \in Sessions, Call(s) PROVE UNCHANGED rows
        BY <3>3 DEF Call, BeginCreate, BeginUpdate, BeginDelete, Begin, CreateProject,
                    UpdateProject, DeleteProject, MutateProject, ledger
      <3>4. ASSUME NEW s \in Sessions, WriteStep(s), ~ Commit(s) PROVE UNCHANGED rows
        BY <3>4 DEF WriteStep, LookupCause, InsertRow, InsertJournal, ValidateAllocations,
                    InsertAllocations, InsertEvent, RewriteRow, Rollback, ledger
      <3>5. ASSUME NEW s \in Sessions, LockStep(s) PROVE UNCHANGED rows
        BY <3>5 DEF LockStep, EnsureAccounts, LockRow, Rollback, ledger
      <3>6. ASSUME NEW s \in Sessions, AppendProjectEvent(s) \/ Fail(s) PROVE UNCHANGED rows
        BY <3>6 DEF AppendProjectEvent, Fail, Rollback, ledger
      <3>7. ASSUME Exhausted \/ UNCHANGED vars PROVE UNCHANGED rows
        BY <3>7 DEF Exhausted, vars, ledger
      <3> QED BY <3>1, <3>2, <3>3, <3>4, <3>5, <3>6, <3>7 DEF Next
    <2>2. Posted(t)' = {}
      BY <2>1 DEF IInv, BooksMatchRows
    <2>3. \A j \in journals' : j.status \in {"POSTED", "VOID"}
      BY DEF IInv, TypeOK, Journal
    <2> QED BY <2>1, <2>2, <2>3 DEF Posted
  <1>2. Spec => [][Next]_vars
    BY DEF Spec
  <1>3. Final => [Final]_vars
    OBVIOUS
  <1> QED BY <1>1, <1>2, Invariance, PTL DEF DeletedIsFinal
=============================================================================
