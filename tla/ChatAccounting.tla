--------------------------- MODULE ChatAccounting ---------------------------
(***************************************************************************)
(* How a LINE message becomes a ledger entry and an answer: the webhook    *)
(* queues it (internal/queue), a worker dispatches it                      *)
(* (internal/dispatcher), asks when it is not sure, keeps the question as  *)
(* the user's pending action (internal/memory), writes through the ledger  *)
(* (LedgerPromise) and answers once with the reply token (internal/line).  *)
(* One LINE user; workers serve his messages in any order, and several at  *)
(* a time.                                                                 *)
(***************************************************************************)
EXTENDS Naturals, FiniteSets

CONSTANTS
  Workers,    \* goroutines of the asynq server
  Jobs,       \* tasks of the queue line_webhook_events
  Messages,   \* LINE message ids, each with a reply token of its own
  Sayings,    \* what a message may say
  TxIds,
  NoTx,
  Amounts,
  NoPending,
  Nobody,     \* the job of an idle worker
  MaxRetry    \* asynq.MaxRetry of a line event

Types == {"INCOME", "EXPENSE"}

\* How the dispatcher sees a message: a text the parser is sure of, one it is not
\* sure of, one about money without an amount, a number alone, a slip, with the direction
\* and the amount the vision model reads in it, which may be no direction and an amount of
\* 0, one of the four answers to the question, a refusal the parser hears, a text for the
\* household or the business, a message of a type nobody handles, anything else.
Choices == Types \cup {"TRANSFER", "IGNORE"}
Saying ==
  [kind : {"sure", "shared"}, type : Types, amount : Amounts]
    \cup [kind : {"unsure", "number"}, type : {"none"}, amount : Amounts]
    \cup [kind : {"slip"}, type : Types \cup {"none"}, amount : Amounts \cup {0}]
    \cup [kind : {"choice"}, type : Choices, amount : {0}]
    \cup [kind : {"missing", "refusal", "sticker", "chat"}, type : {"none"}, amount : {0}]

ASSUME SayingsAssumption == Sayings \subseteq Saying
ASSUME AmountsAssumption == Amounts \subseteq Nat \ {0}
ASSUME TxIdsAssumption == NoTx \notin TxIds
ASSUME JobsAssumption == Nobody \notin Jobs
ASSUME PendingAssumption == NoPending \notin [type : Types \cup {"none", "expired"}, amount : Amounts \cup {0}]
ASSUME RetryAssumption == MaxRetry \in Nat

VARIABLES
  said,       \* per message: what it says, or Unsaid
  jobs,       \* per task: [state, msg, tries]
  worker,     \* per worker: [job, at, slot, tx, say]
  pending,    \* pending_actions, per worker: the document it inserted, or NoPending
  spent,      \* messages whose reply token LINE has taken
  told,       \* what the user has read: [msg, say, tx]
  entry, posted, recorded   \* the ledger, as LedgerPromise describes it

queueVars == <<said, jobs>>
answers == <<spent, told>>
ledgerVars == <<entry, posted, recorded>>
vars == <<queueVars, worker, pending, answers, ledgerVars>>

Ledger == INSTANCE LedgerPromise

Unsaid == [kind |-> "unsaid", type |-> "none", amount |-> 0]
FreeJob == [state |-> "free"]
NoWrite == [type |-> "none", amount |-> 0]
\* A document older than its TTL: no query finds it, an upsert does.
Expired == [type |-> "expired", amount |-> 0]
Idle == [job |-> Nobody, at |-> "idle", slot |-> NoPending, tx |-> NoWrite, say |-> "none"]

Init ==
  /\ said = [m \in Messages |-> Unsaid]
  /\ jobs = [j \in Jobs |-> FreeJob]
  /\ worker = [w \in Workers |-> Idle]
  /\ pending = [w \in Workers |-> NoPending]
  /\ spent = {}
  /\ told = {}
  /\ Ledger!Init

-----------------------------------------------------------------------------
(* The queue.                                                               *)

\* A webhook call queues its message; LINE may deliver a message again, and the
\* tasks carry no id to deduplicate by.
EnqueueLineEvent(m, j) ==
  /\ jobs[j].state = "free"
  /\ \/ /\ said[m] = Unsaid
        /\ \E s \in Sayings : said' = [said EXCEPT ![m] = s]
     \/ /\ said[m] # Unsaid
        /\ UNCHANGED said
  /\ jobs' = [jobs EXCEPT ![j] = [state |-> "queued", msg |-> m, tries |-> 0]]
  /\ UNCHANGED <<worker, pending, answers, ledgerVars>>

Take(w, j) ==
  /\ worker[w] = Idle
  /\ jobs[j].state = "queued"
  /\ jobs' = [jobs EXCEPT ![j].state = "active"]
  /\ worker' = [worker EXCEPT ![w] = [Idle EXCEPT !.job = j, !.at = "dispatch"]]
  /\ UNCHANGED <<said, pending, answers, ledgerVars>>

\* The handler returns nil.
Done(w) ==
  /\ jobs' = [jobs EXCEPT ![worker[w].job].state = "done"]
  /\ worker' = [worker EXCEPT ![w] = Idle]

\* Mutant: a retry is not counted.
FailUncounted(w) ==
  /\ jobs' = [jobs EXCEPT ![worker[w].job].state = "queued"]
  /\ worker' = [worker EXCEPT ![w] = Idle]

\* Mutant: one retry too many.
FailLate(w) ==
  LET j == worker[w].job
      task == jobs[j] IN
  /\ jobs' = [jobs EXCEPT ![j] =
       IF task.tries <= MaxRetry
       THEN [task EXCEPT !.state = "queued", !.tries = task.tries + 1]
       ELSE [task EXCEPT !.state = "archived"]]
  /\ worker' = [worker EXCEPT ![w] = Idle]

\* The handler returns an error: asynq tries the task again or archives it.
Fail(w) ==
  LET j == worker[w].job
      task == jobs[j] IN
  /\ jobs' = [jobs EXCEPT ![j] =
       IF task.tries < MaxRetry
       THEN [task EXCEPT !.state = "queued", !.tries = task.tries + 1]
       ELSE [task EXCEPT !.state = "archived"]]
  /\ worker' = [worker EXCEPT ![w] = Idle]

\* The process dies; asynq recovers the task when its lease has run out.
Crash(w) ==
  /\ worker[w].at # "idle"
  /\ Fail(w)
  /\ UNCHANGED <<said, pending, answers, ledgerVars>>

-----------------------------------------------------------------------------
(* Dispatch: what a message asks for, given the pending action it finds.    *)

Msg(w) == jobs[worker[w].job].msg
Says(w) == said[Msg(w)]

\* The rest of the handler, as a place to go on from: the question it saves or answers,
\* what it writes and what it says.
Plan(w, at, slot, tx, say) ==
  /\ worker' = [worker EXCEPT ![w] =
       [@ EXCEPT !.at = at, !.slot = slot, !.tx = tx, !.say = say]]
  /\ UNCHANGED <<queueVars, pending, answers, ledgerVars>>

Answer(w, say) == Plan(w, "reply", NoPending, NoWrite, say)
Ask(w, slot) == Plan(w, "save", slot, NoWrite, "ask")
Drop(w) == Plan(w, "clear", NoPending, NoWrite, "dropped")
Record(w, at, slot, type, amount) ==
  Plan(w, at, slot, [type |-> type, amount |-> amount], "card")

\* A message of a type nobody handles is dropped without an answer.
IgnoreEvent(w) ==
  /\ worker[w].at = "dispatch"
  /\ Says(w).kind = "sticker"
  /\ Done(w)
  /\ UNCHANGED <<said, pending, answers, ledgerVars>>

\* More than replyTimeout has gone since the webhook received the message: it is answered
\* unread, as is one of a user nobody knows.
ReplyBudgetExceeded(w) ==
  /\ worker[w].at = "dispatch"
  /\ Answer(w, "late")

\* The user cannot be resolved.
ResolveFails(w) ==
  /\ worker[w].at = "dispatch"
  /\ Fail(w)
  /\ UNCHANGED <<said, pending, answers, ledgerVars>>

\* GetPendingAccounting: one of the documents, or none when there is none, they are
\* older than their TTL or Mongo reports an error.
PendingReads == {NoPending} \cup ({pending[v] : v \in Workers} \ {Expired})

HandlePendingAccountingChoice(w) ==
  /\ worker[w].at = "dispatch"
  /\ Says(w).kind = "choice"
  /\ \E p \in PendingReads :
       \/ /\ p = NoPending
          /\ Answer(w, "which")
       \/ /\ p # NoPending
          /\ Says(w).type \notin Types
          /\ Drop(w)
       \/ /\ p # NoPending
          /\ Says(w).type \in Types
          /\ p.amount = 0
          /\ Ask(w, [type |-> Says(w).type, amount |-> 0])
       \/ /\ p # NoPending
          /\ Says(w).type \in Types
          /\ p.amount > 0
          /\ Record(w, "write", p, Says(w).type, p.amount)

\* A pending action whose direction is known and whose amount is not.
AwaitsAmount(p) == p # NoPending /\ p.amount = 0 /\ p.type # "none"

HandlePendingAmount(w) ==
  /\ worker[w].at = "dispatch"
  /\ Says(w).kind \notin {"choice", "slip", "sticker"}
  /\ \E p \in PendingReads :
       /\ AwaitsAmount(p)
       /\ IF Says(w).amount > 0
          THEN Record(w, "write", p, p.type, Says(w).amount)
          ELSE Answer(w, "ask")

\* Mutant: the confidence of the parser is not looked at.
HandleTextAnyConfidence(w) ==
  /\ worker[w].at = "dispatch"
  /\ Says(w).kind \in {"sure", "unsure"}
  /\ Record(w, "write", NoPending, "EXPENSE", Says(w).amount)

\* The switch of handleText.  It is reached whatever is pending, for the read of the
\* pending action may report an error.
HandleText(w) ==
  LET s == Says(w) IN
  /\ worker[w].at = "dispatch"
  /\ s.kind \notin {"choice", "shared", "slip", "sticker"}
  /\ CASE s.kind = "sure" -> Record(w, "write", NoPending, s.type, s.amount)
       [] s.kind \in {"unsure", "missing"} ->
            Ask(w, [type |-> "none", amount |-> s.amount])
       [] s.kind = "refusal" -> Drop(w)
       [] OTHER -> Answer(w, "chat")

\* handleImage, and a text that asks for the last image to be read: the slip is asked
\* about, unless the image cannot be had or read or no number was read as its amount.
\* The question keeps the direction that was read, and an amount that is not positive
\* counts as none.
HandleImage(w) ==
  /\ worker[w].at = "dispatch"
  /\ Says(w).kind = "slip"
  /\ \/ Ask(w, [type |-> Says(w).type, amount |-> Says(w).amount])
     \/ Answer(w, "chat")

\* handleHouseholdText and handleBusinessText: with one household or business the text is
\* recorded there; with several households it is kept like a question of the user's own
\* books; with none the user is told so.
HandleShared(w) ==
  LET s == Says(w) IN
  /\ worker[w].at = "dispatch"
  /\ s.kind = "shared"
  /\ \/ Record(w, "share", NoPending, s.type, s.amount)
     \/ Ask(w, [type |-> "none", amount |-> s.amount])
     \/ Answer(w, "chat")

-----------------------------------------------------------------------------
(* The rest of the handler, one call a step.                                *)

GoTo(w, at) == worker' = [worker EXCEPT ![w].at = at]

\* SavePendingAccounting is an upsert: it replaces one of the documents, or inserts one
\* when it has found none.  No unique index keeps two upserts from inserting both.  Its
\* error is only logged.
SavePendingAccounting(w) ==
  /\ worker[w].at = "save"
  /\ \/ /\ \E v \in Workers : /\ pending[v] # NoPending
                              /\ pending' = [pending EXCEPT ![v] = worker[w].slot]
        /\ GoTo(w, "reply")
     \/ /\ \A v \in Workers : pending[v] = NoPending
        /\ GoTo(w, "insert")
        /\ UNCHANGED pending
     \/ /\ GoTo(w, "reply")
        /\ UNCHANGED pending
  /\ UNCHANGED <<queueVars, answers, ledgerVars>>

InsertPendingAccounting(w) ==
  /\ worker[w].at = "insert"
  /\ pending' \in {[pending EXCEPT ![w] = worker[w].slot], pending}
  /\ GoTo(w, "reply")
  /\ UNCHANGED <<queueVars, answers, ledgerVars>>

\* All documents are deleted; an error is only logged.
ClearPendingAccounting(w) ==
  /\ worker[w].at = "clear"
  /\ pending' \in {[v \in Workers |-> NoPending], pending}
  /\ GoTo(w, IF worker[w].say = "card" THEN "card" ELSE "reply")
  /\ UNCHANGED <<queueVars, answers, ledgerVars>>

\* CreatePersonalTransaction with the message as its cause returns the transaction of an
\* earlier attempt; household and business writes have no cause.
LedgerWrite(w) ==
  LET tx == worker[w].tx IN
  \/ /\ worker[w].at = "write"
     /\ \E t \in TxIds : Ledger!RecordMessage(Msg(w), t, tx.type, tx.amount)
  \/ /\ worker[w].at = "write"
     /\ recorded[Msg(w)] # NoTx
     /\ UNCHANGED ledgerVars
  \/ /\ worker[w].at = "share"
     /\ \E t \in TxIds : Ledger!Record(t, tx.type, tx.amount)

\* A question that was answered is cleared next.
Write(w) ==
  /\ LedgerWrite(w)
  /\ GoTo(w, IF worker[w].slot = NoPending THEN "card" ELSE "clear")
  /\ UNCHANGED <<queueVars, pending, answers>>

\* Mutant: the error of the write is ignored.
WriteFailsUnnoticed(w) ==
  /\ worker[w].at \in {"write", "share"}
  /\ GoTo(w, "card")
  /\ UNCHANGED <<queueVars, pending, answers, ledgerVars>>

\* The write reports an error, which it may do although it committed.
WriteFails(w) ==
  /\ worker[w].at \in {"write", "share"}
  /\ UNCHANGED ledgerVars \/ LedgerWrite(w)
  /\ worker' = [worker EXCEPT ![w].at = "reply", ![w].say = "failed"]
  /\ UNCHANGED <<queueVars, pending, answers>>

-----------------------------------------------------------------------------
(* The answer.  LINE takes a reply token once.                              *)

Accept(w) ==
  /\ Msg(w) \notin spent
  /\ spent' = spent \cup {Msg(w)}
  /\ told' = told \cup {[msg |-> Msg(w), say |-> worker[w].say, tx |-> worker[w].tx]}

\* An error of the call: the token was taken before, LINE refuses the message, or
\* it takes it and the response is lost.
ReplyError(w) == UNCHANGED answers \/ Accept(w)

ReplyAccountingCard(w) ==
  /\ worker[w].at = "card"
  /\ \/ /\ Accept(w)
        /\ Done(w)
     \/ /\ ReplyError(w)
        /\ GoTo(w, "reply")
        /\ UNCHANGED jobs
  /\ UNCHANGED <<said, pending, ledgerVars>>

\* Mutant: the error of the reply is only logged.
ReplyErrorLogged(w) ==
  /\ worker[w].at = "reply"
  /\ Done(w)
  /\ Accept(w) \/ ReplyError(w)
  /\ UNCHANGED <<said, pending, ledgerVars>>

\* Text and quick replies, and the text in place of a card that failed.
Reply(w) ==
  /\ worker[w].at = "reply"
  /\ \/ Accept(w) /\ Done(w)
     \/ ReplyError(w) /\ Fail(w)
  /\ UNCHANGED <<said, pending, ledgerVars>>

-----------------------------------------------------------------------------
\* The TTL of ten minutes.
Expire(v) ==
  /\ pending[v] \notin {NoPending, Expired}
  /\ pending' = [pending EXCEPT ![v] = Expired]
  /\ UNCHANGED <<queueVars, worker, answers, ledgerVars>>

WorkerStep(w) ==
  \/ \E j \in Jobs : Take(w, j)
  \/ IgnoreEvent(w) \/ ReplyBudgetExceeded(w) \/ ResolveFails(w)
  \/ HandlePendingAccountingChoice(w) \/ HandlePendingAmount(w)
  \/ HandleText(w) \/ HandleImage(w) \/ HandleShared(w)
  \/ SavePendingAccounting(w) \/ InsertPendingAccounting(w) \/ ClearPendingAccounting(w)
  \/ Write(w) \/ WriteFails(w)
  \/ ReplyAccountingCard(w) \/ Reply(w)

Next ==
  \/ \E m \in Messages, j \in Jobs : EnqueueLineEvent(m, j)
  \/ \E w \in Workers : WorkerStep(w) \/ Crash(w) \/ Expire(w)

Spec == Init /\ [][Next]_vars

\* A worker that is not busy takes a task, and a busy one goes on.
Fairness == \A w \in Workers : WF_vars(WorkerStep(w))

FairSpec == Spec /\ Fairness

-----------------------------------------------------------------------------
(* What must hold.                                                          *)

Questions == [type : Types \cup {"none"}, amount : Amounts \cup {0}]
Writes == [type : Types, amount : Amounts] \cup {NoWrite}
Places == {"idle", "dispatch", "save", "insert", "clear", "write", "share", "card", "reply"}
Answered == {"ask", "which", "dropped", "late", "chat", "card", "failed"}
WorkerStates == [job : Jobs \cup {Nobody}, at : Places, slot : Questions \cup {NoPending},
                 tx : Writes, say : Answered \cup {"none"}]
TaskStates == [state : {"queued", "active", "done", "archived"}, msg : Messages,
               tries : 0..MaxRetry]

\* Every task, worker, question and answer has its type; no task is tried more often
\* than asynq.MaxRetry allows (queue/client.go, queue/server.go).
TypeOK ==
  /\ said \in [Messages -> Sayings \cup {Unsaid}]
  /\ jobs \in [Jobs -> {FreeJob} \cup TaskStates]
  /\ worker \in [Workers -> WorkerStates]
  /\ pending \in [Workers -> Questions \cup {NoPending, Expired}]
  /\ spent \subseteq Messages
  /\ told \subseteq [msg : Messages, say : Answered, tx : Writes]
  /\ entry \in [TxIds -> [status : {"absent", "live"}, type : Types \cup {"none"},
                          amount : Amounts \cup {0}]]
  /\ recorded \in [Messages -> TxIds \cup {NoTx}]

\* A record of message m in the user's own books that the user has agreed to: the parser
\* was sure of m; or m answers a question with this direction, about an amount of a
\* message the parser was not sure of; or m gives the amount of a message that had none,
\* in a direction the user has chosen or, when that message is a slip, the vision model
\* has read: the user is shown that one and not asked again.
Unsure(amount) ==
  \E q \in Messages : said[q].kind \in {"unsure", "slip", "shared"} /\ said[q].amount = amount
Missing ==
  \E q \in Messages :
    said[q].kind = "missing" \/ (said[q].kind = "slip" /\ said[q].amount = 0)
Slip(type, amount) ==
  \E q \in Messages :
    said[q].kind = "slip" /\ said[q].type = type /\ said[q].amount = amount
Chosen(type) == \E q \in Messages : said[q].kind = "choice" /\ said[q].type = type
Agreed(m, type, amount) ==
  LET s == said[m] IN
  \/ s.kind = "sure" /\ s.type = type /\ s.amount = amount
  \/ s.kind = "choice" /\ s.type = type /\ Unsure(amount)
  \/ /\ s.kind \in {"sure", "unsure", "number", "shared"}
     /\ s.amount = amount
     /\ Missing
     /\ Chosen(type) \/ Slip(type, 0)

\* What the parser is not sure of is recorded with an amount and a direction out of the
\* user's messages, and neither is made up, whatever the order in which workers serve the
\* messages, retry them or lose their answers (handleText, handlePendingAccountingChoice,
\* handlePendingAmount).  Only the direction of a slip without an amount is the vision
\* model's word (saveSlipPendingAccounting).
RecordsAreAgreed ==
  \A m \in Messages :
    recorded[m] # NoTx => Agreed(m, entry[recorded[m]].type, entry[recorded[m]].amount)

\* The message has its transaction, or a household or business has one like it.
Backed(m, tx) ==
  \/ recorded[m] # NoTx
  \/ /\ said[m].kind = "shared"
     /\ \E t \in TxIds : entry[t] = [status |-> "live", type |-> tx.type, amount |-> tx.amount]

\* Who reads "recorded" has a record: that message has its transaction, or, for a
\* household or business text, there is a transaction as the card says
\* (replyAccountingCard is called after every kind of write).
CardsAreBacked ==
  \A a \in told : a.say = "card" => Backed(a.msg, a.tx)

\* A task is only finished when LINE has taken an answer to its message: a failed answer
\* is an error of the task, which asynq tries again (reply, HandleLineWebhook).
DoneMeansAnswered ==
  \A j \in Jobs : jobs[j].state = "done" =>
    jobs[j].msg \in spent \/ said[jobs[j].msg].kind = "sticker"

\* The card names the type and the amount that were recorded for its message
\* (README.md:315: nothing is said to be recorded without a ledger write).
ClaimedIsRecorded ==
  \A a \in told : a.say = "card" /\ recorded[a.msg] # NoTx =>
    /\ entry[recorded[a.msg]].type = a.tx.type
    /\ entry[recorded[a.msg]].amount = a.tx.amount

\* Every queued task ends, done or archived: errors, crashes and lost answers use up its
\* tries (asynq.MaxRetry in EnqueueLineEvent).
EveryJobEnds ==
  \A j \in Jobs : jobs[j].state = "queued" ~> jobs[j].state \in {"done", "archived"}

\* The dispatcher uses the ledger within its promise: it writes what LedgerPromise lets a
\* caller write, with a direction and an amount, and nothing else changes the books.
UsesTheLedger == Ledger!Spec

\* A recorded message keeps its transaction, with its direction and its amount: retries,
\* duplicates and the errors of later steps write nothing over it.
RecordsStand ==
  [][\A m \in Messages : recorded[m] # NoTx =>
       recorded'[m] = recorded[m] /\ entry'[recorded[m]] = entry[recorded[m]]]_vars

\* How far a worker has come with its task.
Stage ==
  [idle |-> 0, dispatch |-> 1, save |-> 2, insert |-> 3, write |-> 4, share |-> 4,
   clear |-> 5, card |-> 6, reply |-> 7]

\* An active task has one worker.
EachTaskOneWorker ==
  /\ \A j \in Jobs : jobs[j].state = "active" =>
       \E w \in Workers : worker[w].at # "idle" /\ worker[w].job = j
  /\ \A w \in Workers : worker[w].at # "idle" => jobs[worker[w].job].state = "active"
  /\ \A v, w \in Workers :
       v # w /\ worker[v].at # "idle" /\ worker[w].at # "idle" => worker[v].job # worker[w].job

\* What a step does to task j: it leaves it alone, queues it, gives it to a worker, ends it,
\* or gives it back with a try more.
TaskForward(j) ==
  \/ jobs'[j] = jobs[j]
  \/ jobs[j].state = "free" /\ jobs'[j].state = "queued" /\ jobs'[j].tries = 0
  \/ jobs[j].state = "queued" /\ jobs'[j] = [jobs[j] EXCEPT !.state = "active"]
  \/ jobs[j].state = "active" /\ jobs'[j].state \in {"done", "archived"}
  \/ jobs[j].state = "active" /\ jobs'[j].state = "queued"
       /\ jobs'[j].tries = jobs[j].tries + 1 /\ jobs'[j].tries <= MaxRetry

\* What it does to a busy worker: it leaves it alone, lets it go, or takes it a stage on.
WorkerForward(w) ==
  \/ worker'[w] = worker[w]
  \/ worker'[w] = Idle /\ jobs'[worker[w].job].state # "active"
  \/ worker'[w].job = worker[w].job /\ Stage[worker'[w].at] > Stage[worker[w].at]

\* Nothing sets a task back but a try that failed: seven steps end a try, and MaxRetry + 1
\* tries the task, which then stays as it is.  This is the part of EveryJobEnds that needs
\* no fairness.
TasksGoForward ==
  [][/\ \A j \in Jobs : TaskForward(j)
     /\ \A w \in Workers : worker[w].at # "idle" => WorkerForward(w)]_vars

-----------------------------------------------------------------------------
(* Why it holds: what a worker or a pending action carries is backed by     *)
(* messages and records that exist already.                                 *)

TasksAreSaid == \A j \in Jobs : jobs[j].state # "free" => said[jobs[j].msg] # Unsaid

\* A question is about an amount some message left unsure, or about a message without
\* one; its direction is what some answer chose or what was read in the slip it is about.
Question(q) ==
  \/ q \in {NoPending, Expired}
  \/ /\ q.amount > 0
     /\ Unsure(q.amount)
     /\ q.type = "none" \/ Slip(q.type, q.amount)
  \/ /\ q.amount = 0
     /\ Missing
     /\ q.type = "none" \/ Chosen(q.type) \/ Slip(q.type, 0)

\* A busy worker serves a task, holds a question that was meant, writes what is agreed and
\* claims what is written.
Backs(r) ==
  LET m == jobs[r.job].msg IN
  /\ r.at = "write" => Agreed(m, r.tx.type, r.tx.amount)
  /\ r.at = "share" => said[m].kind = "shared"
  /\ r.at \in {"save", "insert"} => r.say # "card"
  /\ r.at \in {"clear", "card", "reply"} /\ r.say = "card" => Backed(m, r.tx)

WorkerOK(r) ==
  /\ r.at # "idle" => r.job \in Jobs /\ jobs[r.job].state # "free"
  /\ r.at \in {"write", "share"} => r.tx \in [type : Types, amount : Amounts]
  /\ r.at \notin {"idle", "dispatch"} => r.say \in Answered
  /\ Question(r.slot)
  /\ Backs(r)

RecordsAreLive == \A m \in Messages : recorded[m] # NoTx => entry[recorded[m]].status = "live"

\* No transaction is the record of two messages.
RecordsAreApart ==
  \A m, n \in Messages : recorded[m] # NoTx /\ recorded[m] = recorded[n] => m = n

\* The inductive invariant of the three safety properties.
IInv ==
  /\ TypeOK /\ TasksAreSaid /\ RecordsAreLive
  /\ \A w \in Workers : Question(pending[w]) /\ WorkerOK(worker[w])
  /\ RecordsAreAgreed /\ CardsAreBacked /\ DoneMeansAnswered

=============================================================================
