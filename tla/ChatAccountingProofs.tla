------------------------- MODULE ChatAccountingProofs -------------------------
(***************************************************************************)
(* Proofs about ChatAccounting: IInv is inductive, for any number of       *)
(* workers, tasks, messages and tries, and gives the safety properties.    *)
(* What a worker holds is justified by messages said and records made;     *)
(* both only grow, so another worker's step cannot take that away.         *)
(***************************************************************************)
EXTENDS ChatAccounting, TLAPS

\* What no step takes back: what was said, the message of a task, a record, an answer.
Grows ==
  /\ \A m \in Messages : said[m] # Unsaid => said'[m] = said[m]
  /\ \A j \in Jobs : jobs[j].state # "free" =>
       jobs'[j].state # "free" /\ jobs'[j].msg = jobs[j].msg
  /\ \A m \in Messages : recorded[m] # NoTx => recorded'[m] = recorded[m]
  /\ \A t \in TxIds : entry[t].status = "live" => entry'[t] = entry[t]
  /\ spent \subseteq spent'

\* Nothing has been said with the words of Unsaid.
LEMMA UnsaidWords == Unsaid.kind = "unsaid" /\ Unsaid \notin Sayings
  <1>1. Unsaid.kind = "unsaid"
    BY DEF Unsaid
  <1>2. \A s \in Saying : s.kind # "unsaid"
    BY DEF Saying
  <1> QED BY <1>1, <1>2, SayingsAssumption

\* What justified a question still does.
LEMMA StableWords ==
  ASSUME TypeOK, Grows, NEW ty, NEW a
  PROVE  /\ Unsure(a) => Unsure(a)'
         /\ Missing => Missing'
         /\ Chosen(ty) => Chosen(ty)'
         /\ Slip(ty, a) => Slip(ty, a)'
  <1>1. \A q \in Messages : said[q].kind # "unsaid" => said'[q] = said[q]
    BY UnsaidWords DEF Grows
  <1>2. Unsure(a) => Unsure(a)'
    BY <1>1 DEF Unsure
  <1>3. Missing => Missing'
    BY <1>1 DEF Missing
  <1>4. Chosen(ty) => Chosen(ty)'
    BY <1>1 DEF Chosen
  <1>5. Slip(ty, a) => Slip(ty, a)'
    BY <1>1 DEF Slip
  <1> QED BY <1>2, <1>3, <1>4, <1>5

\* What justified a record still does.
LEMMA StableAgreed ==
  ASSUME TypeOK, Grows, NEW m \in Messages, NEW ty, NEW a, Agreed(m, ty, a)
  PROVE  Agreed(m, ty, a)'
  <1>1. said'[m] = said[m]
    BY UnsaidWords DEF Grows, Agreed
  <1> QED BY <1>1, StableWords DEF Agreed

\* What backed a card still does.
LEMMA StableBacking ==
  ASSUME TypeOK, Grows, RecordsAreLive, NEW m \in Messages, NEW tx, Backed(m, tx)
  PROVE  Backed(m, tx)'
  <1>1. CASE recorded[m] # NoTx
    BY <1>1 DEF Grows, Backed
  <1>2. CASE said[m].kind = "shared" /\ \E t \in TxIds :
               entry[t] = [status |-> "live", type |-> tx.type, amount |-> tx.amount]
    <2>1. said'[m] = said[m]
      BY <1>2, UnsaidWords DEF Grows
    <2>2. PICK t \in TxIds : entry[t] = [status |-> "live", type |-> tx.type, amount |-> tx.amount]
      BY <1>2
    <2>3. entry'[t] = entry[t]
      BY <2>2 DEF Grows
    <2> QED BY <1>2, <2>1, <2>2, <2>3 DEF Backed
  <1> QED BY <1>1, <1>2 DEF Backed

\* A question is meant as long as its words stand.
LEMMA StableQuestion ==
  ASSUME TypeOK, Grows, NEW q, Question(q)
  PROVE  Question(q)'
  BY StableWords DEF Question

\* A worker that is right stays right, whatever the others do.
LEMMA StableWorker ==
  ASSUME TypeOK, Grows, RecordsAreLive, TasksAreSaid,
         NEW w \in Workers, WorkerOK(worker[w]), worker'[w] = worker[w]
  PROVE  WorkerOK(worker[w])'
  <1>0. PICK r : r = worker[w]
    OBVIOUS
  <1>1. r \in WorkerStates /\ worker'[w] = r /\ WorkerOK(r)
    BY <1>0 DEF TypeOK
  <1>2. Question(r.slot)'
    BY <1>1, StableQuestion DEF WorkerOK
  <1>3. CASE r.at = "idle"
    BY <1>1, <1>2, <1>3 DEF WorkerOK, Backs
  <1>4. CASE r.at # "idle"
    <2>0. PICK m : m = jobs[r.job].msg
      OBVIOUS
    <2>1. r.job \in Jobs /\ jobs[r.job].state # "free" /\ jobs'[r.job].state # "free"
          /\ jobs'[r.job].msg = m
      BY <1>1, <1>4, <2>0 DEF WorkerOK, Grows
    <2>2. m \in Messages /\ said[m] # Unsaid /\ said'[m] = said[m]
      BY <2>0, <2>1 DEF TypeOK, FreeJob, TaskStates, TasksAreSaid, Grows
    <2>3. r.at = "write" => Agreed(m, r.tx.type, r.tx.amount)'
      BY <1>1, <2>0, <2>2, StableAgreed DEF WorkerOK, Backs
    <2>4. r.at = "share" => said'[m].kind = "shared"
      BY <1>1, <2>0, <2>2 DEF WorkerOK, Backs
    <2>5. r.at \in {"clear", "card", "reply"} /\ r.say = "card" => Backed(m, r.tx)'
      BY <1>1, <2>0, <2>2, StableBacking DEF WorkerOK, Backs
    <2> QED BY <1>1, <1>2, <2>1, <2>3, <2>4, <2>5 DEF WorkerOK, Backs
  <1> QED BY <1>3, <1>4

\* A step keeps the invariant if what it adds is right.
LEMMA Step ==
  ASSUME IInv, TypeOK', Grows,
         \A j \in Jobs : jobs'[j].state # "free" =>
           jobs[j].state # "free" \/ said'[jobs'[j].msg] # Unsaid,
         \A j \in Jobs : jobs'[j].state = "done" =>
           \/ jobs[j].state = "done"
           \/ jobs'[j].msg \in spent' \/ said'[jobs'[j].msg].kind = "sticker",
         \A w \in Workers : worker'[w] = worker[w] \/ WorkerOK(worker[w])',
         \A w \in Workers : pending'[w] = pending[w] \/ Question(pending[w])',
         \A m \in Messages : recorded'[m] # NoTx =>
           \/ recorded[m] # NoTx
           \/ /\ entry'[recorded'[m]].status = "live"
              /\ Agreed(m, entry[recorded[m]].type, entry[recorded[m]].amount)',
         \A a \in told' : a \in told \/ (a.say = "card" => Backed(a.msg, a.tx)')
  PROVE  IInv'
  <1> USE DEF IInv
  <1>1. \A j \in Jobs : jobs[j].state # "free" =>
          jobs[j].msg \in Messages /\ said[jobs[j].msg] # Unsaid
          /\ jobs'[j].msg = jobs[j].msg /\ said'[jobs[j].msg] = said[jobs[j].msg]
    BY DEF TypeOK, FreeJob, TaskStates, TasksAreSaid, Grows
  <1>2. TasksAreSaid'
    BY <1>1 DEF TasksAreSaid
  <1>3. \A m \in Messages : recorded[m] # NoTx =>
          /\ recorded'[m] = recorded[m] /\ recorded[m] \in TxIds
          /\ entry[recorded[m]].status = "live" /\ entry'[recorded[m]] = entry[recorded[m]]
    BY DEF Grows, RecordsAreLive, TypeOK
  <1>4. RecordsAreLive'
    BY <1>3 DEF RecordsAreLive
  <1>5. \A w \in Workers : Question(pending[w])'
    <2> SUFFICES ASSUME NEW w \in Workers, pending'[w] = pending[w] PROVE Question(pending[w])'
      OBVIOUS
    <2>1. PICK q : q = pending[w]
      OBVIOUS
    <2>2. Question(q)'
      BY <2>1, StableQuestion
    <2> QED BY <2>1, <2>2
  <1>6. \A w \in Workers : WorkerOK(worker[w])'
    BY StableWorker
  <1>7. RecordsAreAgreed'
    <2> SUFFICES ASSUME NEW m \in Messages, recorded'[m] # NoTx
                 PROVE  Agreed(m, entry[recorded[m]].type, entry[recorded[m]].amount)'
      BY DEF RecordsAreAgreed
    <2>1. CASE recorded[m] # NoTx
      <3>1. PICK ty, a : ty = entry[recorded[m]].type /\ a = entry[recorded[m]].amount
        OBVIOUS
      <3>2. Agreed(m, ty, a)
        BY <2>1, <3>1 DEF RecordsAreAgreed
      <3>3. Agreed(m, ty, a)'
        BY <3>2, StableAgreed
      <3> QED BY <1>3, <2>1, <3>1, <3>3
    <2>2. CASE recorded[m] = NoTx
      BY <2>2
    <2> QED BY <2>1, <2>2
  <1>8. CardsAreBacked'
    <2>1. \A a \in told : a.msg \in Messages
      BY DEF TypeOK
    <2> QED BY <2>1, StableBacking DEF CardsAreBacked
  <1>9. DoneMeansAnswered'
    BY <1>1 DEF DoneMeansAnswered, Grows
  <1> QED BY <1>2, <1>4, <1>5, <1>6, <1>7, <1>8, <1>9

\* The initial state satisfies the inductive invariant.
LEMMA InitIInv == Init => IInv
  <1> SUFFICES ASSUME Init PROVE IInv
    OBVIOUS
  <1> USE DEF Init, Ledger!Init, Ledger!Absent
  <1>1. NoPending \in Questions \cup {NoPending} /\ NoWrite \in Writes
    BY DEF Writes
  <1>2. Idle \in WorkerStates /\ Idle.at = "idle" /\ Idle.slot = NoPending
    BY <1>1 DEF Idle, WorkerStates, Places
  <1>3. TypeOK
    BY <1>2 DEF TypeOK
  <1>4. \A w \in Workers : WorkerOK(worker[w])
    BY <1>2 DEF WorkerOK, Question, Backs
  <1> QED BY <1>3, <1>4
      DEF IInv, TasksAreSaid, RecordsAreLive, Question, RecordsAreAgreed, CardsAreBacked,
        DoneMeansAnswered, FreeJob

\* An idle worker is right.
LEMMA IdleIsOK == Idle \in WorkerStates /\ (Question(Idle.slot) /\ Backs(Idle))' /\ Idle.at = "idle"
  <1>1. Idle \in WorkerStates /\ Idle.at = "idle" /\ Idle.slot = NoPending
    BY DEF Idle, WorkerStates, Places, Writes
  <1> QED BY <1>1 DEF Question, Backs

\* The webhook adds a task, and what its message says.
LEMMA EnqueueInv ==
  ASSUME IInv, NEW m \in Messages, NEW j \in Jobs, EnqueueLineEvent(m, j)
  PROVE  IInv'
  <1> USE DEF IInv, EnqueueLineEvent
  <1>1. PICK s \in Sayings \cup {Unsaid} : /\ said' = [said EXCEPT ![m] = s]
                                           /\ said[m] # Unsaid => s = said[m]
                                           /\ s # Unsaid
    <2>1. CASE said[m] = Unsaid
      BY <2>1, UnsaidWords
    <2>2. CASE said[m] # Unsaid
      BY <2>2 DEF TypeOK
    <2> QED BY <2>1, <2>2
  <1>2. PICK q \in TaskStates : jobs' = [jobs EXCEPT ![j] = q] /\ q.state = "queued" /\ q.msg = m
    <2> DEFINE new == [state |-> "queued", msg |-> m, tries |-> 0]
    <2>1. new \in TaskStates /\ new.state = "queued" /\ new.msg = m
      BY RetryAssumption DEF TaskStates
    <2>2. jobs' = [jobs EXCEPT ![j] = new]
      OBVIOUS
    <2> QED BY <2>1, <2>2
  <1>3. UNCHANGED <<worker, pending, spent, told, entry, recorded>>
    BY DEF answers, ledgerVars
  <1>4. TypeOK'
    BY <1>1, <1>2, <1>3 DEF TypeOK
  <1>5. Grows
    BY <1>1, <1>2, <1>3 DEF Grows, TypeOK
  <1>6. \A k \in Jobs : jobs'[k] = jobs[k] \/ (k = j /\ jobs'[k] = q)
    BY <1>2 DEF TypeOK
  <1>7. said'[m] # Unsaid
    BY <1>1 DEF TypeOK
  <1> QED BY <1>2, <1>3, <1>4, <1>5, <1>6, <1>7, Step

\* A free worker takes a task.
LEMMA TakeInv ==
  ASSUME IInv, NEW w \in Workers, NEW j \in Jobs, Take(w, j)
  PROVE  IInv'
  <1> USE DEF IInv, Take
  <1>1. UNCHANGED <<said, pending, spent, told, entry, recorded>>
    BY DEF answers, ledgerVars
  <1>2. jobs[j] \in TaskStates /\ jobs[j].state = "queued"
    BY DEF TypeOK, FreeJob
  <1>3. PICK q \in TaskStates : jobs' = [jobs EXCEPT ![j] = q] /\ q.state = "active"
                               /\ q.msg = jobs[j].msg
    <2> DEFINE new == [jobs[j] EXCEPT !.state = "active"]
    <2>1. new \in TaskStates /\ new.state = "active" /\ new.msg = jobs[j].msg
      BY <1>2 DEF TaskStates
    <2>2. jobs' = [jobs EXCEPT ![j] = new]
      OBVIOUS
    <2> QED BY <2>1, <2>2
  <1>4. PICK r \in WorkerStates : /\ worker' = [worker EXCEPT ![w] = r] /\ r.job = j
                                 /\ r.at = "dispatch" /\ r.slot = NoPending
    <2> DEFINE new == [Idle EXCEPT !.job = j, !.at = "dispatch"]
    <2>1. new \in WorkerStates /\ new.job = j /\ new.at = "dispatch" /\ new.slot = NoPending
      BY IdleIsOK DEF Idle, WorkerStates, Places
    <2>2. worker' = [worker EXCEPT ![w] = new]
      OBVIOUS
    <2> QED BY <2>1, <2>2
  <1>5. TypeOK'
    BY <1>1, <1>3, <1>4 DEF TypeOK
  <1>6. \A k \in Jobs : jobs'[k] = IF k = j THEN q ELSE jobs[k]
    BY <1>3 DEF TypeOK
  <1>7. Grows
    BY <1>1, <1>2, <1>3, <1>6 DEF Grows
  <1>8. \A v \in Workers : worker'[v] = IF v = w THEN r ELSE worker[v]
    BY <1>4 DEF TypeOK
  <1>9. WorkerOK(worker[w])'
    BY <1>3, <1>4, <1>6, <1>8 DEF WorkerOK, Question, Backs
  <1> QED BY <1>1, <1>2, <1>3, <1>5, <1>6, <1>7, <1>8, <1>9, Step

\* A worker goes on to a place where it is right.
LEMMA MoveInv ==
  ASSUME IInv, NEW w \in Workers, worker[w].at # "idle",
         NEW r \in WorkerStates, worker' = [worker EXCEPT ![w] = r], r.job = worker[w].job,
         r.at \in {"write", "share"} => r.tx \in [type : Types, amount : Amounts],
         r.say \in Answered, Question(r.slot), Backs(r),
         UNCHANGED <<said, jobs, spent, told, entry, recorded>>,
         pending' \in [Workers -> Questions \cup {NoPending, Expired}],
         \A v \in Workers : Question(pending'[v])
  PROVE  IInv'
  <1> USE DEF IInv
  <1>1. \A v \in Workers : worker'[v] = IF v = w THEN r ELSE worker[v]
    BY DEF TypeOK
  <1>2. TypeOK'
    BY DEF TypeOK
  <1>3. Grows
    BY DEF Grows
  <1>4. r.job \in Jobs /\ jobs[r.job].state # "free"
    BY DEF WorkerOK
  <1>5. Question(r.slot)'
    BY <1>3, StableQuestion
  <1>6. Backs(r)'
    BY DEF Backs, Agreed, Backed, Unsure, Missing, Chosen, Slip
  <1>7. WorkerOK(worker[w])'
    BY <1>1, <1>4, <1>5, <1>6 DEF WorkerOK
  <1>8. \A v \in Workers : Question(pending[v])'
    BY DEF Question, Unsure, Missing, Chosen, Slip
  <1> QED BY <1>1, <1>2, <1>3, <1>7, <1>8, Step

\* What a busy worker serves.
LEMMA Busy ==
  ASSUME IInv, NEW w \in Workers, worker[w].at # "idle"
  PROVE  /\ worker[w] \in WorkerStates /\ WorkerOK(worker[w])
         /\ worker[w].job \in Jobs /\ jobs[worker[w].job] \in TaskStates
         /\ Msg(w) \in Messages /\ Says(w) \in Sayings /\ Says(w) \in Saying
  <1>1. worker[w] \in WorkerStates /\ WorkerOK(worker[w])
    BY DEF IInv, TypeOK
  <1>2. worker[w].job \in Jobs /\ jobs[worker[w].job].state # "free"
    BY <1>1 DEF WorkerOK
  <1>3. jobs[worker[w].job] \in TaskStates
    BY <1>2 DEF IInv, TypeOK, FreeJob
  <1>4. Msg(w) \in Messages /\ said[Msg(w)] # Unsaid
    BY <1>2, <1>3 DEF Msg, TaskStates, IInv, TasksAreSaid
  <1>5. Says(w) \in Sayings
    BY <1>4 DEF Says, IInv, TypeOK
  <1> QED BY <1>1, <1>2, <1>3, <1>4, <1>5, SayingsAssumption

\* A plan that is agreed keeps the invariant.
LEMMA PlanInv ==
  ASSUME IInv, NEW w \in Workers, worker[w].at # "idle",
         NEW at \in {"reply", "save", "clear", "write", "share"},
         NEW slot \in Questions \cup {NoPending}, NEW tx \in Writes, NEW say \in Answered,
         Plan(w, at, slot, tx, say), Question(slot),
         at \in {"write", "share"} => tx \in [type : Types, amount : Amounts],
         at = "write" => Agreed(Msg(w), tx.type, tx.amount),
         at = "share" => Says(w).kind = "shared",
         at \notin {"write", "share"} => say # "card"
  PROVE  IInv'
  <1> DEFINE r == [worker[w] EXCEPT !.at = at, !.slot = slot, !.tx = tx, !.say = say]
  <1>1. worker[w] \in WorkerStates
    BY Busy
  <1>2. r \in WorkerStates
    BY <1>1 DEF WorkerStates, Places
  <1>3. r.job = worker[w].job /\ r.at = at /\ r.slot = slot /\ r.tx = tx /\ r.say = say
    BY <1>1 DEF WorkerStates
  <1>4. worker' = [worker EXCEPT ![w] = r]
    BY DEF Plan
  <1>5. UNCHANGED <<said, jobs, spent, told, entry, recorded, pending>>
    BY DEF Plan, queueVars, answers, ledgerVars
  <1>6. PICK q \in WorkerStates : q = r
    BY <1>2
  <1>7. Backs(q)
    BY <1>3, <1>6 DEF Backs, Msg, Says
  <1>8. /\ pending' \in [Workers -> Questions \cup {NoPending, Expired}]
        /\ \A v \in Workers : Question(pending'[v])
    BY <1>5 DEF IInv, TypeOK
  <1> HIDE DEF r
  <1> QED BY <1>3, <1>4, <1>5, <1>6, <1>7, <1>8, MoveInv

\* The words of a message that carries an amount, or none.
LEMMA SayingWords ==
  ASSUME NEW s \in Saying
  PROVE  /\ s.kind \in {"sure", "shared"} => s.type \in Types /\ s.amount \in Amounts
         /\ s.kind \in {"unsure", "number"} => s.amount \in Amounts
         /\ s.kind = "slip" => s.type \in Types \cup {"none"} /\ s.amount \in Amounts \cup {0}
         /\ s.kind \in {"missing", "refusal", "sticker", "chat", "choice"} => s.amount = 0
         /\ s.kind \in {"sure", "shared", "unsure", "number", "slip", "choice", "missing",
                       "refusal", "sticker", "chat"}
         /\ s.amount > 0 => s.amount \in Amounts
  BY AmountsAssumption DEF Saying

\* The parser hands on positive amounts only (AmountsAssumption).
LEMMA PositiveAmounts == \A a \in Amounts : a \in Nat /\ a > 0
  BY AmountsAssumption

\* Plans without a write, and without a question.
LEMMA AnswerInv ==
  ASSUME IInv, NEW w \in Workers, worker[w].at # "idle", NEW say \in Answered \ {"card"},
         Answer(w, say)
  PROVE  IInv'
  <1>1. Question(NoPending) /\ NoWrite \in Writes
    BY DEF Question, Writes
  <1> QED BY <1>1, PlanInv DEF Answer

\* A plan that ends without a write keeps the invariant.
LEMMA DropInv ==
  ASSUME IInv, NEW w \in Workers, worker[w].at # "idle", Drop(w)
  PROVE  IInv'
  <1>1. Question(NoPending) /\ NoWrite \in Writes /\ "dropped" \in Answered
    BY DEF Question, Writes, Answered
  <1> QED BY <1>1, PlanInv DEF Drop

\* So does a plan that asks: its question is one a message left open.
LEMMA AskInv ==
  ASSUME IInv, NEW w \in Workers, worker[w].at # "idle", NEW q \in Questions, Question(q),
         Ask(w, q)
  PROVE  IInv'
  <1>1. NoWrite \in Writes /\ "ask" \in Answered
    BY DEF Writes, Answered
  <1> QED BY <1>1, PlanInv DEF Ask

\* So does a plan to write what was agreed.
LEMMA RecordInv ==
  ASSUME IInv, NEW w \in Workers, worker[w].at # "idle", NEW at \in {"write", "share"},
         NEW slot \in Questions \cup {NoPending}, Question(slot),
         NEW ty \in Types, NEW a \in Amounts, Record(w, at, slot, ty, a),
         at = "write" => Agreed(Msg(w), ty, a),
         at = "share" => Says(w).kind = "shared"
  PROVE  IInv'
  <1> DEFINE tx == [type |-> ty, amount |-> a]
  <1>1. tx \in [type : Types, amount : Amounts] /\ tx \in Writes /\ "card" \in Answered
        /\ tx.type = ty /\ tx.amount = a
    BY DEF Writes, Answered
  <1>2. Plan(w, at, slot, tx, "card")
    BY DEF Record
  <1> HIDE DEF tx
  <1> QED BY <1>1, <1>2, PlanInv

\* What is read as a pending action was meant as a question.
LEMMA ReadIsQuestion ==
  ASSUME IInv, NEW p \in PendingReads
  PROVE  p \in Questions \cup {NoPending} /\ Question(p) /\ p # Expired
  <1>1. NoPending # Expired /\ Question(NoPending)
    BY PendingAssumption DEF Expired, Question
  <1>2. CASE p = NoPending
    BY <1>1, <1>2
  <1>3. CASE p # NoPending
    BY <1>3 DEF PendingReads, IInv, TypeOK
  <1> QED BY <1>2, <1>3

\* The answer to a question records what it asked for, or asks for the amount.
LEMMA ChoiceInv ==
  ASSUME IInv, NEW w \in Workers, HandlePendingAccountingChoice(w)
  PROVE  IInv'
  <1> USE DEF HandlePendingAccountingChoice
  <1>1. worker[w].at # "idle" /\ Says(w).kind = "choice" /\ Msg(w) \in Messages
    BY Busy
  <1>2. PICK p \in PendingReads :
       \/ p = NoPending /\ Answer(w, "which")
       \/ p # NoPending /\ Says(w).type \notin Types /\ Drop(w)
       \/ /\ p # NoPending /\ Says(w).type \in Types /\ p.amount = 0
          /\ Ask(w, [type |-> Says(w).type, amount |-> 0])
       \/ /\ p # NoPending /\ Says(w).type \in Types /\ p.amount > 0
          /\ Record(w, "write", p, Says(w).type, p.amount)
    OBVIOUS
  <1>3. p \in Questions \cup {NoPending} /\ Question(p) /\ p # Expired
    BY ReadIsQuestion
  <1>4. CASE Answer(w, "which")
    BY <1>1, <1>4, AnswerInv DEF Answered
  <1>5. CASE Drop(w)
    BY <1>1, <1>5, DropInv
  <1>6. CASE /\ p # NoPending /\ Says(w).type \in Types /\ p.amount = 0
             /\ Ask(w, [type |-> Says(w).type, amount |-> 0])
    <2> DEFINE q == [type |-> Says(w).type, amount |-> 0]
    <2>1. q \in Questions /\ q.type = Says(w).type /\ q.amount = 0
      BY <1>6 DEF Questions
    <2>2. Missing
      BY <1>3, <1>6 DEF Question
    <2>3. Chosen(q.type)
      BY <1>1 DEF Chosen, Says
    <2>4. Question(q)
      BY <2>1, <2>2, <2>3 DEF Question
    <2> HIDE DEF q
    <2>5. Ask(w, q)
      BY <1>6 DEF q
    <2> QED BY <1>1, <2>1, <2>4, <2>5, AskInv
  <1>7. CASE /\ p # NoPending /\ Says(w).type \in Types /\ p.amount > 0
             /\ Record(w, "write", p, Says(w).type, p.amount)
    <2>1. p.amount \in Amounts
      BY <1>3, <1>7, AmountsAssumption DEF Questions
    <2>2. Unsure(p.amount)
      BY <1>3, <1>7 DEF Question
    <2>3. Agreed(Msg(w), Says(w).type, p.amount)
      BY <1>1, <2>2 DEF Agreed, Says
    <2> QED BY <1>1, <1>3, <1>7, <2>1, <2>3, RecordInv
  <1> QED BY <1>2, <1>4, <1>5, <1>6, <1>7

\* The amount that was asked for is recorded with the direction the user chose.
LEMMA AmountInv ==
  ASSUME IInv, NEW w \in Workers, HandlePendingAmount(w)
  PROVE  IInv'
  <1> USE DEF HandlePendingAmount
  <1>1. worker[w].at # "idle" /\ Msg(w) \in Messages /\ Says(w) \in Saying
    BY Busy
  <1>2. PICK p \in PendingReads :
          /\ AwaitsAmount(p)
          /\ Says(w).amount > 0 => Record(w, "write", p, p.type, Says(w).amount)
          /\ ~ (Says(w).amount > 0) => Answer(w, "ask")
    OBVIOUS
  <1>3. /\ p \in Questions /\ Question(p) /\ p.amount = 0 /\ p.type \in Types /\ p # NoPending
        /\ Missing /\ (Chosen(p.type) \/ Slip(p.type, 0))
    BY <1>2, ReadIsQuestion DEF AwaitsAmount, Questions, Question, Types
  <1>4. CASE Says(w).amount > 0
    <2>1. Says(w).amount \in Amounts /\ Says(w).kind \in {"sure", "unsure", "number", "shared"}
      BY <1>1, <1>4, SayingWords
    <2>2. Agreed(Msg(w), p.type, Says(w).amount)
      BY <1>3, <2>1 DEF Agreed, Says
    <2>3. Record(w, "write", p, p.type, Says(w).amount)
      BY <1>2, <1>4
    <2> QED BY <1>1, <1>3, <2>1, <2>2, <2>3, RecordInv
  <1>5. CASE ~ (Says(w).amount > 0)
    BY <1>1, <1>2, <1>5, AnswerInv DEF Answered
  <1> QED BY <1>4, <1>5

\* A text, a slip, a household or business text.
LEMMA TextInv ==
  ASSUME IInv, NEW w \in Workers, HandleText(w) \/ HandleImage(w) \/ HandleShared(w)
  PROVE  IInv'
  <1>1. worker[w].at # "idle" /\ Msg(w) \in Messages /\ Says(w) \in Saying
    BY Busy DEF HandleText, HandleImage, HandleShared
  <1>2. Question(NoPending)
    BY DEF Question
  <1>3. ASSUME Ask(w, [type |-> "none", amount |-> Says(w).amount]),
               Says(w).kind \in {"unsure", "missing", "shared"}
        PROVE  IInv'
    <2> DEFINE q == [type |-> "none", amount |-> Says(w).amount]
    <2>1. q \in Questions /\ q.type = "none" /\ q.amount = Says(w).amount
      BY <1>1, <1>3, SayingWords DEF Questions
    <2>2. CASE Says(w).kind = "missing"
      <3>1. Says(w).amount = 0
        BY <1>1, <2>2, SayingWords
      <3>2. Missing
        BY <1>1, <2>2 DEF Missing, Says
      <3> HIDE DEF q
      <3>3. Question(q)
        BY <2>1, <3>1, <3>2 DEF Question
      <3>4. Ask(w, q)
        BY <1>3 DEF q
      <3> QED BY <1>1, <2>1, <3>3, <3>4, AskInv
    <2>3. CASE Says(w).kind # "missing"
      <3>1. Says(w).amount \in Amounts /\ Says(w).amount > 0
        <4>1. Says(w).kind \in {"unsure", "shared"}
          BY <1>3, <2>3
        <4> QED BY <1>1, <4>1, SayingWords, PositiveAmounts
      <3>2. Unsure(Says(w).amount)
        BY <1>1, <1>3, <2>3 DEF Unsure, Says
      <3> HIDE DEF q
      <3>3. Question(q)
        BY <2>1, <3>1, <3>2 DEF Question
      <3>4. Ask(w, q)
        BY <1>3 DEF q
      <3> QED BY <1>1, <2>1, <3>3, <3>4, AskInv
    <2> QED BY <2>2, <2>3
  <1>4. ASSUME Answer(w, "chat") PROVE IInv'
    BY <1>1, <1>4, AnswerInv DEF Answered
  <1>5. CASE HandleText(w)
    <2>1. CASE Says(w).kind = "sure"
      <3>1. Record(w, "write", NoPending, Says(w).type, Says(w).amount)
        BY <1>5, <2>1 DEF HandleText
      <3>2. Agreed(Msg(w), Says(w).type, Says(w).amount)
        BY <2>1 DEF Agreed, Says
      <3> QED BY <1>1, <1>2, <2>1, <3>1, <3>2, SayingWords, RecordInv
    <2>2. CASE Says(w).kind \in {"unsure", "missing"}
      BY <1>3, <1>5, <2>2 DEF HandleText
    <2>3. CASE Says(w).kind = "refusal"
      BY <1>1, <1>5, <2>3, DropInv DEF HandleText
    <2>4. CASE Says(w).kind \notin {"sure", "unsure", "missing", "refusal"}
      BY <1>4, <1>5, <2>4 DEF HandleText
    <2> QED BY <2>1, <2>2, <2>3, <2>4
  <1>6. CASE HandleImage(w)
    <2> DEFINE q == [type |-> Says(w).type, amount |-> Says(w).amount]
    <2>1. Says(w).kind = "slip" /\ (Ask(w, q) \/ Answer(w, "chat"))
      BY <1>6 DEF HandleImage
    <2>2. /\ q \in Questions /\ q.type = Says(w).type /\ q.amount = Says(w).amount
          /\ q.type = "none" \/ q.type \in Types
          /\ q.amount = 0 \/ q.amount > 0
      BY <1>1, <2>1, SayingWords, PositiveAmounts DEF Questions
    <2>3. Slip(q.type, q.amount)
      BY <1>1, <2>1, <2>2 DEF Slip, Says
    <2>4. q.amount > 0 => Unsure(q.amount)
      BY <1>1, <2>1, <2>2 DEF Unsure, Says
    <2>5. q.amount = 0 => Missing
      BY <1>1, <2>1, <2>2 DEF Missing, Says
    <2> HIDE DEF q
    <2>6. Question(q)
      BY <2>2, <2>3, <2>4, <2>5 DEF Question
    <2> QED BY <1>1, <1>4, <2>1, <2>2, <2>6, AskInv
  <1>7. CASE HandleShared(w)
    <2>1. CASE Record(w, "share", NoPending, Says(w).type, Says(w).amount)
      BY <1>1, <1>2, <1>7, <2>1, SayingWords, RecordInv DEF HandleShared
    <2> QED BY <1>3, <1>4, <1>7, <2>1 DEF HandleShared
  <1> QED BY <1>5, <1>6, <1>7

\* The pending action is saved or cleared, and what was saved is what was asked.
LEMMA PendingInv ==
  ASSUME IInv, NEW w \in Workers,
         SavePendingAccounting(w) \/ InsertPendingAccounting(w) \/ ClearPendingAccounting(w)
  PROVE  IInv'
  <1> USE DEF SavePendingAccounting, InsertPendingAccounting, ClearPendingAccounting
  <1>1. worker[w].at # "idle" /\ worker[w] \in WorkerStates /\ WorkerOK(worker[w])
    BY Busy
  <1>2. PICK at \in {"insert", "card", "reply"} :
          /\ worker' = [worker EXCEPT ![w].at = at]
          /\ worker[w].at \in {"save", "insert", "clear"}
          /\ worker[w].at \in {"save", "insert"} => at # "card"
          /\ worker[w].at = "clear" => at # "insert"
    BY DEF GoTo
  <1> DEFINE r == [worker[w] EXCEPT !.at = at]
  <1>3. r \in WorkerStates
    BY <1>1 DEF WorkerStates, Places
  <1>4. r.job = worker[w].job /\ r.at = at /\ r.slot = worker[w].slot /\ r.tx = worker[w].tx
        /\ r.say = worker[w].say
    BY <1>1 DEF WorkerStates
  <1>5. worker' = [worker EXCEPT ![w] = r]
    BY <1>2
  <1>6. PICK q \in WorkerStates : q = r
    BY <1>3
  <1>7. q.say \in Answered /\ Question(q.slot)
    BY <1>1, <1>2, <1>4, <1>6 DEF WorkerOK
  <1>8. worker[w].at = "clear" => Backs(q)
    BY <1>1, <1>2, <1>4, <1>6 DEF WorkerOK, Backs
  <1>9. worker[w].at # "clear" => Backs(q)
    BY <1>1, <1>2, <1>4, <1>6 DEF WorkerOK, Backs
  <1>10. UNCHANGED <<said, jobs, spent, told, entry, recorded>>
    BY DEF queueVars, answers, ledgerVars
  <1>11. PICK slot \in Questions \cup {NoPending} : slot = worker[w].slot /\ Question(slot)
    BY <1>1 DEF WorkerOK, WorkerStates
  <1>12. /\ pending \in [Workers -> Questions \cup {NoPending, Expired}]
         /\ \A v \in Workers : Question(pending[v])
    BY DEF IInv, TypeOK
  <1>13. \/ UNCHANGED pending
         \/ \E v \in Workers : pending' = [pending EXCEPT ![v] = slot]
         \/ pending' = [v \in Workers |-> NoPending]
    BY <1>11
  <1>14. /\ pending' \in [Workers -> Questions \cup {NoPending, Expired}]
         /\ \A v \in Workers : Question(pending'[v])
    <2>1. CASE UNCHANGED pending
      BY <1>12, <2>1
    <2>2. CASE \E v \in Workers : pending' = [pending EXCEPT ![v] = slot]
      BY <1>11, <1>12, <2>2
    <2>3. CASE pending' = [v \in Workers |-> NoPending]
      BY <2>3 DEF Question
    <2> QED BY <1>13, <2>1, <2>2, <2>3
  <1> HIDE DEF r
  <1> QED BY <1>1, <1>2, <1>4, <1>5, <1>6, <1>7, <1>8, <1>9, <1>10, <1>14, MoveInv

\* A pending action expires.
LEMMA ExpireInv ==
  ASSUME IInv, NEW w \in Workers, Expire(w)
  PROVE  IInv'
  <1>1. /\ UNCHANGED <<said, jobs, worker, spent, told, entry, recorded>>
        /\ pending' = [pending EXCEPT ![w] = Expired]
    BY DEF Expire, queueVars, answers, ledgerVars
  <1>2. /\ pending' \in [Workers -> Questions \cup {NoPending, Expired}]
        /\ \A v \in Workers : pending'[v] = IF v = w THEN Expired ELSE pending[v]
    BY <1>1 DEF IInv, TypeOK
  <1>3. TypeOK' /\ Grows /\ Question(Expired)'
    BY <1>1, <1>2 DEF IInv, TypeOK, Grows, Question, Expired
  <1> QED BY <1>1, <1>2, <1>3, Step

\* A write makes the record of its message, or finds it, or makes a record of its own.
LEMMA LedgerWriteAdds ==
  ASSUME IInv, NEW w \in Workers, LedgerWrite(w), UNCHANGED <<said, jobs, spent>>,
         NEW m \in Messages, m = Msg(w), NEW tx, tx = worker[w].tx
  PROVE  /\ entry' \in [TxIds -> [status : {"absent", "live"}, type : Types \cup {"none"},
                                  amount : Amounts \cup {0}]]
         /\ recorded' \in [Messages -> TxIds \cup {NoTx}]
         /\ Grows
         /\ Backed(m, tx)'
         /\ \A c \in Messages : recorded'[c] # NoTx =>
              \/ recorded[c] # NoTx
              \/ /\ entry'[recorded'[c]].status = "live"
                 /\ Agreed(c, entry[recorded[c]].type, entry[recorded[c]].amount)'
  <1>1. worker[w].at \in {"write", "share"}
    BY DEF LedgerWrite
  <1>2. WorkerOK(worker[w])
    BY <1>1, Busy
  <1>3. PICK ty \in Types, a \in Amounts : tx.type = ty /\ tx.amount = a
    BY <1>1, <1>2 DEF WorkerOK
  <1> DEFINE new == [status |-> "live", type |-> ty, amount |-> a]
  <1>4. new.status = "live" /\ new.type = ty /\ new.amount = a
        /\ new \in [status : {"absent", "live"}, type : Types \cup {"none"},
                    amount : Amounts \cup {0}]
    OBVIOUS
  <1>5. new = [status |-> "live", type |-> tx.type, amount |-> tx.amount]
    BY <1>3
  <1>6. Ledger!Absent.status = "absent"
    BY DEF Ledger!Absent
  <1>7. CASE \E t \in TxIds : worker[w].at = "write" /\ Ledger!RecordMessage(Msg(w), t, tx.type, tx.amount)
    <2>1. PICK t \in TxIds : /\ worker[w].at = "write" /\ entry[t] = Ledger!Absent /\ recorded[m] = NoTx
                            /\ entry' = [entry EXCEPT ![t] = new]
                            /\ recorded' = [recorded EXCEPT ![m] = t]
      BY <1>3, <1>7 DEF Ledger!RecordMessage, Ledger!Write
    <2> HIDE DEF new
    <2>2. entry'[t] = new /\ recorded'[m] = t /\ t # NoTx
      BY <2>1, TxIdsAssumption DEF IInv, TypeOK
    <2>3. \A u \in TxIds : u # t => entry'[u] = entry[u]
      BY <2>1 DEF IInv, TypeOK
    <2>4. \A c \in Messages : c # m => recorded'[c] = recorded[c]
      BY <2>1 DEF IInv, TypeOK
    <2>5. Agreed(m, ty, a)
      BY <1>2, <1>3, <2>1 DEF WorkerOK, Backs, Msg
    <2>6. Agreed(m, entry[recorded[m]].type, entry[recorded[m]].amount)'
      BY <1>4, <2>2, <2>5 DEF Agreed, Unsure, Missing, Chosen, Slip
    <2>7. Grows
      BY <1>6, <2>1, <2>3, <2>4 DEF Grows
    <2>8. Backed(m, tx)'
      BY <2>2 DEF Backed
    <2>9. entry' \in [TxIds -> [status : {"absent", "live"}, type : Types \cup {"none"},
                               amount : Amounts \cup {0}]]
          /\ recorded' \in [Messages -> TxIds \cup {NoTx}]
      BY <1>4, <2>1 DEF IInv, TypeOK
    <2> QED BY <1>4, <2>2, <2>4, <2>6, <2>7, <2>8, <2>9
  <1>8. CASE worker[w].at = "write" /\ recorded[m] # NoTx /\ UNCHANGED <<entry, recorded>>
    <2>1. Grows /\ Backed(m, tx)'
      BY <1>8 DEF Grows, Backed
    <2> QED BY <1>8, <2>1 DEF IInv, TypeOK
  <1>9. CASE \E t \in TxIds : worker[w].at = "share" /\ Ledger!Record(t, tx.type, tx.amount)
    <2>1. PICK t \in TxIds : /\ worker[w].at = "share" /\ entry[t] = Ledger!Absent
                            /\ entry' = [entry EXCEPT ![t] = new] /\ recorded' = recorded
      BY <1>3, <1>9 DEF Ledger!Record, Ledger!Write
    <2> HIDE DEF new
    <2>2. entry'[t] = new
      BY <2>1 DEF IInv, TypeOK
    <2>3. \A u \in TxIds : u # t => entry'[u] = entry[u]
      BY <2>1 DEF IInv, TypeOK
    <2>4. Grows
      BY <1>6, <2>1, <2>3 DEF Grows
    <2>5. said'[m].kind = "shared"
      BY <1>2, <2>1 DEF WorkerOK, Backs, Msg
    <2>6. Backed(m, tx)'
      BY <1>5, <2>2, <2>5 DEF Backed
    <2>7. entry' \in [TxIds -> [status : {"absent", "live"}, type : Types \cup {"none"},
                               amount : Amounts \cup {0}]]
      BY <1>4, <2>1 DEF IInv, TypeOK
    <2> QED BY <2>1, <2>4, <2>6, <2>7 DEF IInv, TypeOK
  <1> QED BY <1>7, <1>8, <1>9 DEF LedgerWrite, ledgerVars

\* After a write a worker may claim it, and after its error it claims nothing.
LEMMA AfterWriteInv ==
  ASSUME IInv, NEW w \in Workers, worker[w].at \in {"write", "share"},
         NEW r \in WorkerStates, worker' = [worker EXCEPT ![w] = r],
         r.job = worker[w].job, r.slot = worker[w].slot, r.tx = worker[w].tx,
         r.at \in {"card", "clear", "reply"}, r.say \in Answered,
         LedgerWrite(w) \/ (UNCHANGED ledgerVars /\ r.say # "card"),
         UNCHANGED <<said, jobs, spent, told, pending>>
  PROVE  IInv'
  <1>1. WorkerOK(worker[w]) /\ Msg(w) \in Messages
    BY Busy
  <1>2. PICK m \in Messages : m = Msg(w) /\ m = jobs'[r.job].msg
    BY <1>1 DEF Msg
  <1>3. /\ entry' \in [TxIds -> [status : {"absent", "live"}, type : Types \cup {"none"},
                                 amount : Amounts \cup {0}]]
        /\ recorded' \in [Messages -> TxIds \cup {NoTx}]
        /\ Grows
        /\ r.say = "card" => Backed(m, r.tx)'
        /\ \A c \in Messages : recorded'[c] # NoTx =>
             \/ recorded[c] # NoTx
             \/ /\ entry'[recorded'[c]].status = "live"
                /\ Agreed(c, entry[recorded[c]].type, entry[recorded[c]].amount)'
    <2>1. CASE LedgerWrite(w)
      BY <1>2, <2>1, LedgerWriteAdds
    <2>2. CASE UNCHANGED ledgerVars /\ r.say # "card"
      BY <2>2 DEF ledgerVars, Grows, IInv, TypeOK
    <2> QED BY <2>1, <2>2
  <1>4. TypeOK'
    BY <1>3 DEF IInv, TypeOK
  <1>5. \A v \in Workers : worker'[v] = IF v = w THEN r ELSE worker[v]
    BY DEF IInv, TypeOK
  <1>6. Question(r.slot)'
    BY <1>1, <1>3, StableQuestion DEF IInv, WorkerOK
  <1>7. r.job \in Jobs /\ jobs'[r.job].state # "free"
    BY <1>1 DEF WorkerOK
  <1>8. Backs(r)'
    BY <1>2, <1>3 DEF Backs
  <1>9. WorkerOK(worker[w])'
    BY <1>5, <1>6, <1>7, <1>8 DEF WorkerOK
  <1> QED BY <1>3, <1>4, <1>5, <1>9, Step DEF IInv

\* The write succeeds, or reports an error.
LEMMA WriteInv ==
  ASSUME IInv, NEW w \in Workers, Write(w) \/ WriteFails(w)
  PROVE  IInv'
  <1>1. worker[w].at \in {"write", "share"}
    BY DEF Write, WriteFails, LedgerWrite
  <1>2. worker[w] \in WorkerStates /\ WorkerOK(worker[w])
    BY <1>1, Busy
  <1>3. UNCHANGED <<said, jobs, spent, told, pending>>
    BY DEF Write, WriteFails, queueVars, answers
  <1>4. CASE Write(w)
    <2>1. PICK at \in {"card", "clear"} : worker' = [worker EXCEPT ![w].at = at]
      BY <1>4 DEF Write, GoTo
    <2> DEFINE r == [worker[w] EXCEPT !.at = at]
    <2>2. /\ r \in WorkerStates /\ r.job = worker[w].job /\ r.slot = worker[w].slot
          /\ r.tx = worker[w].tx /\ r.say = worker[w].say /\ r.at = at
      BY <1>2 DEF WorkerStates, Places
    <2>3. worker' = [worker EXCEPT ![w] = r]
      BY <2>1
    <2>4. r.say \in Answered
      BY <1>1, <1>2, <2>2 DEF WorkerOK
    <2>5. LedgerWrite(w)
      BY <1>4 DEF Write
    <2>6. PICK q \in WorkerStates : q = r
      BY <2>2
    <2> HIDE DEF r
    <2> QED BY <1>1, <1>3, <2>2, <2>3, <2>4, <2>5, <2>6, AfterWriteInv
  <1>5. CASE WriteFails(w)
    <2> DEFINE r == [worker[w] EXCEPT !.at = "reply", !.say = "failed"]
    <2>1. /\ r \in WorkerStates /\ r.job = worker[w].job /\ r.slot = worker[w].slot
          /\ r.tx = worker[w].tx /\ r.say = "failed" /\ r.at = "reply"
      BY <1>2 DEF WorkerStates, Places, Answered
    <2>2. worker' = [worker EXCEPT ![w] = r]
      BY <1>5 DEF WriteFails
    <2>3. r.say \in Answered /\ r.say # "card"
      BY <2>1 DEF Answered
    <2>4. UNCHANGED ledgerVars \/ LedgerWrite(w)
      BY <1>5 DEF WriteFails
    <2>5. PICK q \in WorkerStates : q = r
      BY <2>1
    <2> HIDE DEF r
    <2> QED BY <1>1, <1>3, <2>1, <2>2, <2>3, <2>4, <2>5, AfterWriteInv
  <1> QED BY <1>4, <1>5

\* Answering spends the reply token, and shows a card only of what is written.
LEMMA AnswerAdds ==
  ASSUME IInv, NEW w \in Workers, worker[w].at \in {"card", "reply"},
         UNCHANGED answers \/ Accept(w), UNCHANGED <<said, entry, recorded>>
  PROVE  /\ spent \subseteq spent' /\ spent' \subseteq Messages
         /\ told' \subseteq [msg : Messages, say : Answered, tx : Writes]
         /\ \A a \in told' : a \in told \/ (a.say = "card" => Backed(a.msg, a.tx)')
         /\ Accept(w) => Msg(w) \in spent'
  <1>1. worker[w] \in WorkerStates /\ WorkerOK(worker[w]) /\ Msg(w) \in Messages
    BY Busy
  <1>2. CASE UNCHANGED answers /\ ~ Accept(w)
    BY <1>2 DEF answers, IInv, TypeOK
  <1>3. CASE Accept(w)
    <2> DEFINE a == [msg |-> Msg(w), say |-> worker[w].say, tx |-> worker[w].tx]
    <2>1. a \in [msg : Messages, say : Answered, tx : Writes]
      BY <1>1 DEF WorkerStates, WorkerOK
    <2>2. a.say = "card" => Backed(a.msg, a.tx)
      BY <1>1 DEF WorkerOK, Backs, Msg
    <2>3. told' = told \cup {a} /\ spent' = spent \cup {Msg(w)}
      BY <1>3 DEF Accept
    <2>4. PICK b : b = a
      OBVIOUS
    <2> HIDE DEF a
    <2>5. b.say = "card" => Backed(b.msg, b.tx)'
      BY <2>2, <2>4 DEF Backed
    <2> QED BY <1>1, <2>1, <2>3, <2>4, <2>5 DEF IInv, TypeOK
  <1> QED BY <1>2, <1>3

\* A function with one value replaced.
LEMMA OneValue ==
  ASSUME NEW S, NEW T, NEW f \in [S -> T], NEW k \in S, NEW q \in T, NEW g,
         g = [f EXCEPT ![k] = q]
  PROVE  /\ g \in [S -> T]
         /\ \A i \in S : g[i] = IF i = k THEN q ELSE f[i]
  OBVIOUS

\* Done and Fail put another state of the same task in its place.
LEMMA TaskChanges ==
  ASSUME IInv, NEW w \in Workers, worker[w].at # "idle", Done(w) \/ Fail(w), said' = said,
         Done(w) => Msg(w) \in spent' \/ Says(w).kind = "sticker"
  PROVE  \E q \in TaskStates :
           /\ jobs' = [jobs EXCEPT ![worker[w].job] = q]
           /\ q.msg = Msg(w)
           /\ q.state = "done" => Msg(w) \in spent' \/ said'[Msg(w)].kind = "sticker"
  <1>1. PICK k \in Jobs : k = worker[w].job
    BY Busy
  <1>2. PICK task : task = jobs[k]
    OBVIOUS
  <1>3. task \in TaskStates /\ task.msg = Msg(w)
    BY Busy, <1>1, <1>2 DEF Msg
  <1>4. CASE Done(w)
    <2> DEFINE q == [task EXCEPT !.state = "done"]
    <2>1. q \in TaskStates /\ q.msg = task.msg
      BY <1>3 DEF TaskStates
    <2>2. jobs' = [jobs EXCEPT ![k] = q]
      BY <1>1, <1>2, <1>4 DEF Done
    <2>3. Msg(w) \in spent' \/ said'[Msg(w)].kind = "sticker"
      BY <1>4 DEF Says
    <2> HIDE DEF q
    <2> QED BY <1>1, <1>3, <2>1, <2>2, <2>3
  <1>5. CASE Fail(w)
    <2> DEFINE again == [task EXCEPT !.state = "queued", !.tries = @ + 1]
    <2> DEFINE kept == [task EXCEPT !.state = "archived"]
    <2>1. jobs' = [jobs EXCEPT ![k] = IF task.tries < MaxRetry THEN again ELSE kept]
      BY <1>1, <1>2, <1>5 DEF Fail
    <2>2. CASE task.tries < MaxRetry
      <3>0. task.tries + 1 \in 0..MaxRetry
        BY <1>3, <2>2, RetryAssumption DEF TaskStates
      <3>1. again \in TaskStates /\ again.msg = task.msg /\ again.state = "queued"
        BY <1>3, <3>0 DEF TaskStates
      <3>2. jobs' = [jobs EXCEPT ![k] = again]
        BY <2>1, <2>2
      <3> HIDE DEF again
      <3> QED BY <1>1, <1>3, <3>1, <3>2
    <2>3. CASE ~ (task.tries < MaxRetry)
      <3>1. kept \in TaskStates /\ kept.msg = task.msg /\ kept.state = "archived"
        BY <1>3 DEF TaskStates
      <3>2. jobs' = [jobs EXCEPT ![k] = kept]
        BY <2>1, <2>3
      <3> HIDE DEF kept
      <3> QED BY <1>1, <1>3, <3>1, <3>2
    <2> QED BY <2>2, <2>3
  <1> QED BY <1>4, <1>5

\* A task that fails is not done.
LEMMA FailChanges ==
  ASSUME IInv, NEW w \in Workers, worker[w].at # "idle", Fail(w)
  PROVE  ~ Done(w)
  <1>1. PICK k \in Jobs : k = worker[w].job
    BY Busy
  <1>2. PICK task \in TaskStates : task = jobs[k]
    BY Busy, <1>1
  <1>3. jobs \in [Jobs -> {FreeJob} \cup TaskStates]
    BY DEF IInv, TypeOK
  <1>4. jobs'[k].state \in {"queued", "archived"}
    BY <1>1, <1>2, <1>3 DEF Fail, TaskStates
  <1>5. Done(w) => jobs'[k].state = "done"
    BY <1>1, <1>2, <1>3 DEF Done, TaskStates
  <1> QED BY <1>4, <1>5

\* A task is finished, tried again or archived, and its worker is idle.
LEMMA TaskInv ==
  ASSUME IInv, NEW w \in Workers, worker[w].at # "idle",
         Done(w) \/ Fail(w),
         Done(w) => Msg(w) \in spent' \/ Says(w).kind = "sticker",
         spent \subseteq spent', spent' \subseteq Messages,
         told' \subseteq [msg : Messages, say : Answered, tx : Writes],
         \A a \in told' : a \in told \/ (a.say = "card" => Backed(a.msg, a.tx)'),
         UNCHANGED <<said, pending, entry, recorded>>
  PROVE  IInv'
  <1>1. PICK k \in Jobs : k = worker[w].job
    BY Busy
  <1>2. PICK m \in Messages : m = Msg(w) /\ jobs[k].msg = m /\ jobs[k].state # "free"
    BY Busy, <1>1 DEF Msg, TaskStates
  <1>3. PICK q \in TaskStates :
          /\ jobs' = [jobs EXCEPT ![k] = q] /\ q.msg = m
          /\ q.state = "done" => m \in spent' \/ said'[m].kind = "sticker"
    BY TaskChanges, <1>1, <1>2
  <1>4. worker' = [worker EXCEPT ![w] = Idle]
    BY DEF Done, Fail
  <1>5. jobs \in [Jobs -> {FreeJob} \cup TaskStates] /\ worker \in [Workers -> WorkerStates]
    BY DEF IInv, TypeOK
  <1>6. /\ jobs' \in [Jobs -> {FreeJob} \cup TaskStates]
        /\ \A i \in Jobs : jobs'[i] = IF i = k THEN q ELSE jobs[i]
    BY <1>3, <1>5, OneValue
  <1>7. q.msg = m /\ q.state # "free"
    BY <1>3 DEF TaskStates
  <1>8. \A i \in Jobs :
          \/ jobs'[i] = jobs[i]
          \/ jobs'[i] = q /\ jobs[i].msg = m /\ jobs[i].state # "free"
    BY <1>2, <1>6
  <1>9. Grows
    <2>1. \A i \in Jobs : jobs[i].state # "free" =>
            jobs'[i].state # "free" /\ jobs'[i].msg = jobs[i].msg
      BY <1>7, <1>8
    <2>2. said' = said /\ recorded' = recorded /\ entry' = entry /\ spent \subseteq spent'
      OBVIOUS
    <2> QED BY <2>1, <2>2 DEF Grows
  <1>10. /\ worker' \in [Workers -> WorkerStates]
         /\ \A v \in Workers : worker'[v] = IF v = w THEN Idle ELSE worker[v]
    BY <1>4, <1>5, IdleIsOK, OneValue
  <1>11. WorkerOK(Idle)'
    BY IdleIsOK DEF WorkerOK, Idle
  <1>12. \A v \in Workers : worker'[v] = worker[v] \/ WorkerOK(worker[v])'
    BY <1>10, <1>11
  <1>13. \A i \in Jobs : jobs'[i].state = "done" =>
           \/ jobs[i].state = "done"
           \/ jobs'[i].msg \in spent' \/ said'[jobs'[i].msg].kind = "sticker"
    BY <1>3, <1>7, <1>8
  <1>14. \A i \in Jobs : jobs'[i].state # "free" =>
           jobs[i].state # "free" \/ said'[jobs'[i].msg] # Unsaid
    BY <1>8
  <1>15. TypeOK'
    BY <1>6, <1>10 DEF IInv, TypeOK
  <1>16. /\ pending' = pending
         /\ \A x \in Messages : recorded'[x] # NoTx => recorded[x] # NoTx
    OBVIOUS
  <1> QED BY <1>9, <1>12, <1>13, <1>14, <1>15, <1>16, Step

\* A crash, an error before anything was written, and a message that is ignored leave the
\* books and the answers alone.
LEMMA QuietEndInv ==
  ASSUME IInv, NEW w \in Workers, Crash(w) \/ ResolveFails(w) \/ IgnoreEvent(w)
  PROVE  IInv'
  <1>1. worker[w].at # "idle" /\ UNCHANGED <<said, pending, spent, told, entry, recorded>>
    BY DEF Crash, ResolveFails, IgnoreEvent, answers, ledgerVars
  <1>2. spent' \subseteq Messages /\ told' \subseteq [msg : Messages, say : Answered, tx : Writes]
    BY <1>1 DEF IInv, TypeOK
  <1>3. CASE IgnoreEvent(w)
    <2>1. Done(w) /\ Says(w).kind = "sticker"
      BY <1>3 DEF IgnoreEvent
    <2> QED BY <1>1, <1>2, <2>1, TaskInv
  <1>4. CASE Crash(w) \/ ResolveFails(w)
    <2>1. Fail(w)
      BY <1>4 DEF Crash, ResolveFails
    <2>2. ~ Done(w)
      BY <1>1, <2>1, FailChanges
    <2> QED BY <1>1, <1>2, <2>1, <2>2, TaskInv
  <1> QED BY <1>3, <1>4

\* The answer ends the task: LINE has taken it, or the task fails.
LEMMA ReplyInv ==
  ASSUME IInv, NEW w \in Workers, Reply(w)
  PROVE  IInv'
  <1>1. worker[w].at = "reply" /\ UNCHANGED <<said, pending, entry, recorded>>
    BY DEF Reply, ledgerVars
  <1>2. UNCHANGED answers \/ Accept(w)
    BY DEF Reply, ReplyError
  <1>3. /\ spent \subseteq spent' /\ spent' \subseteq Messages
        /\ told' \subseteq [msg : Messages, say : Answered, tx : Writes]
        /\ \A a \in told' : a \in told \/ (a.say = "card" => Backed(a.msg, a.tx)')
        /\ Accept(w) => Msg(w) \in spent'
    BY <1>1, <1>2, AnswerAdds
  <1>4. CASE Accept(w) /\ Done(w)
    BY <1>1, <1>3, <1>4, TaskInv
  <1>5. CASE ReplyError(w) /\ Fail(w)
    <2>1. ~ Done(w)
      BY <1>1, <1>5, FailChanges
    <2> QED BY <1>1, <1>3, <1>5, <2>1, TaskInv
  <1> QED BY <1>4, <1>5 DEF Reply

\* A card ends the task, or leaves it to a text in its place.
LEMMA CardInv ==
  ASSUME IInv, NEW w \in Workers, ReplyAccountingCard(w)
  PROVE  IInv'
  <1>1. worker[w].at = "card" /\ UNCHANGED <<said, pending, entry, recorded>>
    BY DEF ReplyAccountingCard, ledgerVars
  <1>2. UNCHANGED answers \/ Accept(w)
    BY DEF ReplyAccountingCard, ReplyError
  <1>3. /\ spent \subseteq spent' /\ spent' \subseteq Messages
        /\ told' \subseteq [msg : Messages, say : Answered, tx : Writes]
        /\ \A a \in told' : a \in told \/ (a.say = "card" => Backed(a.msg, a.tx)')
        /\ Accept(w) => Msg(w) \in spent'
    BY <1>1, <1>2, AnswerAdds
  <1>4. CASE Accept(w) /\ Done(w)
    BY <1>1, <1>3, <1>4, TaskInv
  <1>5. CASE GoTo(w, "reply") /\ UNCHANGED jobs
    <2>1. worker[w] \in WorkerStates /\ WorkerOK(worker[w])
      BY <1>1, Busy
    <2> DEFINE r == [worker[w] EXCEPT !.at = "reply"]
    <2>2. r \in WorkerStates /\ r.job = worker[w].job /\ r.at = "reply"
          /\ r.slot = worker[w].slot /\ r.tx = worker[w].tx /\ r.say = worker[w].say
      BY <2>1 DEF WorkerStates, Places
    <2>3. worker' = [worker EXCEPT ![w] = r]
      BY <1>5 DEF GoTo
    <2>4. PICK q \in WorkerStates : q = r
      BY <2>2
    <2> HIDE DEF r
    <2>5. worker \in [Workers -> WorkerStates]
      BY DEF IInv, TypeOK
    <2>6. /\ worker' \in [Workers -> WorkerStates]
          /\ \A v \in Workers : worker'[v] = IF v = w THEN q ELSE worker[v]
      BY <2>3, <2>4, <2>5, OneValue
    <2>7. TypeOK'
      BY <1>1, <1>3, <1>5, <2>6 DEF IInv, TypeOK
    <2>8. Grows
      BY <1>1, <1>3, <1>5 DEF Grows
    <2>9. q.job \in Jobs /\ jobs'[q.job].state # "free" /\ q.say \in Answered
          /\ Question(q.slot)
      BY <1>1, <1>5, <2>1, <2>2, <2>4 DEF WorkerOK
    <2>10. Question(q.slot)'
      BY <2>8, <2>9, StableQuestion DEF IInv
    <2>11. PICK m \in Messages : m = jobs[q.job].msg
      BY <1>1, <2>2, <2>4, Busy DEF Msg
    <2>12. q.say = "card" => Backed(m, q.tx)
      BY <1>1, <2>1, <2>2, <2>4, <2>11 DEF WorkerOK, Backs
    <2>13. q.say = "card" => Backed(m, q.tx)'
      BY <2>8, <2>12, StableBacking DEF IInv
    <2>14. Backs(q)'
      BY <1>5, <2>2, <2>4, <2>11, <2>13 DEF Backs
    <2>15. WorkerOK(q)'
      BY <2>2, <2>4, <2>9, <2>10, <2>14 DEF WorkerOK
    <2>16. \A v \in Workers : worker'[v] = worker[v] \/ WorkerOK(worker[v])'
      BY <2>6, <2>15
    <2>17. \A x \in Messages : recorded'[x] # NoTx => recorded[x] # NoTx
      BY <1>1
    <2>18. \A j \in Jobs : jobs'[j] = jobs[j]
      BY <1>5
    <2> QED BY <1>1, <1>3, <2>7, <2>8, <2>16, <2>17, <2>18, Step
  <1> QED BY <1>4, <1>5 DEF ReplyAccountingCard

\* No step breaks the invariant.
LEMMA NextInv ==
  ASSUME IInv, [Next]_vars
  PROVE  IInv'
  <1>1. CASE UNCHANGED vars
    <2>1. UNCHANGED <<said, jobs, worker, pending, spent, told, entry, recorded>>
      BY <1>1 DEF vars, queueVars, answers, ledgerVars
    <2>2. TypeOK' /\ Grows
      BY <2>1 DEF IInv, TypeOK, Grows
    <2> QED BY <2>1, <2>2, Step
  <1>2. ASSUME NEW m \in Messages, NEW j \in Jobs, EnqueueLineEvent(m, j) PROVE IInv'
    BY <1>2, EnqueueInv
  <1>3. ASSUME NEW w \in Workers, WorkerStep(w) \/ Crash(w) \/ Expire(w) PROVE IInv'
    <2>1. CASE Crash(w) \/ ResolveFails(w) \/ IgnoreEvent(w)
      BY <2>1, QuietEndInv
    <2>2. CASE \E j \in Jobs : Take(w, j)
      BY <2>2, TakeInv
    <2>3. CASE ReplyBudgetExceeded(w)
      <3>1. worker[w].at # "idle" /\ Answer(w, "late")
        BY <2>3 DEF ReplyBudgetExceeded
      <3> QED BY <3>1, AnswerInv DEF Answered
    <2>4. CASE HandlePendingAccountingChoice(w)
      BY <2>4, ChoiceInv
    <2>5. CASE HandlePendingAmount(w)
      BY <2>5, AmountInv
    <2>6. CASE HandleText(w) \/ HandleImage(w) \/ HandleShared(w)
      BY <2>6, TextInv
    <2>7. CASE SavePendingAccounting(w) \/ InsertPendingAccounting(w) \/ ClearPendingAccounting(w)
      BY <2>7, PendingInv
    <2>8. CASE Write(w) \/ WriteFails(w)
      BY <2>8, WriteInv
    <2>9. CASE ReplyAccountingCard(w)
      BY <2>9, CardInv
    <2>10. CASE Reply(w)
      BY <2>10, ReplyInv
    <2>11. CASE Expire(w)
      BY <2>11, ExpireInv
    <2> QED BY <1>3, <2>1, <2>2, <2>3, <2>4, <2>5, <2>6, <2>7, <2>8, <2>9, <2>10, <2>11
         DEF WorkerStep
  <1> QED BY <1>1, <1>2, <1>3 DEF Next

\* IInv holds in every reachable state.
THEOREM Invariance == Spec => []IInv
  <1>1. Init => IInv
    BY InitIInv
  <1>2. IInv /\ [Next]_vars => IInv'
    BY NextInv
  <1> QED BY <1>1, <1>2, PTL DEF Spec

\* Every state is well typed, and no task is tried more often than asynq.MaxRetry allows.
THEOREM TypeCorrect == Spec => []TypeOK
  <1>1. IInv => TypeOK
    BY DEF IInv
  <1> QED BY <1>1, Invariance, PTL

\* What the parser is unsure of is recorded with an amount and a direction out of the
\* user's messages (handlePendingAccountingChoice, handlePendingAmount, handleText); the
\* direction of a slip without an amount is the one that was read in it.
THEOREM Agreement == Spec => []RecordsAreAgreed
  <1>1. IInv => RecordsAreAgreed
    BY DEF IInv
  <1> QED BY <1>1, Invariance, PTL

\* Whoever reads "recorded" has a record (replyAccountingCard).
THEOREM Backing == Spec => []CardsAreBacked
  <1>1. IInv => CardsAreBacked
    BY DEF IInv
  <1> QED BY <1>1, Invariance, PTL

\* A task is finished only when LINE has taken its answer (reply, HandleLineWebhook).
THEOREM Answering == Spec => []DoneMeansAnswered
  <1>1. IInv => DoneMeansAnswered
    BY DEF IInv
  <1> QED BY <1>1, Invariance, PTL

-----------------------------------------------------------------------------
(* The ledger.                                                              *)

\* Only a write changes the books.
LEMMA BooksStep ==
  ASSUME [Next]_vars
  PROVE  \/ UNCHANGED ledgerVars
         \/ \E w \in Workers : LedgerWrite(w) /\ UNCHANGED <<said, jobs, spent>>
  <1>1. CASE UNCHANGED vars
    BY <1>1 DEF vars
  <1>2. ASSUME NEW m \in Messages, NEW j \in Jobs, EnqueueLineEvent(m, j)
        PROVE  UNCHANGED ledgerVars
    BY <1>2 DEF EnqueueLineEvent
  <1>3. ASSUME NEW w \in Workers, WorkerStep(w) \/ Crash(w) \/ Expire(w), ~ Write(w), ~ WriteFails(w)
        PROVE  UNCHANGED ledgerVars
    <2>1. CASE Crash(w) \/ Expire(w) \/ IgnoreEvent(w) \/ ResolveFails(w) \/ \E j \in Jobs : Take(w, j)
      BY <2>1 DEF Crash, Expire, IgnoreEvent, ResolveFails, Take
    <2>2. CASE ReplyBudgetExceeded(w) \/ HandlePendingAccountingChoice(w) \/ HandlePendingAmount(w)
      BY <2>2 DEF ReplyBudgetExceeded, HandlePendingAccountingChoice, HandlePendingAmount,
        Answer, Drop, Ask, Record, Plan
    <2>3. CASE HandleText(w) \/ HandleImage(w) \/ HandleShared(w)
      BY <2>3 DEF HandleText, HandleImage, HandleShared, Answer, Drop, Ask, Record, Plan
    <2>4. CASE SavePendingAccounting(w) \/ InsertPendingAccounting(w) \/ ClearPendingAccounting(w)
      BY <2>4 DEF SavePendingAccounting, InsertPendingAccounting, ClearPendingAccounting
    <2>5. CASE ReplyAccountingCard(w) \/ Reply(w)
      BY <2>5 DEF ReplyAccountingCard, Reply
    <2> QED BY <1>3, <2>1, <2>2, <2>3, <2>4, <2>5 DEF WorkerStep
  <1>4. ASSUME NEW w \in Workers, Write(w) \/ WriteFails(w)
        PROVE  UNCHANGED ledgerVars \/ (LedgerWrite(w) /\ UNCHANGED <<said, jobs, spent>>)
    BY <1>4 DEF Write, WriteFails, queueVars, answers
  <1> QED BY <1>1, <1>2, <1>3, <1>4 DEF Next

\* What a worker writes, the promise lets it write.
LEMMA WriteIsPromised ==
  ASSUME IInv, NEW w \in Workers, LedgerWrite(w)
  PROVE  Ledger!Next \/ UNCHANGED ledgerVars
  <1>1. worker[w].at \in {"write", "share"}
    BY DEF LedgerWrite
  <1>2. WorkerOK(worker[w]) /\ Msg(w) \in Messages
    BY <1>1, Busy
  <1>3. PICK ty \in Types, a \in Amounts : worker[w].tx.type = ty /\ worker[w].tx.amount = a
    BY <1>1, <1>2 DEF WorkerOK
  <1>4. CASE \E t \in TxIds : Ledger!RecordMessage(Msg(w), t, ty, a)
    BY <1>2, <1>4 DEF Ledger!Next
  <1>5. CASE \E t \in TxIds : Ledger!Record(t, ty, a)
    BY <1>5 DEF Ledger!Next
  <1> QED BY <1>3, <1>4, <1>5 DEF LedgerWrite

\* The calls of CreatePersonalTransaction and of the household and business writers in
\* dispatcher.go stay within what the writer promises: with the theorem Implementation of
\* PersonalLedgerPromise the chat and the writer fit together.
THEOREM LedgerUse == Spec => UsesTheLedger
  <1>1. Init => Ledger!Init
    BY DEF Init
  <1>2. IInv /\ [Next]_vars => [Ledger!Next]_(Ledger!vars)
    BY BooksStep, WriteIsPromised DEF ledgerVars, Ledger!vars
  <1> QED BY <1>1, <1>2, Invariance, PTL DEF Spec, UsesTheLedger, Ledger!Spec

\* A step keeps the records, and gives a new one a transaction of its own.
LEMMA RecordsKept ==
  ASSUME IInv, RecordsAreApart, [Next]_vars
  PROVE  /\ RecordsAreApart'
         /\ \A m \in Messages : recorded[m] # NoTx =>
              recorded'[m] = recorded[m] /\ entry'[recorded[m]] = entry[recorded[m]]
  <1>1. CASE UNCHANGED ledgerVars
    BY <1>1 DEF ledgerVars, RecordsAreApart
  <1>2. ASSUME NEW w \in Workers, LedgerWrite(w), UNCHANGED <<said, jobs, spent>>
        PROVE  /\ RecordsAreApart'
               /\ \A m \in Messages : recorded[m] # NoTx =>
                    recorded'[m] = recorded[m] /\ entry'[recorded[m]] = entry[recorded[m]]
    <2>1. worker[w].at # "idle"
      BY <1>2 DEF LedgerWrite
    <2>2. Grows
      BY <1>2, <2>1, Busy, LedgerWriteAdds
    <2>3. \A m \in Messages : recorded[m] # NoTx =>
            recorded[m] \in TxIds /\ entry[recorded[m]].status = "live"
      BY DEF IInv, TypeOK, RecordsAreLive
    <2>4. RecordsAreApart'
      <3>1. CASE UNCHANGED recorded
        BY <3>1 DEF RecordsAreApart
      <3>2. ASSUME NEW t \in TxIds, Ledger!RecordMessage(Msg(w), t, worker[w].tx.type, worker[w].tx.amount)
            PROVE  RecordsAreApart'
        <4>1. entry[t].status = "absent" /\ recorded' = [recorded EXCEPT ![Msg(w)] = t]
          BY <3>2 DEF Ledger!RecordMessage, Ledger!Absent
        <4>2. \A m \in Messages : recorded[m] # t
          BY <2>3, <4>1, TxIdsAssumption
        <4>3. recorded \in [Messages -> TxIds \cup {NoTx}]
          BY DEF IInv, TypeOK
        <4> QED BY <4>1, <4>2, <4>3 DEF RecordsAreApart
      <3> QED BY <1>2, <3>1, <3>2 DEF LedgerWrite, Ledger!Record, ledgerVars
    <2> QED BY <2>2, <2>3, <2>4 DEF Grows
  <1> QED BY <1>1, <1>2, BooksStep

\* No transaction is the record of two messages.
THEOREM OneMessageEach == Spec => []RecordsAreApart
  <1>1. Init => RecordsAreApart
    BY DEF Init, Ledger!Init, RecordsAreApart
  <1>2. IInv /\ RecordsAreApart /\ [Next]_vars => RecordsAreApart'
    BY RecordsKept
  <1> QED BY <1>1, <1>2, Invariance, PTL DEF Spec

\* What a message was recorded as stays its record, however often its task is tried again
\* (CreatePersonalTransaction with the message as its cause).
THEOREM Standing == Spec => RecordsStand
  <1> DEFINE Stand == \A m \in Messages : recorded[m] # NoTx =>
               recorded'[m] = recorded[m] /\ entry'[recorded[m]] = entry[recorded[m]]
  <1>1. IInv /\ RecordsAreApart /\ [Next]_vars => Stand
    BY RecordsKept
  <1>2. Stand => [Stand]_vars
    OBVIOUS
  <1>3. Spec => [][Next]_vars
    BY DEF Spec
  <1> QED BY <1>1, <1>2, <1>3, Invariance, OneMessageEach, PTL DEF RecordsStand

-----------------------------------------------------------------------------
(* The tasks.                                                               *)

\* The stages in numbers.
LEMMA StageValues ==
  /\ Stage["idle"] = 0 /\ Stage["dispatch"] = 1 /\ Stage["save"] = 2 /\ Stage["insert"] = 3
  /\ Stage["write"] = 4 /\ Stage["share"] = 4 /\ Stage["clear"] = 5 /\ Stage["card"] = 6
  /\ Stage["reply"] = 7
  BY DEF Stage

\* What a step has to do for the tasks.
Goes ==
  /\ EachTaskOneWorker'
  /\ \A j \in Jobs : TaskForward(j)
  /\ \A w \in Workers : worker[w].at # "idle" => WorkerForward(w)

\* A worker that goes on to a later stage.
LEMMA StageGoes ==
  ASSUME IInv, EachTaskOneWorker, NEW w \in Workers, worker[w].at # "idle", UNCHANGED jobs,
         NEW at \in Places \ {"idle"}, Stage[at] > Stage[worker[w].at],
         worker'[w].at = at, worker'[w].job = worker[w].job,
         \A v \in Workers \ {w} : worker'[v] = worker[v]
  PROVE  Goes
  <1>1. \A v \in Workers :
          worker'[v].job = worker[v].job /\ (worker'[v].at # "idle" <=> worker[v].at # "idle")
    OBVIOUS
  <1>2. EachTaskOneWorker'
    BY <1>1 DEF EachTaskOneWorker
  <1>3. \A j \in Jobs : TaskForward(j)
    BY DEF TaskForward
  <1>4. \A v \in Workers : WorkerForward(v)
    BY DEF WorkerForward
  <1> QED BY <1>2, <1>3, <1>4 DEF Goes

\* A worker that is done with its task, one way or the other.
LEMMA EndGoes ==
  ASSUME IInv, EachTaskOneWorker, NEW w \in Workers, worker[w].at # "idle", Done(w) \/ Fail(w)
  PROVE  Goes
  <1>1. PICK k \in Jobs : k = worker[w].job /\ jobs[k] \in TaskStates
    BY Busy
  <1>2. jobs[k].state = "active"
    BY <1>1 DEF EachTaskOneWorker
  <1>3. jobs \in [Jobs -> {FreeJob} \cup TaskStates] /\ worker \in [Workers -> WorkerStates]
    BY DEF IInv, TypeOK
  <1>4. worker'[w] = Idle /\ \A v \in Workers \ {w} : worker'[v] = worker[v]
    BY <1>3 DEF Done, Fail
  <1>5. \A j \in Jobs \ {k} : jobs'[j] = jobs[j]
    BY <1>1, <1>3 DEF Done, Fail
  <1>6. TaskForward(k) /\ jobs'[k].state # "active"
    <2>1. CASE Done(w)
      <3>1. jobs'[k] = [jobs[k] EXCEPT !.state = "done"]
        BY <1>1, <1>3, <2>1 DEF Done
      <3>2. jobs'[k].state = "done"
        BY <1>1, <3>1 DEF TaskStates
      <3> QED BY <1>2, <3>2 DEF TaskForward
    <2>2. CASE Fail(w) /\ jobs[k].tries < MaxRetry
      <3>1. jobs'[k] = [jobs[k] EXCEPT !.state = "queued", !.tries = jobs[k].tries + 1]
        BY <1>1, <1>3, <2>2 DEF Fail
      <3>2. jobs'[k].state = "queued" /\ jobs'[k].tries = jobs[k].tries + 1
        BY <1>1, <3>1 DEF TaskStates
      <3>3. jobs[k].tries + 1 <= MaxRetry
        BY <1>1, <2>2, RetryAssumption DEF TaskStates
      <3> QED BY <1>2, <3>2, <3>3 DEF TaskForward
    <2>3. CASE Fail(w) /\ ~ (jobs[k].tries < MaxRetry)
      <3>1. jobs'[k] = [jobs[k] EXCEPT !.state = "archived"]
        BY <1>1, <1>3, <2>3 DEF Fail
      <3>2. jobs'[k].state = "archived"
        BY <1>1, <3>1 DEF TaskStates
      <3> QED BY <1>2, <3>2 DEF TaskForward
    <2> QED BY <2>1, <2>2, <2>3
  <1>7. \A j \in Jobs : TaskForward(j)
    BY <1>5, <1>6 DEF TaskForward
  <1>8. \A v \in Workers : WorkerForward(v)
    BY <1>1, <1>4, <1>6 DEF WorkerForward
  <1>9. EachTaskOneWorker'
    <2>1. Idle.at = "idle"
      BY DEF Idle
    <2>2. \A v \in Workers : worker'[v].at # "idle" =>
            v # w /\ worker'[v] = worker[v] /\ worker[v].at # "idle" /\ worker[v].job # k
      BY <1>1, <1>4, <2>1 DEF EachTaskOneWorker
    <2>3. \A v \in Workers : worker'[v].at # "idle" => jobs'[worker'[v].job].state = "active"
      <3> SUFFICES ASSUME NEW v \in Workers, worker'[v].at # "idle"
                   PROVE  jobs'[worker'[v].job].state = "active"
        OBVIOUS
      <3>1. worker'[v] = worker[v] /\ worker[v].job \in Jobs \ {k}
        BY <2>2, Busy
      <3> QED BY <1>5, <2>2, <3>1 DEF EachTaskOneWorker
    <2>4. \A j \in Jobs : jobs'[j].state = "active" =>
            \E v \in Workers : worker'[v].at # "idle" /\ worker'[v].job = j
      <3> SUFFICES ASSUME NEW j \in Jobs, jobs'[j].state = "active"
                   PROVE  \E v \in Workers : worker'[v].at # "idle" /\ worker'[v].job = j
        OBVIOUS
      <3>1. j # k /\ jobs[j].state = "active"
        BY <1>5, <1>6
      <3>2. PICK v \in Workers : worker[v].at # "idle" /\ worker[v].job = j
        BY <3>1 DEF EachTaskOneWorker
      <3> QED BY <1>1, <1>4, <3>1, <3>2
    <2> QED BY <2>2, <2>3, <2>4 DEF EachTaskOneWorker
  <1> QED BY <1>7, <1>8, <1>9 DEF Goes

\* A free worker takes a queued task.
LEMMA TakeGoes ==
  ASSUME IInv, EachTaskOneWorker, NEW w \in Workers, NEW j \in Jobs, Take(w, j)
  PROVE  Goes
  <1>1. jobs \in [Jobs -> {FreeJob} \cup TaskStates] /\ worker \in [Workers -> WorkerStates]
    BY DEF IInv, TypeOK
  <1>2. jobs[j].state = "queued" /\ jobs[j] \in TaskStates /\ worker[w].at = "idle"
    BY <1>1 DEF Take, FreeJob, Idle
  <1>3. jobs'[j] = [jobs[j] EXCEPT !.state = "active"] /\ \A k \in Jobs \ {j} : jobs'[k] = jobs[k]
    BY <1>1 DEF Take
  <1>4. jobs'[j].state = "active"
    BY <1>2, <1>3 DEF TaskStates
  <1>5. /\ worker'[w].job = j /\ worker'[w].at = "dispatch"
        /\ \A v \in Workers \ {w} : worker'[v] = worker[v]
    BY <1>1 DEF Take, Idle
  <1>6. \A k \in Jobs : TaskForward(k)
    BY <1>2, <1>3 DEF TaskForward
  <1>7. \A v \in Workers : worker[v].at # "idle" => WorkerForward(v)
    BY <1>2, <1>5 DEF WorkerForward
  <1>8. \A v \in Workers \ {w} : worker'[v].at # "idle" =>
          worker[v].at # "idle" /\ worker[v].job \in Jobs \ {j}
    <2> SUFFICES ASSUME NEW v \in Workers \ {w}, worker'[v].at # "idle"
                 PROVE  worker[v].at # "idle" /\ worker[v].job \in Jobs \ {j}
      OBVIOUS
    <2>1. worker[v].at # "idle"
      BY <1>5
    <2>2. worker[v].job \in Jobs /\ jobs[worker[v].job].state = "active"
      BY <2>1, Busy DEF EachTaskOneWorker
    <2> QED BY <1>2, <2>1, <2>2
  <1>9. EachTaskOneWorker'
    <2>1. \A k \in Jobs : jobs'[k].state = "active" =>
            \E v \in Workers : worker'[v].at # "idle" /\ worker'[v].job = k
      <3> SUFFICES ASSUME NEW k \in Jobs \ {j}, jobs'[k].state = "active"
                   PROVE  \E v \in Workers : worker'[v].at # "idle" /\ worker'[v].job = k
        BY <1>5
      <3>1. PICK v \in Workers : worker[v].at # "idle" /\ worker[v].job = k
        BY <1>3 DEF EachTaskOneWorker
      <3> QED BY <1>2, <1>5, <3>1
    <2>2. \A v \in Workers : worker'[v].at # "idle" => jobs'[worker'[v].job].state = "active"
      <3> SUFFICES ASSUME NEW v \in Workers \ {w}, worker'[v].at # "idle"
                   PROVE  jobs'[worker'[v].job].state = "active"
        BY <1>4, <1>5
      <3>1. worker'[v] = worker[v] /\ worker[v].at # "idle" /\ worker[v].job \in Jobs \ {j}
        BY <1>5, <1>8
      <3>2. jobs[worker[v].job].state = "active"
        BY <3>1 DEF EachTaskOneWorker
      <3> QED BY <1>3, <3>1, <3>2
    <2>3. \A u, v \in Workers :
            u # v /\ worker'[u].at # "idle" /\ worker'[v].at # "idle" => worker'[u].job # worker'[v].job
      BY <1>5, <1>8 DEF EachTaskOneWorker
    <2> QED BY <2>1, <2>2, <2>3 DEF EachTaskOneWorker
  <1> QED BY <1>6, <1>7, <1>9 DEF Goes

\* A delivery queues a task that was free.
LEMMA EnqueueGoes ==
  ASSUME IInv, EachTaskOneWorker, NEW m \in Messages, NEW j \in Jobs, EnqueueLineEvent(m, j)
  PROVE  Goes
  <1>1. jobs \in [Jobs -> {FreeJob} \cup TaskStates]
    BY DEF IInv, TypeOK
  <1>2. /\ jobs[j].state = "free" /\ worker' = worker
        /\ jobs'[j].state = "queued" /\ jobs'[j].tries = 0
        /\ \A k \in Jobs \ {j} : jobs'[k] = jobs[k]
    BY <1>1 DEF EnqueueLineEvent
  <1>3. \A w \in Workers : worker[w].at # "idle" => worker[w].job \in Jobs \ {j}
    <2> SUFFICES ASSUME NEW w \in Workers, worker[w].at # "idle" PROVE worker[w].job \in Jobs \ {j}
      OBVIOUS
    <2>1. worker[w].job \in Jobs /\ jobs[worker[w].job].state = "active"
      BY Busy DEF EachTaskOneWorker
    <2> QED BY <1>2, <2>1
  <1>4. EachTaskOneWorker'
    BY <1>2, <1>3 DEF EachTaskOneWorker
  <1> QED BY <1>2, <1>4 DEF Goes, TaskForward, WorkerForward

\* A step that leaves tasks and workers alone.
LEMMA NothingGoes ==
  ASSUME EachTaskOneWorker, UNCHANGED <<jobs, worker>>
  PROVE  Goes
  BY DEF Goes, EachTaskOneWorker, TaskForward, WorkerForward

\* A plan takes a worker on from the dispatch.
LEMMA PlanGoes ==
  ASSUME IInv, EachTaskOneWorker, NEW w \in Workers, worker[w].at = "dispatch",
         NEW at \in {"reply", "save", "clear", "write", "share"},
         NEW slot, NEW tx, NEW say, Plan(w, at, slot, tx, say)
  PROVE  Goes
  <1>1. worker \in [Workers -> WorkerStates]
    BY DEF IInv, TypeOK
  <1>2. /\ worker'[w].at = at /\ worker'[w].job = worker[w].job
        /\ \A v \in Workers \ {w} : worker'[v] = worker[v]
    BY <1>1 DEF Plan, WorkerStates
  <1>3. at \in Places \ {"idle"} /\ Stage[at] > Stage[worker[w].at]
    BY StageValues DEF Places
  <1>4. UNCHANGED jobs
    BY DEF Plan, queueVars
  <1> QED BY <1>2, <1>3, <1>4, StageGoes

\* A worker that only goes to another place.
LEMMA GoToGoes ==
  ASSUME IInv, EachTaskOneWorker, NEW w \in Workers, worker[w].at # "idle",
         NEW at \in Places \ {"idle"}, Stage[at] > Stage[worker[w].at],
         GoTo(w, at), UNCHANGED jobs
  PROVE  Goes
  <1>1. worker \in [Workers -> WorkerStates]
    BY DEF IInv, TypeOK
  <1>2. /\ worker'[w].at = at /\ worker'[w].job = worker[w].job
        /\ \A v \in Workers \ {w} : worker'[v] = worker[v]
    BY <1>1 DEF GoTo, WorkerStates
  <1> QED BY <1>2, StageGoes

\* Every step of the dispatch.
LEMMA DispatchGoes ==
  ASSUME IInv, EachTaskOneWorker, NEW w \in Workers,
         \/ ReplyBudgetExceeded(w) \/ HandlePendingAccountingChoice(w) \/ HandlePendingAmount(w)
         \/ HandleText(w) \/ HandleImage(w) \/ HandleShared(w)
  PROVE  Goes
  <1>0. worker[w].at = "dispatch"
    BY DEF ReplyBudgetExceeded, HandlePendingAccountingChoice, HandlePendingAmount, HandleText,
      HandleImage, HandleShared
  <1>1. ASSUME NEW say, Answer(w, say) PROVE Goes
    BY <1>0, <1>1, PlanGoes DEF Answer
  <1>2. ASSUME NEW slot, Ask(w, slot) PROVE Goes
    BY <1>0, <1>2, PlanGoes DEF Ask
  <1>3. ASSUME Drop(w) PROVE Goes
    BY <1>0, <1>3, PlanGoes DEF Drop
  <1>4. ASSUME NEW at \in {"write", "share"}, NEW slot, NEW type, NEW amount,
               Record(w, at, slot, type, amount)
        PROVE  Goes
    BY <1>0, <1>4, PlanGoes DEF Record
  <1>5. CASE ReplyBudgetExceeded(w)
    BY <1>1, <1>5 DEF ReplyBudgetExceeded
  <1>6. CASE HandlePendingAccountingChoice(w)
    BY <1>1, <1>2, <1>3, <1>4, <1>6 DEF HandlePendingAccountingChoice
  <1>7. CASE HandlePendingAmount(w)
    BY <1>1, <1>4, <1>7 DEF HandlePendingAmount
  <1>8. CASE HandleText(w)
    BY <1>1, <1>2, <1>3, <1>4, <1>8 DEF HandleText
  <1>9. CASE HandleImage(w)
    BY <1>1, <1>2, <1>9 DEF HandleImage
  <1>10. CASE HandleShared(w)
    BY <1>1, <1>2, <1>4, <1>10 DEF HandleShared
  <1> QED BY <1>5, <1>6, <1>7, <1>8, <1>9, <1>10

\* Every call after it.
LEMMA CallGoes ==
  ASSUME IInv, EachTaskOneWorker, NEW w \in Workers,
         \/ SavePendingAccounting(w) \/ InsertPendingAccounting(w) \/ ClearPendingAccounting(w)
         \/ Write(w) \/ WriteFails(w) \/ ReplyAccountingCard(w) \/ Reply(w)
  PROVE  Goes
  <1> USE StageValues DEF Places, queueVars
  <1>1. CASE SavePendingAccounting(w)
    BY <1>1, GoToGoes DEF SavePendingAccounting
  <1>2. CASE InsertPendingAccounting(w)
    BY <1>2, GoToGoes DEF InsertPendingAccounting
  <1>3. CASE ClearPendingAccounting(w)
    BY <1>3, GoToGoes DEF ClearPendingAccounting
  <1>4. CASE Write(w)
    BY <1>4, GoToGoes DEF Write, LedgerWrite
  <1>5. CASE WriteFails(w)
    <2>1. worker \in [Workers -> WorkerStates]
      BY DEF IInv, TypeOK
    <2>2. /\ worker'[w].at = "reply" /\ worker'[w].job = worker[w].job /\ UNCHANGED jobs
          /\ worker[w].at \in {"write", "share"}
          /\ \A v \in Workers \ {w} : worker'[v] = worker[v]
      BY <1>5, <2>1 DEF WriteFails, WorkerStates
    <2> QED BY <2>2, StageGoes
  <1>6. CASE ReplyAccountingCard(w)
    <2>1. worker[w].at = "card"
      BY <1>6 DEF ReplyAccountingCard
    <2>2. CASE Done(w)
      BY <2>1, <2>2, EndGoes
    <2>3. CASE ~ Done(w)
      <3>1. GoTo(w, "reply") /\ UNCHANGED jobs
        BY <1>6, <2>3 DEF ReplyAccountingCard
      <3> QED BY <2>1, <3>1, GoToGoes
    <2> QED BY <2>2, <2>3
  <1>7. CASE Reply(w)
    <2>1. worker[w].at = "reply" /\ (Done(w) \/ Fail(w))
      BY <1>7 DEF Reply
    <2> QED BY <2>1, EndGoes
  <1> QED BY <1>1, <1>2, <1>3, <1>4, <1>5, <1>6, <1>7

\* Every step goes forward.
LEMMA EveryStepGoes ==
  ASSUME IInv, EachTaskOneWorker, [Next]_vars
  PROVE  Goes
  <1>1. CASE UNCHANGED vars
    BY <1>1, NothingGoes DEF vars, queueVars
  <1>2. ASSUME NEW m \in Messages, NEW j \in Jobs, EnqueueLineEvent(m, j) PROVE Goes
    BY <1>2, EnqueueGoes
  <1>3. ASSUME NEW w \in Workers, WorkerStep(w) \/ Crash(w) \/ Expire(w) PROVE Goes
    <2>1. CASE Expire(w)
      BY <2>1, NothingGoes DEF Expire, queueVars
    <2>2. CASE Crash(w) \/ ResolveFails(w) \/ IgnoreEvent(w)
      <3>1. worker[w].at # "idle" /\ (Done(w) \/ Fail(w))
        BY <2>2 DEF Crash, ResolveFails, IgnoreEvent
      <3> QED BY <3>1, EndGoes
    <2>3. CASE \E j \in Jobs : Take(w, j)
      BY <2>3, TakeGoes
    <2> QED BY <1>3, <2>1, <2>2, <2>3, DispatchGoes, CallGoes DEF WorkerStep
  <1> QED BY <1>1, <1>2, <1>3 DEF Next

\* A task in work is in the hands of one worker, and of one only.
LEMMA OneWorker == Spec => []EachTaskOneWorker
  <1>1. Init => EachTaskOneWorker
    BY DEF Init, EachTaskOneWorker, FreeJob, Idle
  <1>2. IInv /\ EachTaskOneWorker /\ [Next]_vars => EachTaskOneWorker'
    BY EveryStepGoes DEF Goes
  <1> QED BY <1>1, <1>2, Invariance, PTL DEF Spec

\* However crashes, errors and lost answers fall, a try of a task ends after seven stages,
\* a task after MaxRetry + 1 tries, and one that is done or archived never comes back
\* (EnqueueLineEvent, HandleLineWebhook).
THEOREM Exhaustion == Spec => TasksGoForward
  <1> DEFINE Forwards == /\ \A j \in Jobs : TaskForward(j)
                        /\ \A w \in Workers : worker[w].at # "idle" => WorkerForward(w)
  <1>1. IInv /\ EachTaskOneWorker /\ [Next]_vars => Forwards
    BY EveryStepGoes DEF Goes
  <1>2. Forwards => [Forwards]_vars
    OBVIOUS
  <1>3. Spec => [][Next]_vars
    BY DEF Spec
  <1> QED BY <1>1, <1>2, <1>3, Invariance, OneWorker, PTL DEF TasksGoForward

=============================================================================
