------------------------------ MODULE LineIntake ------------------------------
(***************************************************************************)
(* Events about pictures on their whole way: from the webhook through the  *)
(* queue to the workers, with retries and processes that die.              *)
(***************************************************************************)
EXTENDS LineWebhook, ImageIntake

CONSTANTS
  MaxRetry,    \* retries of a task (3)
  Agendas      \* bounds on what happens in a behaviour, one of them per behaviour

Agenda == [queued : Seq(Event), bodies : SUBSET Deliveries, deliveries : Nat,
           hooks : SUBSET Hooks, workers : SUBSET Workers, deaths : Nat]

ASSUME LineIntakeAssumption ==
  /\ Senders = Lines
  /\ Kinds \subseteq {"image", "recall", "review", "other"}
  /\ MaxRetry \in Nat
  /\ \A a \in Agendas : a \in Agenda

VARIABLES
  agenda,
  serving,   \* per worker: the index of its task, or 0
  deaths     \* processes that died so far

vars == <<webhookVars, intakeVars, agenda, serving, deaths>>

Init ==
  /\ WebhookInit
  /\ IntakeInit
  /\ agenda \in Agendas
  /\ tasks = [i \in DOMAIN agenda.queued |-> Queued(agenda.queued[i])]
  /\ serving = [w \in Workers |-> 0]
  /\ deaths = 0

-----------------------------------------------------------------------------
(* HandleLineWebhook and Dispatch.                                          *)

Begun(e) == [Idle EXCEPT !.step = "lookup", !.kind = e.kind, !.line = e.line]

\* A task that has waited longer than a reply token lives gets a late answer instead.
Take(w, i) ==
  /\ serving[w] = 0
  /\ tasks[i].state = "queued"
  /\ tasks' = [tasks EXCEPT ![i].state = "active"]
  /\ serving' = [serving EXCEPT ![w] = i]
  /\ \/ work' = [work EXCEPT ![w] = Begun(tasks[i].event)]
     \/ work' = [work EXCEPT ![w] = [Idle EXCEPT !.step = "answer"]]
  /\ UNCHANGED <<hookVars, counterVars, admitted, identityVars, pictureVars, agenda, deaths>>

\* Mutant: one retry too many.
RetriedOnceMore(task) ==
  IF task.try <= MaxRetry THEN [task EXCEPT !.state = "queued", !.try = @ + 1]
  ELSE [task EXCEPT !.state = "archived"]

\* An error, or a death: again from the start, three times.
Retried(task) ==
  IF task.try < MaxRetry THEN [task EXCEPT !.state = "queued", !.try = @ + 1]
  ELSE [task EXCEPT !.state = "archived"]

Finish(w) ==
  /\ work[w].step \in {"done", "other", "failed"}
  /\ tasks' = [tasks EXCEPT ![serving[w]] =
                 IF Doing(w, "failed") THEN Retried(@) ELSE [@ EXCEPT !.state = "done"]]
  /\ work' = [work EXCEPT ![w] = Idle]
  /\ serving' = [serving EXCEPT ![w] = 0]
  /\ UNCHANGED <<hookVars, counterVars, admitted, identityVars, pictureVars, agenda, deaths>>

\* The worker process dies: an open transaction is rolled back, the queue gives its
\* tasks to another.
WorkersDie ==
  /\ deaths < agenda.deaths
  /\ deaths' = deaths + 1
  /\ tasks' = [i \in DOMAIN tasks |->
                 IF tasks[i].state = "active" THEN Retried(tasks[i]) ELSE tasks[i]]
  /\ work' = [w \in Workers |-> Idle]
  /\ serving' = [w \in Workers |-> 0]
  /\ UNCHANGED <<hookVars, counterVars, admitted, identityVars, pictureVars, agenda>>

ApiDies ==
  /\ deaths < agenda.deaths
  /\ deaths' = deaths + 1
  /\ \E h \in Hooks : HookDies(h)
  /\ UNCHANGED <<intakeVars, agenda, serving>>

-----------------------------------------------------------------------------
Arrive(h, d) ==
  /\ deliveries < agenda.deliveries
  /\ Receive(h, d)
  /\ UNCHANGED <<intakeVars, agenda, serving, deaths>>

HookActs(h) ==
  /\ HookStep(h) \/ HookStepFails(h)
  /\ UNCHANGED <<intakeVars, agenda, serving, deaths>>

WorkerActs(w) ==
  \/ WorkStep(w) /\ UNCHANGED <<webhookVars, agenda, serving, deaths>>
  \/ \E i \in DOMAIN tasks : Take(w, i)
  \/ Finish(w)

CounterActs(l) == CounterEnds(l) /\ UNCHANGED <<intakeVars, agenda, serving, deaths>>

Next ==
  \/ \E h \in agenda.hooks, d \in agenda.bodies : Arrive(h, d)
  \/ \E h \in Hooks : HookActs(h)
  \/ \E l \in Lines : CounterActs(l)
  \/ \E w \in agenda.workers : WorkerActs(w)
  \/ ApiDies
  \/ WorkersDie

Spec == Init /\ [][Next]_vars

\* A process that lives goes on, and Redis drops keys whose time is over.
Fairness ==
  /\ \A h \in Hooks : WF_vars(HookActs(h))
  /\ \A w \in Workers : WF_vars(w \in agenda.workers /\ WorkerActs(w))
  /\ \A l \in Lines : WF_vars(CounterActs(l))

FairSpec == Spec /\ Fairness

-----------------------------------------------------------------------------
(* Properties.                                                              *)

TaskType == [event : Event, state : {"queued", "active", "done", "archived"}, try : 0 .. MaxRetry]

\* Every variable has its type, and a worker serves a task of the queue.
TypeOK ==
  /\ WebhookTypeOK
  /\ IntakeTypeOK
  /\ tasks \in Seq(TaskType)
  /\ serving \in [Workers -> 0 .. Len(tasks)]
  /\ agenda \in Agendas
  /\ deaths \in Nat

-----------------------------------------------------------------------------
(* Why the system comes to rest: what CountersEnd and the archive of the    *)
(* queue rely on, without any fairness.                                     *)

\* ratelimit.go: a key without a time to live is one whose EXPIRE was lost, or one
\* that a request is about to give it.
CountersWillEnd ==
  \A l \in Lines : counter[l] > 0 =>
    l \in expiring \cup lost \/ \E h \in Hooks : At(h, "expire") /\ Line(h) = l

\* queue/server.go: a task that is being served is served by one worker, and no other task
\* has one.
EachTaskOneWorker ==
  /\ \A w \in Workers : serving[w] # 0 => tasks[serving[w]].state = "active"
  /\ \A i \in DOMAIN tasks : tasks[i].state = "active" =>
       \E w \in Workers : serving[w] = i /\ \A v \in Workers \ {w} : serving[v] # i

HookOrder(step) ==
  CASE step = "check" -> 1 [] step = "expire" -> 2 [] step = "decide" -> 3
    [] step = "enqueue" -> 4 [] OTHER -> 0

StateOrder(state) ==
  CASE state = "queued" -> 1 [] state = "active" -> 2 [] OTHER -> 3

WorkOrder(step) ==
  CASE step = "idle" -> 0 [] step = "lookup" -> 1 [] step = "register" -> 2
    [] step = "agent" -> 3 [] step = "commit" -> 4 [] step \in {"image", "recall", "review"} -> 5
    [] step \in {"put", "load"} -> 6 [] step = "row" -> 7 [] step \in {"read", "reread"} -> 8
    [] step = "slip" -> 9 [] step = "apply" -> 10
    [] step \in {"answer", "asking", "showing"} -> 11 [] OTHER -> 12

StageOrder(stage) ==
  CASE stage = "structured" -> 0 [] stage = "schema" -> 1 [] OTHER -> 2

\* A request goes through its events, and through the commands of one of them.
HookForward(h) ==
  \/ hook'[h] = hook[h]
  \/ At(h, "idle") \/ At(h, "idle")'
  \/ Len(hook'[h].left) < Len(hook[h].left)
  \/ /\ hook'[h].left = hook[h].left
     /\ HookOrder(hook[h].step) < HookOrder(hook'[h].step)

\* A task keeps its event; it is tried again with the next number or goes on.
TaskForward(i) ==
  /\ tasks'[i].event = tasks[i].event
  /\ \/ tasks'[i] = tasks[i]
     \/ tasks[i].try < tasks'[i].try
     \/ /\ tasks[i].try = tasks'[i].try
        /\ StateOrder(tasks[i].state) < StateOrder(tasks'[i].state)

\* A worker that serves a task comes to a later step, to a later way to ask or to the
\* next of the models; it is idle again when it serves none.
WorkForward(w) ==
  \/ work'[w] = work[w]
  \/ Doing(w, "idle") /\ Doing(w, "idle")'
  \/ Doing(w, "idle") /\ serving[w] = 0 /\ serving'[w] # 0
  \/ serving[w] # 0 /\ serving'[w] = 0 /\ Doing(w, "idle")'
  \/ /\ serving'[w] = serving[w]
     /\ \/ WorkOrder(work[w].step) < WorkOrder(work'[w].step)
        \/ /\ work[w].step = work'[w].step
           /\ \/ StageOrder(work[w].stage) < StageOrder(work'[w].stage)
              \/ work[w].stage = work'[w].stage /\ work'[w].models < work[w].models

\* webhook.go, server.go and dispatcher.go: whatever fails, dies or runs beside it, no
\* request, no task and no worker goes back, so each of them comes to an end unless it
\* stands still.
IntakeGoesForward ==
  [][/\ \A h \in Hooks : HookForward(h)
     /\ Len(tasks) <= Len(tasks') /\ \A i \in DOMAIN tasks : TaskForward(i)
     /\ \A w \in Workers : WorkForward(w)]_vars

=============================================================================
