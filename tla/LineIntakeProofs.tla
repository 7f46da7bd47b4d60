--------------------------- MODULE LineIntakeProofs ---------------------------
(***************************************************************************)
(* Proofs about LineIntake: IInv is inductive, for any number of requests, *)
(* workers, users, pictures, models and retries, and gives the safety      *)
(* properties.  It has a part for the webhook, one for the identities and  *)
(* one for the pictures; the queue's part says what a worker serves.       *)
(***************************************************************************)
EXTENDS LineIntake, FiniteSetTheorems, SequenceTheorems, TLAPS

\* A count of a request that has not decided yet.
Counting(h) == hook[h].step \in {"expire", "decide"}

\* Every life of a counter gives each count to one event.
CountsAreDrawn ==
  /\ \A l \in Lines : counter[l] # 0 => 1 <= life[l]
  /\ \A a \in admitted :
       /\ 1 <= a.count /\ a.count <= Limit
       /\ 1 <= a.life /\ a.life <= life[a.line]
       /\ a.life = life[a.line] /\ counter[a.line] # 0 => a.count <= counter[a.line]
  /\ \A h \in Hooks : Counting(h) =>
       /\ 1 <= hook[h].count
       /\ 1 <= hook[h].life /\ hook[h].life <= life[Line(h)]
       /\ hook[h].life = life[Line(h)] /\ counter[Line(h)] # 0 =>
            hook[h].count <= counter[Line(h)]

SameCount(a, b) == a.line = b.line /\ a.life = b.life /\ a.count = b.count
Counts(h) == [line |-> Line(h), life |-> hook[h].life, count |-> hook[h].count]

CountsAreOwn ==
  /\ \A a, b \in admitted : SameCount(a, b) => a = b
  /\ \A h \in Hooks, a \in admitted : Counting(h) => ~ SameCount(Counts(h), a)
  /\ \A h, k \in Hooks : Counting(h) /\ Counting(k) /\ SameCount(Counts(h), Counts(k)) => h = k

HookInv == WebhookTypeOK /\ CountsAreDrawn /\ CountsAreOwn

\* The steps of a worker that knows whom it serves.
Serving == {"image", "put", "row", "read", "slip", "apply", "recall", "review", "load",
            "reread", "asking", "showing", "other"}
Finding == {"lookup", "register", "agent", "commit"}

Identified(job) ==
  job.line \in Senders /\ users[job.line] # 0 /\ job.id = users[job.line] /\ job.ns = job.id

\* No two users have an id in common, nor will have; a namespace is its user's.
IdentitiesAgree ==
  /\ \A l \in Senders : users[l] <= drawn
  /\ \A l, k \in Senders : users[l] # 0 /\ users[l] = users[k] => l = k
  /\ \A a \in agents : a.ns = a.owner /\ \E l \in Senders : users[l] = a.owner
  /\ \A a \in known : a.id = users[a.line] /\ a.ns = a.id

RegistrationsAgree ==
  /\ \A w \in Workers : work[w].step \in Finding =>
       work[w].line \in Senders /\ work[w].kind # "none"
  /\ \A w \in Workers : work[w].step \in Registering =>
       /\ work[w].id \in 1 .. drawn
       /\ Doing(w, "commit") => work[w].ns = work[w].id
       /\ \A l \in Senders : users[l] = work[w].id => l = work[w].line
       /\ users[work[w].line] # 0 => work[w].id = users[work[w].line]
  /\ \A v, w \in Workers :
       v # w /\ work[v].step \in Registering /\ work[w].step \in Registering =>
         work[v].line # work[w].line /\ work[v].id # work[w].id
  /\ \A w \in Workers : work[w].step \in Serving => Identified(work[w])

\* An image is of one user, and of an object that is stored.
ImagesAgree ==
  /\ \A n \in objects : n <= clock
  /\ \A i \in images : i.object \in objects /\ users[i.line] # 0 /\ i.ns = users[i.line]
  /\ \A i, j \in images : i.object = j.object => i.line = j.line
  /\ \A s \in slips : CanBeOpened(s.object)
  /\ \A q \in asked \cup shown :
       CanBeOpened(q.object) /\ \A i \in images : i.object = q.object => i.line = q.line

\* The steps of a worker that has a picture, those that need its row first.
Holding == {"slip", "read", "apply", "load", "reread", "asking", "showing"}
Opening == Holding \ {"slip", "read"}

\* The steps of a worker whose picture has no row yet.
Early == Finding \cup {"image", "put", "row"}

HoldsOwn(job) ==
  /\ \A i \in images : i.object = job.object => i.line = job.line
  /\ job.row \/ job.step \in Opening => CanBeOpened(job.object)

\* A picture a worker holds is its user's; before its row is there, nobody else has it.
PicturesAgree ==
  /\ \A w \in Workers : work[w].object <= clock
  /\ \A w \in Workers : work[w].step = "row" =>
       /\ work[w].object \in objects
       /\ \A i \in images : i.object # work[w].object
       /\ \A v \in Workers : v # w => work[v].object # work[w].object
  /\ \A w \in Workers : work[w].step \in Holding => HoldsOwn(work[w])
  /\ \A w \in Workers : work[w].step \in Early => ~ work[w].row

PictureInv ==
  IntakeTypeOK /\ IdentitiesAgree /\ RegistrationsAgree /\ ImagesAgree /\ PicturesAgree

\* A worker that does something serves a task.
QueueInv ==
  /\ tasks \in Seq(TaskType)
  /\ serving \in [Workers -> 0 .. Len(tasks)]
  /\ \A w \in Workers : serving[w] = 0 => Doing(w, "idle")
  /\ agenda \in Agendas
  /\ deaths \in Nat

IInv == HookInv /\ PictureInv /\ QueueInv

-----------------------------------------------------------------------------
(* The webhook.                                                             *)

\* The next event of a request.
LEMMA NextEventTyped ==
  ASSUME NEW job \in Request, job.left # <<>>
  PROVE  NextEvent(job) \in Request /\ NextEvent(job).step = "check"
  <1>1. job.left \in Seq(Delivered)
    BY DEF Request
  <1>2. Tail(job.left) \in Seq(Delivered)
    BY <1>1, HeadTailProperties
  <1> QED BY <1>2 DEF NextEvent, Served, Request

\* What an INCR does to the counters.
LEMMA CountedLife ==
  ASSUME WebhookTypeOK, NEW l \in Lines, Counted(l)
  PROVE  /\ counter' \in [Lines -> Nat] /\ life' \in [Lines -> Nat]
         /\ \A k \in Lines : k # l => counter'[k] = counter[k] /\ life'[k] = life[k]
         /\ counter'[l] = counter[l] + 1
         /\ life'[l] = IF counter[l] = 0 THEN life[l] + 1 ELSE life[l]
         /\ counter[l] \in Nat /\ life[l] \in Nat
  BY DEF WebhookTypeOK, Counted

\* What was drawn from a counter stays below it, whatever is counted meanwhile.
LEMMA DrawnStays ==
  ASSUME WebhookTypeOK, (UNCHANGED <<counter, life>>) \/ \E l \in Lines : Counted(l),
         NEW k \in Lines, NEW n \in Nat, NEW c \in Nat,
         n <= life[k], n = life[k] /\ counter[k] # 0 => c <= counter[k]
  PROVE  n <= life'[k] /\ (n = life'[k] /\ counter'[k] # 0 => c <= counter'[k])
  <1>1. CASE UNCHANGED <<counter, life>>
    BY <1>1
  <1>2. ASSUME NEW l \in Lines, Counted(l)
        PROVE  n <= life'[k] /\ (n = life'[k] /\ counter'[k] # 0 => c <= counter'[k])
    <2>1. CASE k # l
      BY <1>2, <2>1, CountedLife
    <2>2. CASE k = l
      BY <1>2, <2>2, CountedLife
    <2> QED BY <2>1, <2>2
  <1> QED BY <1>1, <1>2

\* What a step of one request that lets nothing through has to show.
LEMMA RequestKeeps ==
  ASSUME HookInv, NEW h \in Hooks, NEW job \in Request, hook' = [hook EXCEPT ![h] = job],
         (UNCHANGED <<counter, life>>) \/ \E l \in Lines : Counted(l),
         UNCHANGED admitted, deliveries' \in Nat, expiring' \subseteq Lines, lost' \subseteq Lines,
         job.step \in {"expire", "decide", "enqueue"} =>
           job.left # <<>> /\ Head(job.left).line \in Lines,
         NEW mine,
         mine = [line |-> Head(job.left).line, life |-> job.life, count |-> job.count],
         job.step \in {"expire", "decide"} =>
           /\ 1 <= job.count /\ 1 <= job.life /\ job.life <= life'[mine.line]
           /\ job.life = life'[mine.line] /\ counter'[mine.line] # 0 =>
                job.count <= counter'[mine.line]
           /\ \A a \in admitted : ~ SameCount(mine, a)
           /\ \A k \in Hooks : k # h /\ Counting(k) => ~ SameCount(mine, Counts(k))
  PROVE  HookInv'
  <1> USE DEF HookInv
  <1>1. hook \in [Hooks -> Request]
    BY DEF WebhookTypeOK
  <1>2. \A k \in Hooks : hook'[k] = IF k = h THEN job ELSE hook[k]
    BY <1>1
  <1>3. counter' \in [Lines -> Nat] /\ life' \in [Lines -> Nat]
    BY CountedLife DEF WebhookTypeOK
  <1>4. WebhookTypeOK'
    <2>1. \A k \in Hooks : hook'[k].step \in {"expire", "decide", "enqueue"} =>
            hook'[k].left # <<>> /\ Head(hook'[k].left).line \in Lines
      BY <1>2 DEF WebhookTypeOK, Line
    <2> QED BY <1>1, <1>3, <2>1 DEF WebhookTypeOK, Line
  <1>5. \A k \in Hooks : k # h => /\ Counting(k)' = Counting(k) /\ Counts(k)' = Counts(k)
                                  /\ Line(k)' = Line(k)
    BY <1>2 DEF Counting, Counts, Line
  <1>6. /\ Counting(h)' <=> job.step \in {"expire", "decide"}
        /\ Counts(h)' = mine /\ Line(h)' = mine.line
    BY <1>2 DEF Counting, Counts, Line
  <1>7. CountsAreDrawn'
    <2>1. \A a \in admitted :
            /\ 1 <= a.count /\ a.count <= Limit /\ 1 <= a.life
            /\ a.life <= life'[a.line]
            /\ a.life = life'[a.line] /\ counter'[a.line] # 0 => a.count <= counter'[a.line]
      <3> SUFFICES ASSUME NEW a \in admitted
                   PROVE  /\ a.life <= life'[a.line]
                          /\ a.life = life'[a.line] /\ counter'[a.line] # 0 =>
                               a.count <= counter'[a.line]
        BY DEF CountsAreDrawn
      <3>1. a.line \in Lines /\ a.life \in Nat /\ a.count \in Nat
        BY DEF WebhookTypeOK
      <3>2. a.life <= life[a.line]
            /\ (a.life = life[a.line] /\ counter[a.line] # 0 => a.count <= counter[a.line])
        BY DEF CountsAreDrawn
      <3> QED BY <3>1, <3>2, DrawnStays
    <2>2. ASSUME NEW k \in Hooks, Counting(k)'
          PROVE  /\ 1 <= hook'[k].count
                 /\ 1 <= hook'[k].life /\ hook'[k].life <= life'[Line(k)']
                 /\ hook'[k].life = life'[Line(k)'] /\ counter'[Line(k)'] # 0 =>
                      hook'[k].count <= counter'[Line(k)']
      <3>1. CASE k = h
        BY <1>2, <1>6, <2>2, <3>1
      <3>2. CASE k # h
        <4>1. hook'[k] = hook[k] /\ Counting(k) /\ Line(k)' = Line(k)
          BY <1>2, <1>5, <2>2, <3>2
        <4>2. Line(k) \in Lines /\ hook[k].life \in Nat /\ hook[k].count \in Nat
          BY <1>1, <4>1 DEF WebhookTypeOK, Counting, Request
        <4>3. /\ 1 <= hook[k].count /\ 1 <= hook[k].life
              /\ hook[k].life <= life[Line(k)]
              /\ hook[k].life = life[Line(k)] /\ counter[Line(k)] # 0 =>
                   hook[k].count <= counter[Line(k)]
          BY <4>1 DEF CountsAreDrawn
        <4>4. /\ hook[k].life <= life'[Line(k)]
              /\ hook[k].life = life'[Line(k)] /\ counter'[Line(k)] # 0 =>
                   hook[k].count <= counter'[Line(k)]
          BY <4>2, <4>3, DrawnStays
        <4> QED BY <4>1, <4>3, <4>4
      <3> QED BY <3>1, <3>2
    <2>3. \A l \in Lines : counter'[l] # 0 => 1 <= life'[l]
      <3>1. CASE UNCHANGED <<counter, life>>
        BY <3>1 DEF CountsAreDrawn
      <3>2. ASSUME NEW k \in Lines, Counted(k)
            PROVE  \A l \in Lines : counter'[l] # 0 => 1 <= life'[l]
        <4>1. \A l \in Lines : l # k => counter'[l] = counter[l] /\ life'[l] = life[l]
          BY <3>2, CountedLife
        <4>2. 1 <= life'[k]
          <5>1. /\ counter[k] \in Nat /\ life[k] \in Nat
                /\ life'[k] = IF counter[k] = 0 THEN life[k] + 1 ELSE life[k]
            BY <3>2, CountedLife
          <5> QED BY <5>1 DEF CountsAreDrawn
        <4> QED BY <4>1, <4>2 DEF CountsAreDrawn
      <3> QED BY <3>1, <3>2
    <2> QED BY <2>1, <2>2, <2>3 DEF CountsAreDrawn
  <1>8. CountsAreOwn'
    <2>1. ASSUME NEW k \in Hooks, NEW a \in admitted, Counting(k)' PROVE ~ SameCount(Counts(k)', a)
      BY <1>5, <1>6, <2>1 DEF CountsAreOwn
    <2>2. ASSUME NEW k \in Hooks, NEW m \in Hooks, Counting(k)', Counting(m)',
                 SameCount(Counts(k)', Counts(m)')
          PROVE  k = m
      <3>1. CASE k # h /\ m # h
        BY <1>5, <2>2, <3>1 DEF CountsAreOwn
      <3>2. CASE k = h /\ m # h
        BY <1>5, <1>6, <2>2, <3>2
      <3>3. CASE k # h /\ m = h
        BY <1>5, <1>6, <2>2, <3>3 DEF SameCount
      <3> QED BY <3>1, <3>2, <3>3
    <2>3. \A a, b \in admitted : SameCount(a, b) => a = b
      BY DEF CountsAreOwn
    <2> QED BY <2>1, <2>2, <2>3 DEF CountsAreOwn, SameCount
  <1> QED BY <1>4, <1>7, <1>8

\* A request between its events, or about to queue one.
LEMMA PlainKeeps ==
  ASSUME HookInv, NEW h \in Hooks, NEW job \in Request, hook' = [hook EXCEPT ![h] = job],
         (UNCHANGED <<counter, life>>) \/ \E l \in Lines : Counted(l),
         UNCHANGED admitted, deliveries' \in Nat, expiring' \subseteq Lines, lost' \subseteq Lines,
         \/ job.step \in {"idle", "check"}
         \/ job.step = "enqueue" /\ job.left # <<>> /\ Head(job.left).line \in Lines
  PROVE  HookInv'
  BY RequestKeeps

\* A request that arrives has not counted anything yet.
LEMMA ReceiveKeeps ==
  ASSUME HookInv, NEW h \in Hooks, NEW d \in Deliveries, Receive(h, d)
  PROVE  HookInv'
  <1> USE DEF Receive, counterVars
  <1>1. hook[h] \in Request /\ d \in Seq(Delivered) /\ deliveries \in Nat
        /\ expiring \subseteq Lines /\ lost \subseteq Lines
    BY DeliveriesAssumption DEF HookInv, WebhookTypeOK
  <1> DEFINE job == [hook[h] EXCEPT !.step = "check", !.left = d]
  <1>2. job \in Request /\ job.step = "check"
    BY <1>1 DEF Request
  <1>3. hook' = [hook EXCEPT ![h] = job]
    OBVIOUS
  <1>4. deliveries' \in Nat
    BY <1>1
  <1> HIDE DEF job
  <1> QED BY <1>1, <1>2, <1>3, <1>4, PlainKeeps

\* Request has no events left, or goes on with the next one.
LEMMA LeaveKeeps ==
  ASSUME HookInv, NEW h \in Hooks,
         \/ Respond(h)
         \/ Skip(h)
         \/ Enqueue(h)
         \/ EnqueueFails(h)
         \/ HookDies(h)
         \/ Decide(h) /\ hook[h].count > Limit
  PROVE  HookInv'
  <1>1. hook[h] \in Request /\ deliveries \in Nat /\ expiring \subseteq Lines /\ lost \subseteq Lines
    BY DEF HookInv, WebhookTypeOK
  <1>2. Served \in Request /\ Served.step = "idle"
    BY EmptySeq DEF Served, Request
  <1>3. PICK job \in Request : job.step \in {"idle", "check"} /\ hook' = [hook EXCEPT ![h] = job]
    <2>1. CASE hook' = [hook EXCEPT ![h] = Served]
      BY <1>2, <2>1
    <2>2. CASE hook' = [hook EXCEPT ![h] = NextEvent(hook[h])] /\ hook[h].left # <<>>
      BY <1>1, <2>2, NextEventTyped
    <2>3. hook[h].step \in {"enqueue", "decide"} => hook[h].left # <<>>
      BY DEF HookInv, WebhookTypeOK
    <2> QED BY <2>1, <2>2, <2>3
            DEF Respond, Skip, Enqueue, EnqueueFails, HookDies, Decide, HasEvent, At
  <1>4. /\ UNCHANGED <<counter, life, admitted, expiring, deliveries>>
        /\ lost' \in {lost, lost \cup {Line(h)}}
        /\ lost' # lost => At(h, "expire")
    BY DEF Respond, Skip, Enqueue, EnqueueFails, HookDies, Decide, counterVars
  <1>5. lost' \subseteq Lines
    BY <1>1, <1>4 DEF HookInv, WebhookTypeOK, At
  <1> QED BY <1>1, <1>3, <1>4, <1>5, PlainKeeps

\* When INCR fails the event passes without a decision, whether the counter moved or not.
LEMMA IncrFailsKeeps ==
  ASSUME HookInv, NEW h \in Hooks, IncrFails(h)
  PROVE  HookInv'
  <1> USE DEF IncrFails, HasEvent, At
  <1>1. hook[h] \in Request /\ deliveries \in Nat /\ expiring \subseteq Lines /\ lost \subseteq Lines
    BY DEF HookInv, WebhookTypeOK
  <1>2. hook[h].left # <<>> /\ Line(h) \in Lines
    <2>1. hook[h].left \in Seq(Delivered) /\ hook[h].left # <<>> /\ Line(h) # NoLine
      BY <1>1 DEF Request
    <2>2. Head(hook[h].left) \in Delivered
      BY <2>1, HeadTailProperties
    <2> QED BY <2>1, <2>2 DEF Delivered, Line
  <1> DEFINE job == [hook[h] EXCEPT !.step = "enqueue"]
  <1>3. job \in Request /\ job.step = "enqueue" /\ job.left = hook[h].left
    BY <1>1 DEF Request
  <1>4. hook' = [hook EXCEPT ![h] = job]
    OBVIOUS
  <1>5. (UNCHANGED <<counter, life>>) \/ \E l \in Lines : Counted(l)
    BY <1>2
  <1>6. lost' \subseteq Lines /\ UNCHANGED <<admitted, expiring, deliveries>>
    BY <1>1, <1>2
  <1> HIDE DEF job
  <1> QED BY <1>1, <1>2, <1>3, <1>4, <1>5, <1>6, PlainKeeps DEF Line

\* What INCR returns, nobody else has been given.
LEMMA IncrKeeps ==
  ASSUME HookInv, NEW h \in Hooks, Incr(h)
  PROVE  HookInv'
  <1> USE DEF Incr, HasEvent, At
  <1>1. /\ hook[h] \in Request /\ deliveries \in Nat /\ expiring \subseteq Lines
        /\ lost \subseteq Lines /\ WebhookTypeOK
    BY DEF HookInv, WebhookTypeOK
  <1>2. PICK l \in Lines : l = Line(h)
    <2>1. hook[h].left \in Seq(Delivered) /\ hook[h].left # <<>> /\ Line(h) # NoLine
      BY <1>1 DEF Request
    <2>2. Head(hook[h].left) \in Delivered
      BY <2>1, HeadTailProperties
    <2> QED BY <2>1, <2>2 DEF Delivered, Line
  <1>3. Counted(l) /\ hook[h].left # <<>>
    BY <1>2
  <1>4. /\ counter' \in [Lines -> Nat] /\ life' \in [Lines -> Nat]
        /\ counter'[l] = counter[l] + 1
        /\ life'[l] = IF counter[l] = 0 THEN life[l] + 1 ELSE life[l]
        /\ counter[l] \in Nat /\ life[l] \in Nat
    BY <1>1, <1>3, CountedLife
  <1> DEFINE step == IF counter'[l] = 1 THEN "expire" ELSE "decide"
             job == [hook[h] EXCEPT !.step = step, !.count = counter'[l], !.life = life'[l]]
             mine == [line |-> Head(job.left).line, life |-> job.life, count |-> job.count]
  <1>5. /\ job \in Request /\ job.step \in {"expire", "decide"} /\ job.left = hook[h].left
        /\ job.count = counter'[l] /\ job.life = life'[l]
    BY <1>1, <1>4 DEF Request
  <1>6. hook' = [hook EXCEPT ![h] = job]
    BY <1>2
  <1> HIDE DEF job
  <1>7. mine.line = l /\ mine.life = life'[l] /\ mine.count = counter'[l]
    BY <1>2, <1>5 DEF Line
  <1> HIDE DEF mine
  <1>8. \A a \in admitted : ~ SameCount(mine, a)
    <2> SUFFICES ASSUME NEW a \in admitted, SameCount(mine, a) PROVE FALSE
      OBVIOUS
    <2>1. a.line = l /\ a.life = life'[l] /\ a.count = counter'[l]
      BY <1>7 DEF SameCount
    <2>2. a.life <= life[l] /\ (a.life = life[l] /\ counter[l] # 0 => a.count <= counter[l])
      BY <2>1 DEF HookInv, CountsAreDrawn
    <2> QED BY <1>4, <2>1, <2>2
  <1>9. \A k \in Hooks : k # h /\ Counting(k) => ~ SameCount(mine, Counts(k))
    <2> SUFFICES ASSUME NEW k \in Hooks, Counting(k), SameCount(mine, Counts(k)) PROVE FALSE
      OBVIOUS
    <2>1. Line(k) = l /\ hook[k].life = life'[l] /\ hook[k].count = counter'[l]
      BY <1>7 DEF SameCount, Counts
    <2>2. /\ hook[k].life <= life[l]
          /\ hook[k].life = life[l] /\ counter[l] # 0 => hook[k].count <= counter[l]
      BY <2>1 DEF HookInv, CountsAreDrawn
    <2> QED BY <1>4, <2>1, <2>2
  <1>10. 1 <= job.life
    <2>1. counter[l] # 0 => 1 <= life[l]
      BY DEF HookInv, CountsAreDrawn
    <2> QED BY <1>4, <1>5, <2>1
  <1>11. UNCHANGED <<admitted, expiring, lost, deliveries>>
    OBVIOUS
  <1>12. /\ 1 <= job.count /\ job.life <= life'[mine.line]
         /\ job.life = life'[mine.line] /\ counter'[mine.line] # 0 =>
              job.count <= counter'[mine.line]
    BY <1>4, <1>5, <1>7
  <1>13. mine = [line |-> Head(job.left).line, life |-> job.life, count |-> job.count]
    BY DEF mine
  <1>14. Head(job.left).line \in Lines /\ job.left # <<>>
    BY <1>2, <1>3, <1>5 DEF Line
  <1> QED BY <1>1, <1>3, <1>5, <1>6, <1>8, <1>9, <1>10, <1>11, <1>12, <1>13, <1>14, RequestKeeps

\* A count keeps its event until it is decided.
LEMMA ExpireKeeps ==
  ASSUME HookInv, NEW h \in Hooks, Expire(h) \/ ExpireFails(h)
  PROVE  HookInv'
  <1> USE DEF Expire, ExpireFails, At
  <1>1. /\ hook[h] \in Request /\ deliveries \in Nat /\ expiring \subseteq Lines
        /\ lost \subseteq Lines /\ hook[h].left # <<>> /\ Line(h) \in Lines /\ Counting(h)
    BY DEF HookInv, WebhookTypeOK, Counting
  <1> DEFINE job == [hook[h] EXCEPT !.step = "decide"]
             mine == [line |-> Head(job.left).line, life |-> job.life, count |-> job.count]
  <1>2. /\ job \in Request /\ job.step = "decide" /\ job.left = hook[h].left
        /\ job.count = hook[h].count /\ job.life = hook[h].life
    BY <1>1 DEF Request
  <1>3. hook' = [hook EXCEPT ![h] = job]
    OBVIOUS
  <1> HIDE DEF job
  <1>4. mine = Counts(h) /\ mine.line = Line(h)
    BY <1>2 DEF Line, Counts
  <1>5. mine = [line |-> Head(job.left).line, life |-> job.life, count |-> job.count]
    OBVIOUS
  <1> HIDE DEF mine
  <1>6. /\ 1 <= job.count /\ 1 <= job.life /\ job.life <= life[mine.line]
        /\ job.life = life[mine.line] /\ counter[mine.line] # 0 => job.count <= counter[mine.line]
    BY <1>1, <1>2, <1>4 DEF HookInv, CountsAreDrawn
  <1>7. /\ \A a \in admitted : ~ SameCount(mine, a)
        /\ \A k \in Hooks : k # h /\ Counting(k) => ~ SameCount(mine, Counts(k))
    BY <1>1, <1>4 DEF HookInv, CountsAreOwn
  <1>8. /\ UNCHANGED <<counter, life, admitted, deliveries>>
        /\ expiring' \subseteq Lines /\ lost' \subseteq Lines
    BY <1>1
  <1>9. Head(job.left).line \in Lines /\ job.left # <<>>
    BY <1>1, <1>2 DEF Line
  <1> QED BY <1>1, <1>2, <1>3, <1>5, <1>6, <1>7, <1>8, <1>9, RequestKeeps

\* What is let through has a count of its own, within the limit.
LEMMA DecideKeeps ==
  ASSUME HookInv, NEW h \in Hooks, Decide(h)
  PROVE  HookInv'
  <1>1. CASE hook[h].count > Limit
    BY <1>1, LeaveKeeps
  <1>2. CASE ~ hook[h].count > Limit
    <2> USE DEF HookInv, At
    <2>1. /\ hook \in [Hooks -> Request] /\ hook[h].left # <<>> /\ Line(h) \in Lines
          /\ Counting(h)
      BY DEF Decide, WebhookTypeOK, Counting
    <2> DEFINE job == [hook[h] EXCEPT !.step = "enqueue"]
               new == [line |-> Line(h), life |-> hook[h].life, count |-> hook[h].count, by |-> h]
    <2>2. /\ job \in Request /\ job.step = "enqueue" /\ job.left = hook[h].left
      BY <2>1 DEF Request
    <2>3. hook' = [hook EXCEPT ![h] = job] /\ admitted' = admitted \cup {new}
          /\ UNCHANGED <<deliveries, counterVars>>
      BY <1>2 DEF Decide
    <2>4. /\ new \in [line : Lines, life : Nat, count : Nat, by : Hooks]
          /\ new.line = Line(h) /\ new.life = hook[h].life /\ new.count = hook[h].count
      BY <2>1 DEF Request
    <2> HIDE DEF job, new
    <2>5. \A k \in Hooks : hook'[k] = IF k = h THEN job ELSE hook[k]
      BY <2>1, <2>3
    <2>6. \A k \in Hooks : Counting(k)' => /\ k # h /\ Counting(k) /\ hook'[k] = hook[k]
                                           /\ Counts(k)' = Counts(k) /\ Line(k)' = Line(k)
      BY <2>2, <2>5 DEF Counting, Counts, Line
    <2>7. WebhookTypeOK'
      <3>1. \A k \in Hooks : hook'[k].step \in {"expire", "decide", "enqueue"} =>
              hook'[k].left # <<>> /\ Line(k)' \in Lines
        BY <2>1, <2>2, <2>5 DEF WebhookTypeOK, Line
      <3>2. hook' \in [Hooks -> Request]
        BY <2>1, <2>2, <2>3
      <3> QED BY <2>3, <2>4, <3>1, <3>2 DEF WebhookTypeOK, counterVars
    <2>8. CountsAreDrawn'
      <3>1. new.count <= Limit
        BY <1>2, <2>1, <2>4, LimitAssumption DEF Request
      <3>2. /\ 1 <= new.count /\ 1 <= new.life /\ new.life <= life[new.line]
            /\ new.life = life[new.line] /\ counter[new.line] # 0 =>
                 new.count <= counter[new.line]
        BY <2>1, <2>4 DEF CountsAreDrawn
      <3>3. UNCHANGED <<counter, life>>
        BY <2>3 DEF counterVars
      <3> QED BY <2>3, <2>6, <3>1, <3>2, <3>3 DEF CountsAreDrawn
    <2>9. CountsAreOwn'
      <3>1. \A a \in admitted : ~ SameCount(new, a) /\ ~ SameCount(a, new)
        BY <2>1, <2>4 DEF CountsAreOwn, SameCount, Counts
      <3>2. \A k \in Hooks : k # h /\ Counting(k) => ~ SameCount(Counts(k), new)
        BY <2>1, <2>4 DEF CountsAreOwn, SameCount, Counts
      <3>3. \A a, b \in admitted' : SameCount(a, b) => a = b
        BY <2>3, <3>1 DEF CountsAreOwn
      <3>4. \A k \in Hooks, a \in admitted' : Counting(k)' => ~ SameCount(Counts(k)', a)
        BY <2>3, <2>6, <3>2 DEF CountsAreOwn
      <3>5. \A k, m \in Hooks :
              Counting(k)' /\ Counting(m)' /\ SameCount(Counts(k)', Counts(m)') => k = m
        BY <2>6 DEF CountsAreOwn
      <3> QED BY <3>3, <3>4, <3>5 DEF CountsAreOwn, SameCount
    <2> QED BY <2>7, <2>8, <2>9
  <1> QED BY <1>1, <1>2

\* A counter that ends starts a new life, in which no event has a count.
LEMMA CounterEndsKeeps ==
  ASSUME HookInv, NEW l \in Lines, CounterEnds(l)
  PROVE  HookInv'
  <1> USE DEF CounterEnds, HookInv, hookVars
  <1>1. counter \in [Lines -> Nat]
    BY DEF WebhookTypeOK
  <1>2. \A k \in Lines : counter'[k] = IF k = l THEN 0 ELSE counter[k]
    BY <1>1
  <1>3. WebhookTypeOK'
    BY <1>1 DEF WebhookTypeOK, Line
  <1>4. \A k \in Hooks : Counting(k)' = Counting(k) /\ Counts(k)' = Counts(k) /\ Line(k)' = Line(k)
                         /\ (Counting(k) => Line(k) \in Lines)
    BY DEF Counting, Counts, Line, WebhookTypeOK
  <1>5. CountsAreDrawn'
    <2>1. \A a \in admitted : a.line \in Lines
      BY DEF WebhookTypeOK
    <2> QED BY <1>2, <1>4, <2>1 DEF CountsAreDrawn
  <1>6. CountsAreOwn'
    BY <1>4 DEF CountsAreOwn, SameCount
  <1> QED BY <1>3, <1>5, <1>6

\* The limit holds: the counts of a life are numbers of their own, from 1 to Limit.
LEMMA LimitHolds == HookInv => WindowHolds
  <1> SUFFICES ASSUME HookInv, NEW l \in Lines, NEW k \in 1 .. life[l]
               PROVE  Cardinality({a \in admitted : a.line = l /\ a.life = k}) <= Limit
    BY DEF WindowHolds
  <1> DEFINE S == {a \in admitted : a.line = l /\ a.life = k}
             f == [a \in S |-> a.count]
  <1>1. \A a \in S : a.count \in 1 .. Limit
    BY LimitAssumption DEF HookInv, CountsAreDrawn, WebhookTypeOK
  <1>2. \A a, b \in S : a.count = b.count => a = b
    BY DEF HookInv, CountsAreOwn, SameCount
  <1>3. f \in Injection(S, 1 .. Limit)
    BY <1>1, <1>2 DEF Injection, IsInjective
  <1>4. IsFiniteSet(1 .. Limit) /\ Cardinality(1 .. Limit) = Limit
    BY LimitAssumption, FS_Interval
  <1> HIDE DEF S, f
  <1>5. Cardinality(S) <= Cardinality(1 .. Limit)
    BY <1>3, <1>4, FS_Injection
  <1> QED BY <1>4, <1>5 DEF S

-----------------------------------------------------------------------------
(* The workers.                                                             *)

\* What a step of one worker that neither registers a user nor stores an object or an
\* image has to show.
LEMMA WorkKeeps ==
  ASSUME PictureInv, NEW w \in Workers, NEW job \in Work, work' = [work EXCEPT ![w] = job],
         UNCHANGED <<users, agents, drawn, objects, images, clock>>,
         known' \subseteq [line : Senders, id : UserIds, ns : UserIds],
         \A a \in known' : a.id = users[a.line] /\ a.ns = a.id,
         slips' \subseteq [object : Objects, ns : UserIds,
                           status : {"PENDING_OCR", "NEEDS_CONFIRMATION"}],
         \A s \in slips' : CanBeOpened(s.object),
         asked' \cup shown' \subseteq [object : Objects, line : Senders],
         \A q \in asked' \cup shown' :
           CanBeOpened(q.object) /\ \A i \in images : i.object = q.object => i.line = q.line,
         job.step \in Finding => job.line \in Senders /\ job.kind # "none",
         job.step \in Registering =>
           /\ work[w].step \in Registering
           /\ job.line = work[w].line /\ job.id = work[w].id
           /\ job.step = "commit" => job.ns = job.id,
         job.step \in Serving => Identified(job),
         job.step \in Early => job.step # "row" /\ ~ job.row,
         job.object \in 0 .. clock,
         \A v \in Workers : v # w /\ work[v].step = "row" => job.object # work[v].object,
         job.step \in Holding => HoldsOwn(job)
  PROVE  PictureInv'
  <1> USE DEF PictureInv
  <1>1. work \in [Workers -> Work]
    BY DEF IntakeTypeOK
  <1>2. \A v \in Workers : work'[v] = IF v = w THEN job ELSE work[v]
    BY <1>1
  <1>3. IntakeTypeOK'
    BY <1>1 DEF IntakeTypeOK
  <1>4. IdentitiesAgree'
    BY DEF IdentitiesAgree
  <1>5. RegistrationsAgree'
    BY <1>2 DEF RegistrationsAgree, Identified, Doing
  <1>6. \A n : CanBeOpened(n)' = CanBeOpened(n)
    BY DEF CanBeOpened
  <1>7. ImagesAgree'
    BY <1>6 DEF ImagesAgree
  <1>8. PicturesAgree'
    <2>1. clock \in Nat /\ job.object <= clock
      BY IntakeAssumption DEF IntakeTypeOK
    <2>2. \A v \in Workers : work'[v].step \in Holding => HoldsOwn(work[v])'
      <3> SUFFICES ASSUME NEW v \in Workers, work'[v].step \in Holding PROVE HoldsOwn(work[v])'
        OBVIOUS
      <3>1. HoldsOwn(work'[v])
        BY <1>2 DEF PicturesAgree
      <3> QED BY <1>6, <3>1 DEF HoldsOwn
    <2>3. \A v \in Workers : work'[v].step = "row" => v # w /\ work'[v] = work[v]
      BY <1>2 DEF Early
    <2>4. \A v \in Workers : work'[v].step \in Early => ~ work'[v].row
      BY <1>2 DEF PicturesAgree
    <2> QED BY <1>2, <2>1, <2>2, <2>3, <2>4 DEF PicturesAgree
  <1> QED BY <1>3, <1>4, <1>5, <1>7, <1>8

\* A worker goes on with the picture it has.
LEMMA GoesKeeps ==
  ASSUME PictureInv, NEW w \in Workers, NEW job \in Work, work' = [work EXCEPT ![w] = job],
         UNCHANGED <<identityVars, objects, images, clock>>,
         job.line = work[w].line, job.id = work[w].id, job.ns = work[w].ns,
         job.object = work[w].object, job.row = work[w].row,
         job.step \notin Finding, job.step # "row",
         job.step \in Early => work[w].step \in Early,
         job.step \in Serving => work[w].step \in Serving,
         job.step \in Holding => work[w].step \in Holding,
         job.step \in Opening => work[w].step \in Opening \/ work[w].row,
         slips' \subseteq [object : Objects, ns : UserIds,
                           status : {"PENDING_OCR", "NEEDS_CONFIRMATION"}],
         \A s \in slips' : CanBeOpened(s.object),
         asked' \cup shown' \subseteq [object : Objects, line : Senders],
         \A q \in asked' \cup shown' :
           CanBeOpened(q.object) /\ \A i \in images : i.object = q.object => i.line = q.line
  PROVE  PictureInv'
  <1> USE DEF PictureInv, identityVars
  <1>1. work[w] \in Work
    BY DEF IntakeTypeOK
  <1>2. UNCHANGED <<users, agents, drawn, known>>
    OBVIOUS
  <1>3. known' \subseteq [line : Senders, id : UserIds, ns : UserIds]
    BY <1>2 DEF IntakeTypeOK
  <1>4. \A a \in known' : a.id = users[a.line] /\ a.ns = a.id
    BY <1>2 DEF IdentitiesAgree
  <1>5. job.step \in Serving => Identified(job)
    BY DEF RegistrationsAgree, Identified
  <1>6. job.object \in 0 .. clock
    <2>1. work[w].object \in Nat /\ clock \in Nat /\ work[w].object <= clock
      BY <1>1, IntakeAssumption DEF IntakeTypeOK, PicturesAgree, Work
    <2> QED BY <2>1
  <1>7. \A v \in Workers : v # w /\ work[v].step = "row" => job.object # work[v].object
    BY DEF PicturesAgree
  <1>8. job.step \in Holding => HoldsOwn(job)
    BY DEF PicturesAgree, HoldsOwn, Opening
  <1>9. job.step \notin Registering /\ (job.step \in Early => job.step # "row" /\ ~ job.row)
    BY DEF Finding, Registering, PicturesAgree
  <1> QED BY <1>2, <1>3, <1>4, <1>5, <1>6, <1>7, <1>8, <1>9, WorkKeeps

\* A worker that only changes its step.
LEMMA MovesKeep ==
  ASSUME PictureInv, NEW w \in Workers, NEW job \in Work, work' = [work EXCEPT ![w] = job],
         UNCHANGED <<identityVars, pictureVars>>,
         job.line = work[w].line, job.id = work[w].id, job.ns = work[w].ns,
         job.object = work[w].object, job.row = work[w].row,
         job.step \notin Finding, job.step # "row",
         job.step \in Early => work[w].step \in Early,
         job.step \in Serving => work[w].step \in Serving,
         job.step \in Holding => work[w].step \in Holding,
         job.step \in Opening => work[w].step \in Opening \/ work[w].row
  PROVE  PictureInv'
  <1>1. UNCHANGED <<identityVars, objects, images, clock, slips, asked, shown>>
    BY DEF pictureVars
  <1>2. /\ slips' \subseteq [object : Objects, ns : UserIds,
                             status : {"PENDING_OCR", "NEEDS_CONFIRMATION"}]
        /\ asked' \cup shown' \subseteq [object : Objects, line : Senders]
    BY <1>1 DEF PictureInv, IntakeTypeOK
  <1>3. \A s \in slips' : CanBeOpened(s.object)
    BY <1>1 DEF PictureInv, ImagesAgree
  <1>4. \A q \in asked' \cup shown' :
          CanBeOpened(q.object) /\ \A i \in images : i.object = q.object => i.line = q.line
    BY <1>1 DEF PictureInv, ImagesAgree
  <1> QED BY <1>1, <1>2, <1>3, <1>4, GoesKeeps

\* Going to another step changes nothing else of the worker's state.
LEMMA GoesTo ==
  ASSUME PictureInv, NEW w \in Workers, NEW step \in Steps, Goes(w, step)
  PROVE  \E job \in Work :
           /\ work' = [work EXCEPT ![w] = job]
           /\ job.line = work[w].line /\ job.id = work[w].id /\ job.ns = work[w].ns
           /\ job.object = work[w].object /\ job.row = work[w].row /\ job.step = step
  <1>1. work[w] \in Work
    BY DEF PictureInv, IntakeTypeOK
  <1> DEFINE job == [work[w] EXCEPT !.step = step]
  <1>2. /\ job \in Work /\ job.line = work[w].line /\ job.id = work[w].id
        /\ job.ns = work[w].ns /\ job.object = work[w].object /\ job.row = work[w].row
        /\ job.step = step
    BY <1>1 DEF Work
  <1>3. work' = [work EXCEPT ![w] = job]
    BY DEF Goes
  <1> HIDE DEF job
  <1> QED BY <1>2, <1>3

\* The steps that change nothing but the worker.
LEMMA PlainMovesKeep ==
  ASSUME PictureInv, NEW w \in Workers, Download(w) \/ Load(w) \/ Answer(w)
  PROVE  PictureInv'
  <1>1. PICK step \in {"put", "answer", "reread", "done", "failed"} :
          /\ Goes(w, step)
          /\ step = "put" => Doing(w, "image")
          /\ step = "reread" => Doing(w, "load")
    BY DEF Download, Load, Answer
  <1>2. UNCHANGED <<identityVars, pictureVars>>
    BY DEF Download, Load, Answer
  <1>3. step \in Steps
    BY DEF Steps
  <1>4. PICK job \in Work :
          /\ work' = [work EXCEPT ![w] = job]
          /\ job.line = work[w].line /\ job.id = work[w].id /\ job.ns = work[w].ns
          /\ job.object = work[w].object /\ job.row = work[w].row /\ job.step = step
    BY <1>1, <1>3, GoesTo
  <1>5. /\ job.step \notin Finding /\ job.step # "row"
        /\ job.step \in Early => work[w].step \in Early
        /\ job.step \in Serving => work[w].step \in Serving
        /\ job.step \in Holding => work[w].step \in Holding
        /\ job.step \in Opening => work[w].step \in Opening \/ work[w].row
    BY <1>1, <1>4 DEF Early, Finding, Serving, Holding, Opening, Doing
  <1> QED BY <1>2, <1>4, <1>5, MovesKeep

\* The models' answers, and the turns from one way of asking to the next.
LEMMA ReadingKeeps ==
  ASSUME PictureInv, NEW w \in Workers, AskStructured(w) \/ AskWithSchema(w) \/ AskInChat(w)
  PROVE  PictureInv'
  <1> DEFINE old == work[w]
             Same(job) == /\ work' = [work EXCEPT ![w] = job]
                          /\ job.line = old.line /\ job.id = old.id /\ job.ns = old.ns
                          /\ job.object = old.object /\ job.row = old.row
             Right(step) == \/ step = old.step
                            \/ step = "answer"
                            \/ step = "slip" /\ Doing(w, "read")
                            \/ step = "asking" /\ Doing(w, "reread")
  <1>1. old \in Work /\ old.step \in {"read", "reread"}
    BY DEF PictureInv, IntakeTypeOK, AskStructured, AskWithSchema, AskInChat, Reads
  <1>2. UNCHANGED <<identityVars, pictureVars>>
    BY DEF AskStructured, AskWithSchema, AskInChat
  <1>3. ASSUME Verdict(w) PROVE \E job \in Work : Same(job) /\ Right(job.step)
    <2>1. PICK v \in Verdicts(w) :
            work' = [work EXCEPT ![w].step = v[1], ![w].amount = v[2]]
      BY <1>3 DEF Verdict
    <2>2. v[1] \in Steps /\ v[2] \in BOOLEAN /\ Right(v[1])
      <3>1. CASE Doing(w, "reread")
        <4>1. v \in {<<"asking", TRUE>>, <<"answer", FALSE>>}
          BY <3>1 DEF Verdicts
        <4>2. CASE v = <<"asking", TRUE>>
          BY <3>1, <4>2 DEF Steps
        <4>3. CASE v = <<"answer", FALSE>>
          BY <4>3 DEF Steps
        <4> QED BY <4>1, <4>2, <4>3
      <3>2. CASE ~ Doing(w, "reread")
        <4>1. v \in {<<"slip", TRUE>>, <<"slip", FALSE>>, <<"answer", FALSE>>}
          BY <3>2 DEF Verdicts
        <4>2. Doing(w, "read")
          BY <1>1, <3>2 DEF Doing
        <4>3. CASE v = <<"slip", TRUE>>
          BY <4>2, <4>3 DEF Steps
        <4>4. CASE v = <<"slip", FALSE>>
          BY <4>2, <4>4 DEF Steps
        <4>5. CASE v = <<"answer", FALSE>>
          BY <4>5 DEF Steps
        <4> QED BY <4>1, <4>3, <4>4, <4>5
      <3> QED BY <3>1, <3>2
    <2> DEFINE job == [old EXCEPT !.step = v[1], !.amount = v[2]]
    <2>3. /\ job \in Work /\ job.line = old.line /\ job.id = old.id /\ job.ns = old.ns
          /\ job.object = old.object /\ job.row = old.row /\ job.step = v[1]
      BY <1>1, <2>2 DEF Work
    <2>4. work' = [work EXCEPT ![w] = job]
      BY <2>1
    <2> HIDE DEF job
    <2> QED BY <2>2, <2>3, <2>4
  <1>4. ASSUME NEW stage \in {"structured", "schema", "chat"}, Turns(w, stage)
        PROVE  \E job \in Work : Same(job) /\ Right(job.step)
    <2> DEFINE job == [old EXCEPT !.stage = stage, !.models = Models]
    <2>1. /\ job \in Work /\ job.line = old.line /\ job.id = old.id /\ job.ns = old.ns
          /\ job.object = old.object /\ job.row = old.row /\ job.step = old.step
      <3>1. Models \in 0 .. Models
        BY IntakeAssumption
      <3> QED BY <1>1, <3>1 DEF Work
    <2>2. work' = [work EXCEPT ![w] = job]
      BY <1>4 DEF Turns
    <2> HIDE DEF job
    <2> QED BY <2>1, <2>2
  <1>5. ASSUME NextModel(w) PROVE \E job \in Work : Same(job) /\ Right(job.step)
    <2>1. PICK n \in 0 .. Models : n = old.models - 1
      BY <1>1, <1>5, IntakeAssumption DEF NextModel, Work
    <2> DEFINE job == [old EXCEPT !.models = n]
    <2>2. /\ job \in Work /\ job.line = old.line /\ job.id = old.id /\ job.ns = old.ns
          /\ job.object = old.object /\ job.row = old.row /\ job.step = old.step
      BY <1>1 DEF Work
    <2>3. work' = [work EXCEPT ![w] = job]
      BY <1>5, <2>1 DEF NextModel
    <2> HIDE DEF job
    <2> QED BY <2>2, <2>3
  <1>6. ASSUME Goes(w, "answer") PROVE \E job \in Work : Same(job) /\ Right(job.step)
    <2>1. "answer" \in Steps
      BY DEF Steps
    <2> QED BY <1>6, <2>1, GoesTo
  <1>7. PICK job \in Work : Same(job) /\ Right(job.step)
    BY <1>3, <1>4, <1>5, <1>6 DEF AskStructured, AskWithSchema, AskInChat
  <1>8. /\ job.step \notin Finding /\ job.step # "row"
        /\ job.step \in Early => old.step \in Early
        /\ job.step \in Serving => old.step \in Serving
        /\ job.step \in Holding => old.step \in Holding
        /\ job.step \in Opening => old.step \in Opening \/ old.row
    BY <1>1, <1>7 DEF Early, Finding, Serving, Holding, Opening, Doing
  <1> QED BY <1>2, <1>7, <1>8, MovesKeep

\* A picture that can be opened has the number of an object.
LEMMA OpenedObject ==
  ASSUME IntakeTypeOK, NEW n, CanBeOpened(n)
  PROVE  n \in Objects
  BY DEF CanBeOpened, IntakeTypeOK

\* A slip is kept for a picture whose row is there.
LEMMA SlipKeeps ==
  ASSUME PictureInv, NEW w \in Workers, CreateSlip(w) \/ ApplyVision(w)
  PROVE  PictureInv'
  <1>1. /\ work[w] \in Work /\ work[w].step \in {"slip", "apply"}
        /\ UNCHANGED <<identityVars, objects, images, asked, shown, clock>>
    BY DEF PictureInv, IntakeTypeOK, CreateSlip, ApplyVision, Doing
  <1>2. PICK step \in {"apply", "asking", "answer"} :
          /\ Goes(w, step)
          /\ step = "apply" => work[w].row
          /\ step = "asking" => Doing(w, "apply")
    BY DEF CreateSlip, ApplyVision
  <1>3. step \in Steps
    BY DEF Steps
  <1>4. PICK job \in Work :
          /\ work' = [work EXCEPT ![w] = job]
          /\ job.line = work[w].line /\ job.id = work[w].id /\ job.ns = work[w].ns
          /\ job.object = work[w].object /\ job.row = work[w].row /\ job.step = step
    BY <1>2, <1>3, GoesTo
  <1>5. /\ job.step \notin Finding /\ job.step # "row"
        /\ job.step \in Early => work[w].step \in Early
        /\ job.step \in Serving => work[w].step \in Serving
        /\ job.step \in Holding => work[w].step \in Holding
        /\ job.step \in Opening => work[w].step \in Opening \/ work[w].row
    BY <1>1, <1>2, <1>4 DEF Early, Finding, Serving, Holding, Opening, Doing
  <1>6. Doing(w, "apply") \/ work[w].row =>
          CanBeOpened(work[w].object) /\ work[w].object \in Objects /\ work[w].ns \in UserIds
    <2> SUFFICES ASSUME Doing(w, "apply") \/ work[w].row
                 PROVE  CanBeOpened(work[w].object) /\ work[w].ns \in UserIds
      BY OpenedObject DEF PictureInv
    <2>1. CanBeOpened(work[w].object)
      BY <1>1 DEF PictureInv, PicturesAgree, HoldsOwn, Holding, Opening, Doing
    <2>2. Identified(work[w])
      BY <1>1 DEF PictureInv, RegistrationsAgree, Serving
    <2>3. work[w].ns \in 0 .. MaxUsers /\ work[w].ns # 0
      BY <1>1, <2>2 DEF Identified, Work
    <2> QED BY <2>1, <2>3 DEF UserIds
  <1>7. \A s \in slips' : \/ s \in slips
                          \/ /\ Doing(w, "apply") \/ work[w].row
                             /\ \E st \in {"PENDING_OCR", "NEEDS_CONFIRMATION"} : s = Slip(w, st)
    BY DEF CreateSlip, ApplyVision, Applied
  <1>8. \A s \in slips' :
          /\ s \in [object : Objects, ns : UserIds,
                    status : {"PENDING_OCR", "NEEDS_CONFIRMATION"}]
          /\ CanBeOpened(s.object)
    <2> SUFFICES ASSUME NEW s \in slips', s \notin slips
                 PROVE  /\ s \in [object : Objects, ns : UserIds,
                                  status : {"PENDING_OCR", "NEEDS_CONFIRMATION"}]
                        /\ CanBeOpened(s.object)
      BY DEF PictureInv, IntakeTypeOK, ImagesAgree
    <2>1. PICK st \in {"PENDING_OCR", "NEEDS_CONFIRMATION"} : s = Slip(w, st)
      BY <1>7
    <2> QED BY <1>6, <1>7, <2>1 DEF Slip
  <1>9. /\ asked' \cup shown' \subseteq [object : Objects, line : Senders]
        /\ \A q \in asked' \cup shown' :
             CanBeOpened(q.object) /\ \A i \in images : i.object = q.object => i.line = q.line
    BY <1>1 DEF PictureInv, IntakeTypeOK, ImagesAgree
  <1> QED BY <1>1, <1>4, <1>5, <1>8, <1>9, GoesKeeps

\* The question and the picture go to the one who sent it.
LEMMA ShowKeeps ==
  ASSUME PictureInv, NEW w \in Workers, Ask(w) \/ Show(w)
  PROVE  PictureInv'
  <1>1. /\ work[w] \in Work /\ work[w].step \in {"asking", "showing"}
        /\ UNCHANGED <<identityVars, objects, images, slips, clock>>
    BY DEF PictureInv, IntakeTypeOK, Ask, Show, Doing
  <1>2. PICK step \in {"done", "failed"} : Goes(w, step)
    BY DEF Ask, Show
  <1>3. step \in Steps
    BY DEF Steps
  <1>4. PICK job \in Work :
          /\ work' = [work EXCEPT ![w] = job]
          /\ job.line = work[w].line /\ job.id = work[w].id /\ job.ns = work[w].ns
          /\ job.object = work[w].object /\ job.row = work[w].row /\ job.step = step
    BY <1>2, <1>3, GoesTo
  <1>5. job.step \notin Early \cup Finding \cup Serving \cup Holding \cup Opening /\ job.step # "row"
    BY <1>4 DEF Early, Finding, Serving, Holding, Opening
  <1>6. HoldsOwn(work[w]) /\ Identified(work[w])
    BY <1>1 DEF PictureInv, PicturesAgree, RegistrationsAgree, Holding, Serving
  <1>7. CanBeOpened(work[w].object)
    BY <1>1, <1>6 DEF HoldsOwn, Opening, Holding
  <1>8. /\ Sent(w) \in [object : Objects, line : Senders]
        /\ Sent(w).object = work[w].object /\ Sent(w).line = work[w].line
    BY <1>6, <1>7, OpenedObject DEF Sent, Identified, PictureInv
  <1>9. asked' \cup shown' \subseteq asked \cup shown \cup {Sent(w)}
    BY DEF Ask, Show
  <1>10. /\ asked' \cup shown' \subseteq [object : Objects, line : Senders]
         /\ \A q \in asked' \cup shown' :
              CanBeOpened(q.object) /\ \A i \in images : i.object = q.object => i.line = q.line
    BY <1>6, <1>7, <1>8, <1>9 DEF PictureInv, IntakeTypeOK, ImagesAgree, HoldsOwn
  <1>11. /\ slips' \subseteq [object : Objects, ns : UserIds,
                              status : {"PENDING_OCR", "NEEDS_CONFIRMATION"}]
         /\ \A s \in slips' : CanBeOpened(s.object)
    BY <1>1 DEF PictureInv, IntakeTypeOK, ImagesAgree
  <1> QED BY <1>1, <1>4, <1>5, <1>10, <1>11, GoesKeeps

\* The newest picture of the namespace is one its user has sent.
LEMMA FindLatestKeeps ==
  ASSUME PictureInv, NEW w \in Workers, FindLatest(w)
  PROVE  PictureInv'
  <1> USE DEF PictureInv
  <1>1. /\ work[w] \in Work /\ work[w].step \in {"recall", "review"}
        /\ UNCHANGED <<identityVars, pictureVars>>
    BY DEF IntakeTypeOK, FindLatest
  <1>2. CASE Goes(w, "answer")
    <2>1. PICK step \in Steps : step = "answer"
      BY DEF Steps
    <2>2. PICK job \in Work :
            /\ work' = [work EXCEPT ![w] = job]
            /\ job.line = work[w].line /\ job.id = work[w].id /\ job.ns = work[w].ns
            /\ job.object = work[w].object /\ job.row = work[w].row /\ job.step = step
      BY <1>2, <2>1, GoesTo
    <2>3. job.step \notin Early \cup Finding \cup Serving \cup Holding \cup Opening /\ job.step # "row"
      BY <2>1, <2>2 DEF Early, Finding, Serving, Holding, Opening
    <2> QED BY <1>1, <2>2, <2>3, MovesKeep
  <1>3. CASE ~ Goes(w, "answer")
    <2>1. PICK i \in Newest(Mine(w)), step \in {"showing", "load"} :
            work' = [work EXCEPT ![w].object = i.object, ![w].row = TRUE, ![w].step = step]
      BY <1>3 DEF FindLatest
    <2>2. i \in images /\ i.ns = work[w].ns
      BY DEF Newest, Mine
    <2>3. i.object \in Objects /\ i.line \in Senders /\ i.object \in objects
      BY <2>2 DEF IntakeTypeOK, ImagesAgree
    <2> DEFINE job == [work[w] EXCEPT !.object = i.object, !.row = TRUE, !.step = step]
    <2>4. /\ job \in Work /\ job.line = work[w].line /\ job.id = work[w].id
          /\ job.ns = work[w].ns /\ job.object = i.object /\ job.step = step
      <3>1. i.object \in 0 .. MaxObjects
        BY <2>3 DEF Objects
      <3> QED BY <1>1, <3>1 DEF Work, Steps
    <2>5. work' = [work EXCEPT ![w] = job]
      BY <2>1
    <2> HIDE DEF job
    <2>6. Identified(work[w])
      BY <1>1 DEF RegistrationsAgree, Serving
    <2>7. i.line = work[w].line
      BY <2>2, <2>3, <2>6 DEF Identified, ImagesAgree, IdentitiesAgree
    <2>8. CanBeOpened(i.object)
      BY <2>2, <2>3 DEF CanBeOpened
    <2>9. HoldsOwn(job) /\ Identified(job)
      BY <2>2, <2>4, <2>6, <2>7, <2>8 DEF HoldsOwn, ImagesAgree, Identified
    <2>10. job.object \in 0 .. clock
      BY <2>3, <2>4, IntakeAssumption DEF ImagesAgree, IntakeTypeOK, Objects
    <2>11. \A v \in Workers : v # w /\ work[v].step = "row" => job.object # work[v].object
      BY <2>2, <2>4 DEF PicturesAgree
    <2>12. job.step \notin Finding \cup Registering \cup Early
      BY <2>4 DEF Finding, Registering, Early
    <2>13. /\ UNCHANGED <<users, agents, drawn, objects, images, clock, known, slips, asked, shown>>
      BY <1>1 DEF identityVars, pictureVars
    <2>14. /\ known' \subseteq [line : Senders, id : UserIds, ns : UserIds]
           /\ \A a \in known' : a.id = users[a.line] /\ a.ns = a.id
           /\ slips' \subseteq [object : Objects, ns : UserIds,
                                status : {"PENDING_OCR", "NEEDS_CONFIRMATION"}]
           /\ \A s \in slips' : CanBeOpened(s.object)
           /\ asked' \cup shown' \subseteq [object : Objects, line : Senders]
           /\ \A q \in asked' \cup shown' :
                CanBeOpened(q.object) /\ \A k \in images : k.object = q.object => k.line = q.line
      BY <2>13 DEF IntakeTypeOK, ImagesAgree, IdentitiesAgree
    <2> QED BY <2>4, <2>5, <2>9, <2>10, <2>11, <2>12, <2>13, <2>14, WorkKeeps
  <1> QED BY <1>2, <1>3

\* A picture gets a number that no worker and no store has.
LEMMA PutKeeps ==
  ASSUME PictureInv, NEW w \in Workers, Put(w)
  PROVE  PictureInv'
  <1> USE DEF PictureInv
  <1>1. /\ work \in [Workers -> Work] /\ work[w] \in Work /\ work[w].step = "put"
        /\ clock \in Nat /\ clock' = clock + 1 /\ clock' \in 1 .. MaxObjects
        /\ UNCHANGED <<identityVars, images, slips, asked, shown>>
    BY IntakeAssumption DEF IntakeTypeOK, Put, Doing
  <1>2. \A n \in objects : n \in Nat /\ n <= clock
    BY DEF ImagesAgree, IntakeTypeOK, Objects
  <1>3. \A v \in Workers : work[v].object \in Nat /\ work[v].object <= clock
    BY <1>1, IntakeAssumption DEF PicturesAgree, Work
  <1>4. PICK job \in Work :
          /\ work' = [work EXCEPT ![w] = job]
          /\ job.line = work[w].line /\ job.id = work[w].id /\ job.ns = work[w].ns
          /\ \/ job.step = "answer" /\ job.object = work[w].object
             \/ job.step = "row" /\ job.object = clock' /\ clock' \in objects'
                /\ job.row = work[w].row
    <2>1. CASE work' = [work EXCEPT ![w].object = clock', ![w].step = "row"] /\ clock' \in objects'
      <3>0. PICK n \in 0 .. MaxObjects : n = clock'
        BY <1>1
      <3> DEFINE new == [work[w] EXCEPT !.object = n, !.step = "row"]
      <3>1. /\ new \in Work /\ new.line = work[w].line /\ new.id = work[w].id
            /\ new.ns = work[w].ns /\ new.step = "row" /\ new.object = n
            /\ new.row = work[w].row
        BY <1>1 DEF Work, Steps
      <3>2. work' = [work EXCEPT ![w] = new]
        BY <2>1, <3>0
      <3> HIDE DEF new
      <3> QED BY <2>1, <3>0, <3>1, <3>2
    <2>2. CASE Goes(w, "answer")
      <3>1. "answer" \in Steps
        BY DEF Steps
      <3> QED BY <2>2, <3>1, GoesTo
    <2> QED BY <2>1, <2>2 DEF Put
  <1>5. objects \subseteq objects' /\ objects' \subseteq objects \cup {clock'}
    BY DEF Put
  <1>6. \A v \in Workers : work'[v] = IF v = w THEN job ELSE work[v]
    BY <1>1, <1>4
  <1>7. UNCHANGED <<users, agents, drawn, known>>
    BY <1>1 DEF identityVars
  <1>8. IntakeTypeOK'
    <2>1. objects' \subseteq Objects
      BY <1>1, <1>5 DEF IntakeTypeOK, Objects
    <2>2. clock' \in 0 .. MaxObjects
      BY <1>1
    <2> QED BY <1>1, <1>4, <1>7, <2>1, <2>2 DEF IntakeTypeOK
  <1>9. IdentitiesAgree'
    BY <1>7 DEF IdentitiesAgree
  <1>10. RegistrationsAgree'
    <2>1. Identified(work[w])
      BY <1>1 DEF RegistrationsAgree, Serving
    <2>2. job.step \notin Finding \cup Registering
      BY <1>4 DEF Finding, Registering
    <2> QED BY <1>4, <1>6, <1>7, <2>1, <2>2 DEF RegistrationsAgree, Identified, Doing
  <1>11. \A n : CanBeOpened(n) => CanBeOpened(n)'
    BY <1>1, <1>5 DEF CanBeOpened
  <1>12. ImagesAgree'
    <2>1. \A n \in objects' : n <= clock'
      BY <1>1, <1>2, <1>5
    <2> QED BY <1>1, <1>5, <1>7, <1>11, <2>1 DEF ImagesAgree
  <1>13. PicturesAgree'
    <2>1. \A v \in Workers : work'[v].object <= clock'
      BY <1>1, <1>3, <1>4, <1>6
    <2>2. ASSUME NEW v \in Workers, work'[v].step = "row"
          PROVE  /\ work'[v].object \in objects'
                 /\ \A i \in images : i.object # work'[v].object
                 /\ \A u \in Workers : u # v => work'[u].object # work'[v].object
      <3>1. CASE v = w
        <4>1. work'[v].object = clock' /\ clock' \in objects'
          BY <1>4, <1>6, <2>2, <3>1
        <4>2. \A i \in images : i.object # clock'
          BY <1>1, <1>2 DEF ImagesAgree
        <4>3. \A u \in Workers : u # v => work'[u].object # clock'
          BY <1>1, <1>3, <1>6, <3>1
        <4> QED BY <4>1, <4>2, <4>3
      <3>2. CASE v # w
        <4>1. work[v].step = "row" /\ work'[v] = work[v]
          BY <1>6, <2>2, <3>2
        <4>2. work[v].object # clock'
          BY <1>1, <1>3
        <4> QED BY <1>4, <1>5, <1>6, <4>1, <4>2 DEF PicturesAgree
      <3> QED BY <3>1, <3>2
    <2>3. ASSUME NEW v \in Workers, work'[v].step \in Holding PROVE HoldsOwn(work[v])'
      <3>1. v # w
        BY <1>4, <1>6, <2>3 DEF Holding
      <3>2. HoldsOwn(work[v]) /\ work'[v] = work[v]
        BY <1>6, <2>3, <3>1 DEF PicturesAgree
      <3> QED BY <1>1, <1>11, <3>2 DEF HoldsOwn
    <2>4. UNCHANGED images
      BY <1>1
    <2>5. ASSUME NEW v \in Workers, work'[v].step \in Early PROVE ~ work'[v].row
      <3>1. CASE v # w
        BY <1>6, <2>5, <3>1 DEF PicturesAgree
      <3>2. CASE v = w
        <4>1. ~ work[w].row
          BY <1>1 DEF PicturesAgree, Early
        <4> QED BY <1>4, <1>6, <2>5, <3>2, <4>1 DEF Early, Finding
      <3> QED BY <3>1, <3>2
    <2> QED BY <2>1, <2>2, <2>3, <2>4, <2>5 DEF PicturesAgree
  <1> QED BY <1>8, <1>9, <1>10, <1>12, <1>13
\* The row of a picture makes it one user's, and no other worker had it.
LEMMA SaveRowKeeps ==
  ASSUME PictureInv, NEW w \in Workers, SaveRow(w)
  PROVE  PictureInv'
  <1> USE DEF PictureInv
  <1>1. /\ work \in [Workers -> Work] /\ work[w] \in Work /\ work[w].step = "row"
        /\ UNCHANGED <<identityVars, objects, slips, asked, shown, clock>>
    BY DEF IntakeTypeOK, SaveRow, Doing
  <1>2. /\ Identified(work[w]) /\ ~ work[w].row
        /\ work[w].object \in objects
        /\ \A i \in images : i.object # work[w].object
        /\ \A v \in Workers : v # w => work[v].object # work[w].object
    BY <1>1 DEF RegistrationsAgree, PicturesAgree, Serving, Early
  <1>3. PICK job \in Work :
          /\ work' = [work EXCEPT ![w] = job]
          /\ job.line = work[w].line /\ job.id = work[w].id /\ job.ns = work[w].ns
          /\ job.object = work[w].object /\ job.step = "read"
          /\ job.row => Row(w) \in images'
    <2>1. CASE /\ images' = images \cup {Row(w)}
               /\ work' = [work EXCEPT ![w].step = "read", ![w].row = TRUE]
      <3> DEFINE new == [work[w] EXCEPT !.step = "read", !.row = TRUE]
      <3>1. /\ new \in Work /\ new.line = work[w].line /\ new.id = work[w].id
            /\ new.ns = work[w].ns /\ new.object = work[w].object /\ new.step = "read"
        BY <1>1 DEF Work, Steps
      <3>2. work' = [work EXCEPT ![w] = new]
        BY <2>1
      <3> HIDE DEF new
      <3> QED BY <2>1, <3>1, <3>2
    <2>2. CASE Goes(w, "read")
      <3>1. "read" \in Steps
        BY DEF Steps
      <3> QED BY <1>2, <2>2, <3>1, GoesTo
    <2> QED BY <2>1, <2>2 DEF SaveRow
  <1>4. images \subseteq images' /\ images' \subseteq images \cup {Row(w)}
    BY DEF SaveRow
  <1>5. \A v \in Workers : work'[v] = IF v = w THEN job ELSE work[v]
    BY <1>1, <1>3
  <1>6. UNCHANGED <<users, agents, drawn, known>>
    BY <1>1 DEF identityVars
  <1>7. /\ Row(w) \in [object : Objects, ns : UserIds, line : Senders, at : 0 .. MaxObjects]
        /\ Row(w).object = work[w].object /\ Row(w).ns = work[w].ns /\ Row(w).line = work[w].line
    <2>1. work[w].object \in Objects
      BY <1>2 DEF IntakeTypeOK
    <2>2. work[w].ns \in UserIds /\ work[w].line \in Senders
      BY <1>1, <1>2, IntakeAssumption DEF Identified, Work, UserIds
    <2>3. clock \in 0 .. MaxObjects
      BY DEF IntakeTypeOK
    <2> QED BY <2>1, <2>2, <2>3 DEF Row
  <1>8. \A n : CanBeOpened(n) => CanBeOpened(n)' /\ n # work[w].object
    BY <1>1, <1>2, <1>4 DEF CanBeOpened
  <1>9. IntakeTypeOK'
    BY <1>1, <1>3, <1>4, <1>6, <1>7 DEF IntakeTypeOK
  <1>10. IdentitiesAgree'
    BY <1>6 DEF IdentitiesAgree
  <1>11. RegistrationsAgree'
    <2>1. job.step \notin Finding \cup Registering
      BY <1>3 DEF Finding, Registering
    <2> QED BY <1>2, <1>3, <1>5, <1>6, <2>1 DEF RegistrationsAgree, Identified, Doing
  <1>12. ImagesAgree'
    <2>1. \A i \in images' : i.object \in objects /\ users[i.line] # 0 /\ i.ns = users[i.line]
      BY <1>2, <1>4, <1>7 DEF ImagesAgree, Identified
    <2>2. \A i, j \in images' : i.object = j.object => i.line = j.line
      BY <1>2, <1>4, <1>7 DEF ImagesAgree
    <2>3. \A q \in asked \cup shown :
            CanBeOpened(q.object)' /\ \A i \in images' : i.object = q.object => i.line = q.line
      BY <1>4, <1>7, <1>8 DEF ImagesAgree
    <2>4. \A s \in slips : CanBeOpened(s.object)'
      BY <1>8 DEF ImagesAgree
    <2> QED BY <1>1, <1>6, <2>1, <2>2, <2>3, <2>4 DEF ImagesAgree
  <1>13. PicturesAgree'
    <2>1. \A v \in Workers : work'[v].object <= clock
      BY <1>3, <1>5 DEF PicturesAgree
    <2>2. ASSUME NEW v \in Workers, work'[v].step = "row"
          PROVE  /\ work'[v].object \in objects
                 /\ \A i \in images' : i.object # work'[v].object
                 /\ \A u \in Workers : u # v => work'[u].object # work'[v].object
      <3>1. v # w /\ work'[v] = work[v] /\ work[v].step = "row"
        BY <1>3, <1>5, <2>2
      <3>2. \A u \in Workers : work'[u].object = work[u].object
        BY <1>3, <1>5
      <3> QED BY <1>2, <1>4, <1>7, <3>1, <3>2 DEF PicturesAgree
    <2>3. ASSUME NEW v \in Workers, work'[v].step \in Holding PROVE HoldsOwn(work[v])'
      <3>1. CASE v = w
        <4>1. \A i \in images' : i.object = job.object => i.line = job.line
          BY <1>2, <1>3, <1>4, <1>7
        <4>2. job.row => CanBeOpened(job.object)'
          BY <1>1, <1>2, <1>3, <1>7 DEF CanBeOpened
        <4>3. work'[v] = job /\ job.step \notin Opening
          BY <1>3, <1>5, <3>1 DEF Opening
        <4> QED BY <4>1, <4>2, <4>3 DEF HoldsOwn
      <3>2. CASE v # w
        <4>1. HoldsOwn(work[v]) /\ work'[v] = work[v]
          BY <1>5, <2>3, <3>2 DEF PicturesAgree
        <4> QED BY <1>2, <1>4, <1>7, <1>8, <3>2, <4>1 DEF HoldsOwn
      <3> QED BY <3>1, <3>2
    <2>4. \A v \in Workers : work'[v].step \in Early => ~ work'[v].row
      BY <1>3, <1>5 DEF PicturesAgree, Early, Finding
    <2> QED BY <1>1, <2>1, <2>2, <2>3, <2>4 DEF PicturesAgree
  <1> QED BY <1>9, <1>10, <1>11, <1>12, <1>13
\* A step that finds or makes the sender's identity leaves the pictures alone.
LEMMA IdentityKeeps ==
  ASSUME PictureInv, NEW w \in Workers, NEW job \in Work, work' = [work EXCEPT ![w] = job],
         UNCHANGED pictureVars, work[w].step \in Finding,
         job.object = work[w].object, job.row = work[w].row,
         job.step \notin Holding \cup {"row"},
         users' \in [Senders -> 0 .. MaxUsers],
         \A l \in Senders : users[l] # 0 => users'[l] = users[l],
         agents' \subseteq [owner : UserIds, ns : UserIds],
         drawn' \in 0 .. MaxUsers,
         known' \subseteq [line : Senders, id : UserIds, ns : UserIds],
         IdentitiesAgree', RegistrationsAgree'
  PROVE  PictureInv'
  <1> USE DEF PictureInv, pictureVars
  <1>1. work \in [Workers -> Work]
    BY DEF IntakeTypeOK
  <1>2. \A v \in Workers : work'[v] = IF v = w THEN job ELSE work[v]
    BY <1>1
  <1>3. IntakeTypeOK'
    BY <1>1 DEF IntakeTypeOK
  <1>4. \A n : CanBeOpened(n)' = CanBeOpened(n)
    BY DEF CanBeOpened
  <1>5. ImagesAgree'
    <2>1. \A i \in images : i.line \in Senders
      BY DEF IntakeTypeOK
    <2> QED BY <1>4, <2>1 DEF ImagesAgree
  <1>6. PicturesAgree'
    <2>1. \A v \in Workers : work'[v].object = work[v].object /\ work'[v].row = work[v].row
      BY <1>2
    <2>2. ASSUME NEW v \in Workers, work'[v].step \in Holding PROVE HoldsOwn(work[v])'
      <3>1. HoldsOwn(work[v]) /\ work'[v] = work[v]
        BY <1>2, <2>2 DEF PicturesAgree
      <3> QED BY <1>4, <3>1 DEF HoldsOwn
    <2>3. \A v \in Workers : work'[v].step = "row" => work[v].step = "row"
      BY <1>2
    <2>4. \A v \in Workers : work'[v].step \in Early => ~ work'[v].row
      BY <1>2, <2>1 DEF PicturesAgree, Early
    <2> QED BY <2>1, <2>2, <2>3, <2>4 DEF PicturesAgree
  <1> QED BY <1>3, <1>5, <1>6

\* The step an event's kind is.
LEMMA KindIsAStep ==
  ASSUME PictureInv, NEW w \in Workers, work[w].step \in Finding
  PROVE  /\ work[w] \in Work /\ work[w].line \in Senders
         /\ work[w].kind \in {"image", "recall", "review", "other"}
         /\ work[w].kind \in Serving \ (Holding \cup Finding \cup {"row"})
         /\ ~ work[w].row
  <1>1. work[w] \in Work /\ work[w].line \in Senders /\ work[w].kind # "none" /\ ~ work[w].row
    BY DEF PictureInv, IntakeTypeOK, RegistrationsAgree, PicturesAgree, Early
  <1>2. work[w].kind \in {"image", "recall", "review", "other"}
    BY <1>1 DEF Work
  <1> QED BY <1>1, <1>2 DEF Serving, Holding, Finding

\* A worker of the queue gives up, or goes on to the next statement of the registration.
LEMMA FindingGoesKeeps ==
  ASSUME PictureInv, NEW w \in Workers, work[w].step \in Finding,
         NEW step \in {"register", "failed"}, Goes(w, step),
         UNCHANGED <<identityVars, pictureVars>>
  PROVE  PictureInv'
  <1>1. step \in Steps
    BY DEF Steps
  <1>2. PICK job \in Work :
          /\ work' = [work EXCEPT ![w] = job]
          /\ job.line = work[w].line /\ job.id = work[w].id /\ job.ns = work[w].ns
          /\ job.object = work[w].object /\ job.row = work[w].row /\ job.step = step
          /\ job.kind = work[w].kind
    <2> DEFINE new == [work[w] EXCEPT !.step = step]
    <2>1. /\ new \in Work /\ new.line = work[w].line /\ new.id = work[w].id
          /\ new.ns = work[w].ns /\ new.object = work[w].object /\ new.row = work[w].row
          /\ new.step = step /\ new.kind = work[w].kind
      BY <1>1, KindIsAStep DEF Work
    <2>2. work' = [work EXCEPT ![w] = new]
      BY DEF Goes
    <2> HIDE DEF new
    <2> QED BY <2>1, <2>2
  <1>3. work \in [Workers -> Work]
    BY DEF PictureInv, IntakeTypeOK
  <1>4. \A v \in Workers : work'[v] = IF v = w THEN job ELSE work[v]
    BY <1>2, <1>3
  <1>5. UNCHANGED <<users, agents, drawn, known>>
    BY DEF identityVars
  <1>6. IdentitiesAgree'
    BY <1>5 DEF PictureInv, IdentitiesAgree
  <1>7. job.step \notin Registering \cup Serving \cup Holding \cup {"row"}
    BY <1>2 DEF Registering, Serving, Holding
  <1>8. RegistrationsAgree'
    <2>1. job.line \in Senders /\ job.kind # "none"
      BY <1>2, KindIsAStep
    <2> QED BY <1>4, <1>5, <1>7, <2>1 DEF PictureInv, RegistrationsAgree, Doing, Identified
  <1>9. users' \in [Senders -> 0 .. MaxUsers] /\ agents' \subseteq [owner : UserIds, ns : UserIds]
        /\ drawn' \in 0 .. MaxUsers /\ known' \subseteq [line : Senders, id : UserIds, ns : UserIds]
    BY <1>5 DEF PictureInv, IntakeTypeOK
  <1> QED BY <1>2, <1>5, <1>6, <1>7, <1>8, <1>9, IdentityKeeps

\* A row of the sender with a namespace is his identity.
LEMMA LookupKeeps ==
  ASSUME PictureInv, NEW w \in Workers, Lookup(w)
  PROVE  PictureInv'
  <1>1. work[w].step = "lookup" /\ work[w].step \in Finding
    BY DEF Lookup, Doing, Finding
  <1>2. CASE Goes(w, "register") /\ UNCHANGED known
    <2>1. UNCHANGED <<identityVars, pictureVars>>
      BY <1>2 DEF Lookup, identityVars
    <2> QED BY <1>1, <1>2, <2>1, FindingGoesKeeps
  <1>3. ASSUME NEW a \in agents, a.owner = users[work[w].line], users[work[w].line] # 0,
               Identify(w, users[work[w].line], a.ns, work[w].kind)
        PROVE  PictureInv'
    <2> DEFINE job == [work[w] EXCEPT !.id = users[work[w].line], !.ns = a.ns,
                                      !.step = work[w].kind]
    <2>1. /\ work[w] \in Work /\ work[w].line \in Senders
          /\ work[w].kind \in {"image", "recall", "review", "other"}
          /\ work[w].kind \in Serving \ (Holding \cup Finding \cup {"row"})
      BY <1>1, KindIsAStep
    <2>2. users[work[w].line] \in UserIds /\ a.ns = users[work[w].line]
      BY <1>3, <2>1, IntakeAssumption DEF PictureInv, IntakeTypeOK, IdentitiesAgree, UserIds
    <2>3. /\ job \in Work /\ job.line = work[w].line /\ job.id = users[work[w].line]
          /\ job.ns = job.id /\ job.object = work[w].object /\ job.row = work[w].row
          /\ job.step = work[w].kind
      <3>1. users[work[w].line] \in 0 .. MaxUsers /\ work[w].kind \in Steps
        BY <2>1 DEF PictureInv, IntakeTypeOK, Steps
      <3> QED BY <2>1, <2>2, <3>1 DEF Work
    <2>4. work' = [work EXCEPT ![w] = job]
      BY <1>3 DEF Identify
    <2> HIDE DEF job
    <2>5. UNCHANGED <<users, agents, drawn, pictureVars>>
      BY DEF Lookup
    <2>6. known' \subseteq known \cup
            {[line |-> work[w].line, id |-> users[work[w].line], ns |-> a.ns]}
      BY <1>3 DEF Identify
    <2>7. /\ known' \subseteq [line : Senders, id : UserIds, ns : UserIds]
          /\ \A b \in known' : b.id = users[b.line] /\ b.ns = b.id
      BY <2>1, <2>2, <2>6 DEF PictureInv, IntakeTypeOK, IdentitiesAgree
    <2>8. IdentitiesAgree'
      BY <2>5, <2>7 DEF PictureInv, IdentitiesAgree
    <2>9. RegistrationsAgree'
      <3>1. \A v \in Workers : work'[v] = IF v = w THEN job ELSE work[v]
        BY <2>4 DEF PictureInv, IntakeTypeOK
      <3>2. Identified(job) /\ job.step \notin Finding \cup Registering
        BY <2>1, <2>2, <2>3, IntakeAssumption DEF Identified, UserIds, Finding, Registering
      <3> QED BY <2>5, <3>1, <3>2 DEF PictureInv, RegistrationsAgree, Identified, Doing
    <2>10. users' \in [Senders -> 0 .. MaxUsers] /\ agents' \subseteq [owner : UserIds, ns : UserIds]
           /\ drawn' \in 0 .. MaxUsers
      BY <2>5 DEF PictureInv, IntakeTypeOK
    <2> QED BY <1>1, <2>1, <2>3, <2>4, <2>5, <2>7, <2>8, <2>9, <2>10, IdentityKeeps
  <1> QED BY <1>2, <1>3 DEF Lookup
\* The registering worker holds the id of the row, or one nobody has.
LEMMA UpsertUserKeeps ==
  ASSUME PictureInv, NEW w \in Workers, UpsertUser(w)
  PROVE  PictureInv'
  <1>1. work[w].step = "register" /\ work[w].step \in Finding
    BY DEF UpsertUser, Doing, Finding
  <1>2. /\ work[w] \in Work /\ work[w].line \in Senders /\ work[w].kind # "none"
    BY <1>1, KindIsAStep
  <1> DEFINE old == users[work[w].line]
             id == IF old = 0 THEN drawn' ELSE old
  <1>3. /\ \A l \in Senders : users[l] \in Nat /\ users[l] <= drawn
        /\ drawn \in Nat /\ drawn' = drawn + 1 /\ drawn' \in 0 .. MaxUsers
        /\ UNCHANGED <<users, agents, known, pictureVars>>
    BY IntakeAssumption DEF PictureInv, IntakeTypeOK, IdentitiesAgree, UpsertUser
  <1>4. id \in 1 .. drawn' /\ id \in 0 .. MaxUsers
    <2>1. old \in Nat /\ old <= drawn
      BY <1>2, <1>3
    <2>2. MaxUsers \in Nat /\ drawn' <= MaxUsers
      BY <1>3, IntakeAssumption
    <2> QED BY <1>3, <2>1, <2>2
  <1>5. \A l \in Senders : users[l] = id => l = work[w].line
    BY <1>2, <1>3 DEF PictureInv, IdentitiesAgree
  <1>6. old # 0 => id = old
    OBVIOUS
  <1>7. \A v \in Workers : v # w /\ work[v].step \in Registering =>
          work[v].line # work[w].line /\ work[v].id # id
    <2> SUFFICES ASSUME NEW v \in Workers, v # w, work[v].step \in Registering
                 PROVE  work[v].line # work[w].line /\ work[v].id # id
      OBVIOUS
    <2>1. work[v].line # work[w].line
      BY DEF UpsertUser, MayRegister
    <2>2. work[v].id \in 1 .. drawn /\ \A l \in Senders : users[l] = work[v].id => l = work[v].line
      BY DEF PictureInv, RegistrationsAgree
    <2> QED BY <1>2, <1>3, <2>1, <2>2
  <1>8. PICK n \in 0 .. MaxUsers : n = id
    BY <1>4
  <1> DEFINE job == [work[w] EXCEPT !.step = "agent", !.id = n]
  <1>9. work' = [work EXCEPT ![w] = job]
    BY <1>8 DEF UpsertUser
  <1>10. /\ job \in Work /\ job.line = work[w].line /\ job.id = id /\ job.step = "agent"
         /\ job.object = work[w].object /\ job.row = work[w].row /\ job.kind = work[w].kind
    BY <1>2, <1>8 DEF Work, Steps, Registering
  <1> HIDE DEF job, id
  <1>11. \A v \in Workers : work'[v] = IF v = w THEN job ELSE work[v]
    BY <1>9 DEF PictureInv, IntakeTypeOK
  <1>12. IdentitiesAgree'
    <2>1. \A l \in Senders : users'[l] <= drawn'
      BY <1>3
    <2> QED BY <1>3, <2>1 DEF PictureInv, IdentitiesAgree
  <1>13. RegistrationsAgree'
    <2>1. job.step \notin Serving /\ job.step # "commit"
      BY <1>10 DEF Serving
    <2>2. \A v \in Workers : work'[v].step \in Finding =>
            work'[v].line \in Senders /\ work'[v].kind # "none"
      BY <1>2, <1>10, <1>11 DEF PictureInv, RegistrationsAgree
    <2>3. ASSUME NEW v \in Workers, work'[v].step \in Registering
          PROVE  /\ work'[v].id \in 1 .. drawn'
                 /\ work'[v].step = "commit" => work'[v].ns = work'[v].id
                 /\ \A l \in Senders : users[l] = work'[v].id => l = work'[v].line
                 /\ users[work'[v].line] # 0 => work'[v].id = users[work'[v].line]
      <3>1. CASE v = w
        <4>1. work'[v] = job
          BY <1>11, <3>1
        <4> QED BY <1>4, <1>5, <1>6, <1>10, <2>1, <4>1
      <3>2. CASE v # w
        <4>1. work'[v] = work[v]
          BY <1>11, <3>2
        <4>2. work[v].id \in 1 .. drawn
          BY <2>3, <4>1 DEF PictureInv, RegistrationsAgree
        <4>3. work[v].id \in 1 .. drawn'
          BY <1>3, <4>2
        <4> QED BY <2>3, <4>1, <4>3 DEF PictureInv, RegistrationsAgree, Doing
      <3> QED BY <3>1, <3>2
    <2>4. ASSUME NEW u \in Workers, NEW v \in Workers, u # v,
                 work'[u].step \in Registering, work'[v].step \in Registering
          PROVE  work'[u].line # work'[v].line /\ work'[u].id # work'[v].id
      <3>1. CASE u = w
        BY <1>7, <1>10, <1>11, <2>4, <3>1
      <3>2. CASE v = w
        BY <1>7, <1>10, <1>11, <2>4, <3>2
      <3>3. CASE u # w /\ v # w
        BY <1>11, <2>4, <3>3 DEF PictureInv, RegistrationsAgree
      <3> QED BY <3>1, <3>2, <3>3
    <2>5. \A v \in Workers : work'[v].step \in Serving => Identified(work[v])'
      <3> SUFFICES ASSUME NEW v \in Workers, work'[v].step \in Serving PROVE Identified(work[v])'
        OBVIOUS
      <3>1. work'[v] = work[v] /\ Identified(work[v])
        BY <1>11, <2>1 DEF PictureInv, RegistrationsAgree
      <3> QED BY <1>3, <3>1 DEF Identified
    <2> QED BY <1>3, <2>2, <2>3, <2>4, <2>5 DEF RegistrationsAgree, Doing
  <1>14. /\ users' \in [Senders -> 0 .. MaxUsers]
         /\ agents' \subseteq [owner : UserIds, ns : UserIds]
         /\ known' \subseteq [line : Senders, id : UserIds, ns : UserIds]
    BY <1>3 DEF PictureInv, IntakeTypeOK
  <1>15. job.step \notin Holding \cup {"row"}
    BY <1>10 DEF Holding
  <1> QED BY <1>1, <1>3, <1>9, <1>10, <1>12, <1>13, <1>14, <1>15, IdentityKeeps

\* The namespace is named after the row's id.
LEMMA UpsertAgentKeeps ==
  ASSUME PictureInv, NEW w \in Workers, UpsertAgent(w)
  PROVE  PictureInv'
  <1>1. work[w].step = "agent" /\ work[w].step \in Finding /\ work[w].step \in Registering
    BY DEF UpsertAgent, Doing, Finding, Registering
  <1>2. /\ work[w] \in Work /\ work[w].line \in Senders /\ work[w].kind # "none"
    BY <1>1, KindIsAStep
  <1> DEFINE job == [work[w] EXCEPT !.step = "commit", !.ns = work[w].id]
  <1>3. work' = [work EXCEPT ![w] = job] /\ UNCHANGED <<identityVars, pictureVars>>
    BY DEF UpsertAgent
  <1>4. /\ job \in Work /\ job.line = work[w].line /\ job.id = work[w].id /\ job.ns = job.id
        /\ job.step = "commit" /\ job.kind = work[w].kind
        /\ job.object = work[w].object /\ job.row = work[w].row
    BY <1>2 DEF Work, Steps, Registering
  <1> HIDE DEF job
  <1>5. \A v \in Workers : work'[v] = IF v = w THEN job ELSE work[v]
    BY <1>3 DEF PictureInv, IntakeTypeOK
  <1>6. UNCHANGED <<users, agents, drawn, known>>
    BY <1>3 DEF identityVars
  <1>7. IdentitiesAgree'
    BY <1>6 DEF PictureInv, IdentitiesAgree
  <1>8. RegistrationsAgree'
    <2>1. job.step \notin Serving
      BY <1>4 DEF Serving
    <2> QED BY <1>1, <1>2, <1>4, <1>5, <1>6, <2>1
            DEF PictureInv, RegistrationsAgree, Doing, Identified
  <1>9. users' \in [Senders -> 0 .. MaxUsers] /\ agents' \subseteq [owner : UserIds, ns : UserIds]
        /\ drawn' \in 0 .. MaxUsers /\ known' \subseteq [line : Senders, id : UserIds, ns : UserIds]
    BY <1>6 DEF PictureInv, IntakeTypeOK
  <1>10. job.step \notin Holding \cup {"row"}
    BY <1>4 DEF Holding
  <1> QED BY <1>1, <1>3, <1>4, <1>6, <1>7, <1>8, <1>9, <1>10, IdentityKeeps
\* A registration that is committed gives the sender the row and the namespace it holds,
\* whether its worker hears of it or not.
LEMMA RegisteredKeeps ==
  ASSUME PictureInv, NEW w \in Workers, Doing(w, "commit"), Registered(w),
         UNCHANGED <<drawn, pictureVars>>,
         NEW job \in Work, work' = [work EXCEPT ![w] = job],
         job.line = work[w].line, job.id = work[w].id, job.ns = work[w].ns,
         job.object = work[w].object, job.row = work[w].row,
         job.step \notin Finding \cup Holding \cup {"row"},
         known' \subseteq known \cup {[line |-> work[w].line, id |-> work[w].id, ns |-> work[w].ns]}
  PROVE  PictureInv'
  <1> USE DEF PictureInv
  <1> DEFINE l == work[w].line
             id == work[w].id
  <1>1. work[w].step \in Registering /\ work[w].step \in Finding
    BY DEF Doing, Registering, Finding
  <1>2. /\ l \in Senders /\ id \in 1 .. drawn /\ work[w].ns = id
        /\ \A k \in Senders : users[k] = id => k = l
        /\ users[l] # 0 => id = users[l]
    BY <1>1 DEF RegistrationsAgree
  <1>3. drawn \in Nat /\ drawn <= MaxUsers /\ MaxUsers \in Nat
    BY IntakeAssumption DEF IntakeTypeOK
  <1>4. id \in UserIds /\ id \in 0 .. MaxUsers /\ id # 0
    BY <1>2, <1>3 DEF UserIds
  <1>5. \A k \in Senders : users'[k] = IF k = l THEN id ELSE users[k]
    BY DEF IntakeTypeOK, Registered
  <1>6. users' \in [Senders -> 0 .. MaxUsers]
    BY <1>4 DEF IntakeTypeOK, Registered
  <1>7. \A k \in Senders : users[k] # 0 => users'[k] = users[k]
    BY <1>2, <1>5
  <1>8. agents' \subseteq agents \cup {[owner |-> id, ns |-> id]}
    BY <1>2 DEF Registered
  <1>9. agents' \subseteq [owner : UserIds, ns : UserIds]
    BY <1>4, <1>8 DEF IntakeTypeOK
  <1>10. known' \subseteq [line : Senders, id : UserIds, ns : UserIds]
    BY <1>2, <1>4 DEF IntakeTypeOK
  <1>11. \A v \in Workers : work'[v] = IF v = w THEN job ELSE work[v]
    BY DEF IntakeTypeOK
  <1>12. IdentitiesAgree'
    <2>1. \A k \in Senders : users'[k] <= drawn
      BY <1>2, <1>3, <1>5 DEF IdentitiesAgree
    <2>2. \A k, m \in Senders : users'[k] # 0 /\ users'[k] = users'[m] => k = m
      BY <1>2, <1>5 DEF IdentitiesAgree
    <2>3. \A a \in agents' : a.ns = a.owner /\ \E k \in Senders : users'[k] = a.owner
      <3> SUFFICES ASSUME NEW a \in agents'
                   PROVE  a.ns = a.owner /\ \E k \in Senders : users'[k] = a.owner
        OBVIOUS
      <3>1. CASE a \in agents
        <4>1. a.owner # 0
          BY <3>1, IntakeAssumption DEF IntakeTypeOK, UserIds
        <4>2. PICK k \in Senders : users[k] = a.owner
          BY <3>1 DEF IdentitiesAgree
        <4> QED BY <1>7, <3>1, <4>1, <4>2 DEF IdentitiesAgree
      <3>2. CASE a = [owner |-> id, ns |-> id]
        BY <1>2, <1>5, <3>2
      <3> QED BY <1>8, <3>1, <3>2
    <2>4. \A a \in known' : a.id = users'[a.line] /\ a.ns = a.id
      <3> SUFFICES ASSUME NEW a \in known' PROVE a.id = users'[a.line] /\ a.ns = a.id
        OBVIOUS
      <3>1. CASE a \in known
        <4>1. a.id # 0 /\ a.line \in Senders
          BY <3>1, IntakeAssumption DEF IntakeTypeOK, UserIds
        <4> QED BY <1>7, <3>1, <4>1 DEF IdentitiesAgree
      <3>2. CASE a = [line |-> work[w].line, id |-> work[w].id, ns |-> work[w].ns]
        BY <1>2, <1>5, <3>2
      <3> QED BY <3>1, <3>2
    <2> QED BY <2>1, <2>2, <2>3, <2>4 DEF IdentitiesAgree
  <1>13. RegistrationsAgree'
    <2>1. \A v \in Workers : work'[v].step \in Finding =>
            work'[v].line \in Senders /\ work'[v].kind # "none"
      BY <1>11 DEF RegistrationsAgree
    <2>2. job.step \notin Registering
      BY DEF Finding, Registering
    <2>3. ASSUME NEW v \in Workers, work'[v].step \in Registering
          PROVE  /\ work'[v].id \in 1 .. drawn
                 /\ work'[v].step = "commit" => work'[v].ns = work'[v].id
                 /\ \A k \in Senders : users'[k] = work'[v].id => k = work'[v].line
                 /\ users'[work'[v].line] # 0 => work'[v].id = users'[work'[v].line]
      <3>1. v # w /\ work'[v] = work[v]
        BY <1>11, <2>2, <2>3
      <3>2. work[v].line # l /\ work[v].id # id
        BY <1>1, <2>3, <3>1 DEF RegistrationsAgree
      <3>3. work[v].line \in Senders
        BY <2>3, <3>1 DEF RegistrationsAgree, Finding, Registering
      <3> QED BY <1>5, <2>3, <3>1, <3>2, <3>3 DEF RegistrationsAgree, Doing
    <2>4. \A u, v \in Workers :
            u # v /\ work'[u].step \in Registering /\ work'[v].step \in Registering =>
              work'[u].line # work'[v].line /\ work'[u].id # work'[v].id
      BY <1>11, <2>2 DEF RegistrationsAgree
    <2>5. \A v \in Workers : work'[v].step \in Serving => Identified(work[v])'
      <3> SUFFICES ASSUME NEW v \in Workers, work'[v].step \in Serving PROVE Identified(work[v])'
        OBVIOUS
      <3>1. CASE v = w
        BY <1>2, <1>4, <1>5, <1>11, <3>1 DEF Identified
      <3>2. CASE v # w
        <4>1. work'[v] = work[v] /\ Identified(work[v])
          BY <1>11, <3>2 DEF RegistrationsAgree
        <4> QED BY <1>7, <4>1 DEF Identified
      <3> QED BY <3>1, <3>2
    <2> QED BY <2>1, <2>3, <2>4, <2>5 DEF RegistrationsAgree, Doing
  <1>14. drawn' \in 0 .. MaxUsers
    BY DEF IntakeTypeOK
  <1> QED BY <1>1, <1>6, <1>7, <1>9, <1>10, <1>12, <1>13, <1>14, IdentityKeeps

\* The commit of a registration concerns no picture.
LEMMA CommitKeeps ==
  ASSUME PictureInv, NEW w \in Workers, Commit(w)
  PROVE  PictureInv'
  <1>1. work[w].step \in Finding
    BY DEF Commit, Doing, Finding
  <1> DEFINE job == [work[w] EXCEPT !.id = work[w].id, !.ns = work[w].ns, !.step = work[w].kind]
  <1>2. /\ work[w] \in Work /\ work[w].kind \in {"image", "recall", "review", "other"}
        /\ work[w].kind \in Serving \ (Holding \cup Finding \cup {"row"})
    BY <1>1, KindIsAStep
  <1>3. work[w].kind \in Steps
    BY <1>2 DEF Steps
  <1>4. /\ job \in Work /\ job.line = work[w].line /\ job.id = work[w].id /\ job.ns = work[w].ns
        /\ job.object = work[w].object /\ job.row = work[w].row /\ job.step = work[w].kind
    BY <1>2, <1>3 DEF Work
  <1>5. work' = [work EXCEPT ![w] = job]
    BY DEF Commit, Identify
  <1> HIDE DEF job
  <1>6. known' \subseteq known \cup {[line |-> work[w].line, id |-> work[w].id, ns |-> work[w].ns]}
    BY DEF Commit, Identify
  <1>7. Doing(w, "commit") /\ Registered(w) /\ UNCHANGED <<drawn, pictureVars>>
    BY DEF Commit
  <1> QED BY <1>2, <1>4, <1>5, <1>6, <1>7, RegisteredKeeps

\* A worker without an identity has not begun with a picture.
LEMMA IdentityFailsKeeps ==
  ASSUME PictureInv, NEW w \in Workers, IdentityFails(w)
  PROVE  PictureInv'
  <1>1. work[w].step \in Finding /\ Goes(w, "failed") /\ UNCHANGED <<drawn, known, pictureVars>>
    BY DEF IdentityFails, Finding, Registering
  <1>2. CASE UNCHANGED <<users, agents>>
    <2>1. UNCHANGED <<identityVars, pictureVars>>
      BY <1>1, <1>2 DEF identityVars
    <2> QED BY <1>1, <2>1, FindingGoesKeeps
  <1>3. CASE Doing(w, "commit") /\ Registered(w)
    <2>1. PICK step \in Steps : step = "failed"
      BY DEF Steps
    <2>2. PICK job \in Work :
            /\ work' = [work EXCEPT ![w] = job]
            /\ job.line = work[w].line /\ job.id = work[w].id /\ job.ns = work[w].ns
            /\ job.object = work[w].object /\ job.row = work[w].row /\ job.step = step
      BY <1>1, <2>1, GoesTo
    <2>3. job.step \notin Finding \cup Holding \cup {"row"}
      BY <2>1, <2>2 DEF Finding, Holding
    <2>4. known' \subseteq known \cup {[line |-> work[w].line, id |-> work[w].id, ns |-> work[w].ns]}
          /\ UNCHANGED <<drawn, pictureVars>>
      BY <1>1
    <2> QED BY <1>3, <2>2, <2>3, <2>4, RegisteredKeeps
  <1> QED BY <1>2, <1>3 DEF IdentityFails

\* No step of a worker disturbs identities and pictures.
LEMMA WorkStepKeeps ==
  ASSUME PictureInv, NEW w \in Workers, WorkStep(w)
  PROVE  PictureInv'
  BY LookupKeeps, UpsertUserKeeps, UpsertAgentKeeps, CommitKeeps, IdentityFailsKeeps,
     PlainMovesKeep, PutKeeps, SaveRowKeeps, ReadingKeeps, SlipKeeps, FindLatestKeeps, ShowKeeps
     DEF WorkStep

\* Only a worker that serves something takes a step, and no other worker moves with it.
LEMMA WorkStepWorks ==
  ASSUME PictureInv, NEW w \in Workers, WorkStep(w)
  PROVE  ~ Doing(w, "idle") /\ \A v \in Workers : v # w => work'[v] = work[v]
  <1>1. work \in [Workers -> Work]
    BY DEF PictureInv, IntakeTypeOK
  <1>2. CASE Lookup(w) \/ UpsertUser(w) \/ UpsertAgent(w) \/ Commit(w) \/ IdentityFails(w)
    BY <1>1, <1>2 DEF Lookup, UpsertUser, UpsertAgent, Commit, IdentityFails, Identify, Goes,
                      Doing, Registering
  <1>3. CASE Download(w) \/ Put(w) \/ SaveRow(w) \/ FindLatest(w) \/ Load(w)
    BY <1>1, <1>3 DEF Download, Put, SaveRow, FindLatest, Load, Goes, Doing
  <1>4. CASE AskStructured(w) \/ AskWithSchema(w) \/ AskInChat(w)
    BY <1>1, <1>4 DEF AskStructured, AskWithSchema, AskInChat, Reads, Verdict, Turns, NextModel,
                      Goes, Doing
  <1>5. CASE CreateSlip(w) \/ ApplyVision(w) \/ Answer(w) \/ Ask(w) \/ Show(w)
    BY <1>1, <1>5 DEF CreateSlip, ApplyVision, Answer, Ask, Show, Goes, Doing
  <1> QED BY <1>2, <1>3, <1>4, <1>5 DEF WorkStep
-----------------------------------------------------------------------------
(* The queue, and the whole.                                                *)

\* A worker without a picture: it has nothing to do, or has just begun.
LEMMA FreshKeeps ==
  ASSUME PictureInv, NEW w \in Workers, NEW job \in Work, work' = [work EXCEPT ![w] = job],
         UNCHANGED <<identityVars, pictureVars>>,
         job.step \in {"idle", "lookup", "answer"}, job.object = 0, ~ job.row,
         job.step = "lookup" => job.line \in Senders /\ job.kind # "none"
  PROVE  PictureInv'
  <1> USE DEF PictureInv
  <1>1. UNCHANGED <<users, agents, drawn, objects, images, clock, known, slips, asked, shown>>
    BY DEF identityVars, pictureVars
  <1>2. /\ known' \subseteq [line : Senders, id : UserIds, ns : UserIds]
        /\ \A a \in known' : a.id = users[a.line] /\ a.ns = a.id
        /\ slips' \subseteq [object : Objects, ns : UserIds,
                             status : {"PENDING_OCR", "NEEDS_CONFIRMATION"}]
        /\ \A s \in slips' : CanBeOpened(s.object)
        /\ asked' \cup shown' \subseteq [object : Objects, line : Senders]
        /\ \A q \in asked' \cup shown' :
             CanBeOpened(q.object) /\ \A i \in images : i.object = q.object => i.line = q.line
    BY <1>1 DEF IntakeTypeOK, IdentitiesAgree, ImagesAgree
  <1>3. /\ job.step \notin Registering \cup Serving \cup Holding \cup {"row"}
        /\ job.step \in Finding => job.step = "lookup"
    BY DEF Registering, Serving, Holding, Finding
  <1>4. job.object \in 0 .. clock
    BY IntakeAssumption DEF IntakeTypeOK
  <1>5. \A v \in Workers : work[v].step = "row" => work[v].object # 0
    BY IntakeAssumption DEF PicturesAgree, IntakeTypeOK, Objects
  <1> QED BY <1>1, <1>2, <1>3, <1>4, <1>5, WorkKeeps

\* An idle worker, and one about to answer, hold no object.
LEMMA IdleTyped ==
  /\ Idle \in Work /\ Idle.step = "idle" /\ Idle.object = 0 /\ ~ Idle.row
  /\ [Idle EXCEPT !.step = "answer"] \in Work
  <1>1. 0 \in 0 .. MaxUsers /\ 0 \in 0 .. MaxObjects /\ 0 \in 0 .. Models
    BY IntakeAssumption
  <1> QED BY <1>1 DEF Idle, Work, Steps

\* A task's event is one of a user.
LEMMA BegunTyped ==
  ASSUME NEW e \in Event
  PROVE  /\ Begun(e) \in Work /\ Begun(e).step = "lookup" /\ Begun(e).object = 0
         /\ ~ Begun(e).row /\ Begun(e).line \in Senders /\ Begun(e).kind # "none"
  <1>1. /\ Idle \in Work /\ Idle.object = 0 /\ ~ Idle.row
    BY IdleTyped
  <1>2. /\ e.kind \in {"image", "recall", "review", "other"} /\ e.line \in Senders
    BY LineIntakeAssumption DEF Event
  <1> QED BY <1>1, <1>2 DEF Begun, Work, Steps

\* A task tried again is a task.
LEMMA RetriedTyped ==
  ASSUME NEW task \in TaskType
  PROVE  Retried(task) \in TaskType
  <1>1. CASE task.try < MaxRetry
    <2>1. task.try + 1 \in 0 .. MaxRetry
      BY <1>1, LineIntakeAssumption DEF TaskType
    <2>2. PICK n \in 0 .. MaxRetry : n = task.try + 1
      BY <2>1
    <2>3. [task EXCEPT !.state = "queued", !.try = n] \in TaskType
      BY DEF TaskType
    <2> QED BY <1>1, <2>2, <2>3 DEF Retried
  <1>2. CASE ~ task.try < MaxRetry
    <2>1. [task EXCEPT !.state = "archived"] \in TaskType
      BY DEF TaskType
    <2> QED BY <1>2, <2>1 DEF Retried
  <1> QED BY <1>1, <1>2

\* A worker that takes a task starts with nothing in hand.
LEMMA TakeKeeps ==
  ASSUME PictureInv, QueueInv, NEW w \in Workers, NEW i \in DOMAIN tasks, Take(w, i)
  PROVE  PictureInv' /\ QueueInv'
  <1>1. /\ tasks \in Seq(TaskType) /\ Len(tasks) \in Nat /\ DOMAIN tasks = 1 .. Len(tasks)
        /\ i \in 1 .. Len(tasks) /\ tasks[i] \in TaskType
    BY LenProperties, ElementOfSeq DEF QueueInv
  <1>2. PICK job \in Work :
          /\ work' = [work EXCEPT ![w] = job]
          /\ job.step \in {"lookup", "answer"} /\ job.object = 0 /\ ~ job.row
          /\ job.step = "lookup" => job.line \in Senders /\ job.kind # "none"
    <2>1. CASE work' = [work EXCEPT ![w] = Begun(tasks[i].event)]
      <3>1. tasks[i].event \in Event
        BY <1>1 DEF TaskType
      <3> QED BY <2>1, <3>1, BegunTyped
    <2>2. CASE work' = [work EXCEPT ![w] = [Idle EXCEPT !.step = "answer"]]
      <3> DEFINE late == [Idle EXCEPT !.step = "answer"]
      <3>1. late \in Work /\ late.step = "answer" /\ late.object = 0 /\ ~ late.row
        BY IdleTyped DEF Idle
      <3> HIDE DEF late
      <3> QED BY <2>2, <3>1 DEF late
    <2> QED BY <2>1, <2>2 DEF Take
  <1>3. PictureInv'
    BY <1>2, FreshKeeps DEF Take
  <1>4. QueueInv'
    <2> DEFINE task == [tasks[i] EXCEPT !.state = "active"]
    <2>1. task \in TaskType
      BY <1>1 DEF TaskType
    <2>2. tasks' = [tasks EXCEPT ![i] = task]
      BY DEF Take
    <2> HIDE DEF task
    <2>3. tasks' \in Seq(TaskType) /\ Len(tasks') = Len(tasks)
      BY <1>1, <2>1, <2>2, ExceptSeq
    <2>4. serving' \in [Workers -> 0 .. Len(tasks)]
      BY <1>1 DEF QueueInv, Take
    <2>5. \A v \in Workers : serving'[v] = 0 => work'[v].step = "idle"
      BY <1>1, <1>2 DEF QueueInv, Take, PictureInv, IntakeTypeOK, Doing
    <2> QED BY <2>3, <2>4, <2>5 DEF QueueInv, Take, Doing
  <1> QED BY <1>3, <1>4

\* A worker that finishes gives up what it holds, and the task leaves the queue or is tried again.
LEMMA FinishKeeps ==
  ASSUME PictureInv, QueueInv, NEW w \in Workers, Finish(w)
  PROVE  PictureInv' /\ QueueInv'
  <1>1. PictureInv'
    BY IdleTyped, FreshKeeps DEF Finish
  <1>2. QueueInv'
    <2>1. /\ tasks \in Seq(TaskType) /\ Len(tasks) \in Nat
          /\ serving[w] \in 0 .. Len(tasks) /\ serving[w] # 0
      BY LenProperties DEF QueueInv, Finish, Doing
    <2>2. PICK i \in 1 .. Len(tasks) : i = serving[w]
      BY <2>1
    <2>3. tasks[i] \in TaskType
      BY <2>1, ElementOfSeq
    <2> DEFINE task == IF Doing(w, "failed") THEN Retried(tasks[i])
                       ELSE [tasks[i] EXCEPT !.state = "done"]
    <2>4. task \in TaskType
      <3>1. [tasks[i] EXCEPT !.state = "done"] \in TaskType
        BY <2>3 DEF TaskType
      <3> QED BY <2>3, <3>1, RetriedTyped
    <2>5. tasks' = [tasks EXCEPT ![i] = task]
      BY <2>2 DEF Finish
    <2> HIDE DEF task
    <2>6. tasks' \in Seq(TaskType) /\ Len(tasks') = Len(tasks)
      BY <2>1, <2>4, <2>5, ExceptSeq
    <2>7. serving' \in [Workers -> 0 .. Len(tasks)]
      BY <2>1 DEF QueueInv, Finish
    <2>8. \A v \in Workers : serving'[v] = 0 => work'[v].step = "idle"
      BY IdleTyped DEF QueueInv, Finish, PictureInv, IntakeTypeOK, Doing
    <2> QED BY <2>6, <2>7, <2>8 DEF QueueInv, Finish, Doing
  <1> QED BY <1>1, <1>2

\* A worker process that dies leaves rows and pictures as they are.
LEMMA WorkersDieKeeps ==
  ASSUME PictureInv, QueueInv, WorkersDie
  PROVE  PictureInv' /\ QueueInv'
  <1>1. \A w \in Workers : work'[w] = Idle
    BY DEF WorkersDie
  <1>2. UNCHANGED <<users, agents, drawn, known, objects, images, clock, slips, asked, shown>>
    BY DEF WorkersDie, identityVars, pictureVars
  <1>3. Idle.step = "idle" /\ Idle.object = 0 /\ Idle \in Work
    BY IdleTyped
  <1>4. PictureInv'
    <2>1. IntakeTypeOK'
      BY <1>2, <1>3 DEF WorkersDie, PictureInv, IntakeTypeOK
    <2>2. IdentitiesAgree'
      BY <1>2 DEF PictureInv, IdentitiesAgree
    <2>3. "idle" \notin Finding \cup Registering \cup Serving \cup Holding \cup Early \cup {"row"}
      BY DEF Finding, Registering, Serving, Holding, Early
    <2>4. RegistrationsAgree'
      BY <1>1, <1>3, <2>3 DEF RegistrationsAgree
    <2>5. \A n : CanBeOpened(n)' = CanBeOpened(n)
      BY <1>2 DEF CanBeOpened
    <2>6. ImagesAgree'
      BY <1>2, <2>5 DEF PictureInv, ImagesAgree
    <2>7. PicturesAgree'
      <3>1. 0 <= clock'
        BY <1>2, IntakeAssumption DEF PictureInv, IntakeTypeOK
      <3> QED BY <1>1, <1>3, <2>3, <3>1 DEF PicturesAgree
    <2> QED BY <2>1, <2>2, <2>4, <2>6, <2>7 DEF PictureInv
  <1>5. QueueInv'
    <2>1. /\ Len(tasks) \in Nat /\ DOMAIN tasks = 1 .. Len(tasks)
          /\ \A i \in 1 .. Len(tasks) : tasks[i] \in TaskType
      BY LenProperties, ElementOfSeq DEF QueueInv
    <2>2. tasks' \in [1 .. Len(tasks) -> TaskType]
      BY <2>1, RetriedTyped DEF WorkersDie
    <2>3. tasks' \in Seq(TaskType)
      BY <2>1, <2>2, SeqDef
    <2>4. Len(tasks') \in Nat
      BY <2>3, LenProperties
    <2>5. serving' \in [Workers -> 0 .. Len(tasks')]
      BY <2>4 DEF WorkersDie
    <2>6. deaths' \in Nat
      BY DEF WorkersDie, QueueInv
    <2> QED BY <1>1, <1>3, <2>3, <2>5, <2>6 DEF QueueInv, WorkersDie, Doing
  <1> QED BY <1>4, <1>5

\* What neither the webhook nor the counters write stays as it is.
LEMMA HookStays ==
  ASSUME HookInv, UNCHANGED <<hookVars, counterVars, admitted>>
  PROVE  HookInv'
  BY DEF HookInv, WebhookTypeOK, CountsAreDrawn, CountsAreOwn, Counting, Counts, Line, hookVars,
         counterVars

\* Steps of the webhook do not touch the workers' tables.
LEMMA PictureStays ==
  ASSUME PictureInv, UNCHANGED intakeVars
  PROVE  PictureInv'
  <1>1. UNCHANGED <<users, agents, drawn, known, objects, images, clock, slips, asked, shown, work>>
    BY DEF intakeVars, identityVars, pictureVars
  <1>2. IntakeTypeOK'
    BY <1>1 DEF PictureInv, IntakeTypeOK
  <1>3. IdentitiesAgree'
    BY <1>1 DEF PictureInv, IdentitiesAgree
  <1>4. RegistrationsAgree'
    BY <1>1 DEF PictureInv, RegistrationsAgree, Identified, Doing
  <1>5. ImagesAgree' /\ PicturesAgree'
    BY <1>1 DEF PictureInv, ImagesAgree, PicturesAgree, HoldsOwn, CanBeOpened
  <1> QED BY <1>2, <1>3, <1>4, <1>5 DEF PictureInv

\* A task more, or none.
LEMMA QueueGrows ==
  ASSUME QueueInv, UNCHANGED <<serving, work, agenda>>, deaths' \in Nat,
         tasks' = tasks \/ \E e \in Event : tasks' = Append(tasks, Queued(e))
  PROVE  QueueInv'
  <1>1. CASE tasks' = tasks
    BY <1>1 DEF QueueInv, Doing
  <1>2. ASSUME NEW e \in Event, tasks' = Append(tasks, Queued(e)) PROVE QueueInv'
    <2>1. Queued(e) \in TaskType
      BY LineIntakeAssumption DEF Queued, TaskType
    <2>2. tasks' \in Seq(TaskType) /\ Len(tasks') = Len(tasks) + 1 /\ Len(tasks) \in Nat
      BY <1>2, <2>1, AppendProperties, LenProperties DEF QueueInv
    <2>3. serving' \in [Workers -> 0 .. Len(tasks')]
      BY <2>2 DEF QueueInv
    <2> QED BY <2>2, <2>3 DEF QueueInv, Doing
  <1> QED BY <1>1, <1>2
\* The first state satisfies the invariant.
LEMMA InitIInv == Init => IInv
  <1> SUFFICES ASSUME Init PROVE IInv
    OBVIOUS
  <1> USE DEF Init
  <1>1. HookInv
    <2>1. \A h \in Hooks : hook[h] = Served
      BY DEF WebhookInit
    <2>2. Served \in Request /\ Served.step = "idle"
      BY EmptySeq DEF Served, Request
    <2>3. WebhookTypeOK
      BY <2>1, <2>2 DEF WebhookInit, WebhookTypeOK
    <2> QED BY <2>1, <2>2, <2>3
            DEF HookInv, WebhookInit, CountsAreDrawn, CountsAreOwn, Counting
  <1>2. PictureInv
    <2>1. \A w \in Workers : work[w] = Idle
      BY DEF IntakeInit
    <2>2. Idle.step = "idle" /\ Idle.object = 0 /\ Idle \in Work
      BY IdleTyped
    <2>3. IntakeTypeOK
      BY <2>2, IntakeAssumption DEF IntakeInit, IntakeTypeOK
    <2>4. "idle" \notin Finding \cup Registering \cup Serving \cup Holding \cup Early \cup {"row"}
      BY DEF Finding, Registering, Serving, Holding, Early
    <2>5. IdentitiesAgree /\ RegistrationsAgree
      BY <2>1, <2>2, <2>4 DEF IntakeInit, IdentitiesAgree, RegistrationsAgree
    <2>6. ImagesAgree
      BY DEF IntakeInit, ImagesAgree
    <2>7. PicturesAgree
      BY <2>1, <2>2, <2>4 DEF IntakeInit, PicturesAgree
    <2> QED BY <2>3, <2>5, <2>6, <2>7 DEF PictureInv
  <1>3. QueueInv
    <2>1. agenda.queued \in Seq(Event)
      BY LineIntakeAssumption DEF Agenda
    <2>2. /\ Len(agenda.queued) \in Nat /\ DOMAIN agenda.queued = 1 .. Len(agenda.queued)
          /\ \A i \in 1 .. Len(agenda.queued) : agenda.queued[i] \in Event
      BY <2>1, LenProperties, ElementOfSeq
    <2>3. \A e \in Event : Queued(e) \in TaskType
      BY LineIntakeAssumption DEF Queued, TaskType
    <2>4. tasks \in [1 .. Len(agenda.queued) -> TaskType]
      BY <2>2, <2>3
    <2>5. tasks \in Seq(TaskType)
      BY <2>2, <2>4, SeqDef
    <2>6. serving \in [Workers -> 0 .. Len(tasks)]
      BY <2>5, LenProperties
    <2>7. \A w \in Workers : Doing(w, "idle")
      BY IdleTyped DEF IntakeInit, Doing
    <2> QED BY <2>5, <2>6, <2>7 DEF QueueInv
  <1> QED BY <1>1, <1>2, <1>3 DEF IInv

\* A step of the webhook queues what it lets through, and touches no worker.
LEMMA HookActsKeeps ==
  ASSUME IInv, NEW h \in Hooks, HookActs(h)
  PROVE  IInv'
  <1> USE DEF IInv
  <1>1. HookInv'
    BY LeaveKeeps, IncrKeeps, IncrFailsKeeps, ExpireKeeps, DecideKeeps
       DEF HookActs, HookStep, HookStepFails
  <1>2. PictureInv'
    BY PictureStays DEF HookActs
  <1>3. tasks' = tasks \/ \E e \in Event : tasks' = Append(tasks, Queued(e))
    <2>1. CASE Enqueue(h)
      <3>1. hook[h] \in Request /\ hook[h].left # <<>> /\ Line(h) \in Lines
        BY <2>1 DEF Enqueue, At, HookInv, WebhookTypeOK
      <3>2. Head(hook[h].left) \in Delivered
        <4>1. hook[h].left \in Seq(Delivered)
          BY <3>1 DEF Request
        <4> QED BY <3>1, <4>1, HeadTailProperties
      <3>3. Head(hook[h].left) \in Event
        BY <3>1, <3>2 DEF Line, Delivered, Event
      <3> QED BY <2>1, <3>3 DEF Enqueue
    <2>2. CASE ~ Enqueue(h)
      BY <2>2 DEF HookActs, HookStep, HookStepFails, Respond, Skip, Incr, Expire, Decide,
                  IncrFails, ExpireFails, EnqueueFails
    <2> QED BY <2>1, <2>2
  <1>4. UNCHANGED <<serving, work, agenda>> /\ deaths' \in Nat
    BY DEF HookActs, intakeVars, QueueInv
  <1>5. QueueInv'
    BY <1>3, <1>4, QueueGrows
  <1> QED BY <1>1, <1>2, <1>5

\* A worker's step keeps every part of it.
LEMMA WorkerActsKeeps ==
  ASSUME IInv, NEW w \in Workers, WorkerActs(w)
  PROVE  IInv'
  <1> USE DEF IInv
  <1>1. HookInv'
    <2>1. UNCHANGED <<hookVars, counterVars, admitted>>
      BY DEF WorkerActs, Take, Finish, webhookVars
    <2> QED BY <2>1, HookStays
  <1>2. CASE WorkStep(w) /\ UNCHANGED <<webhookVars, agenda, serving, deaths>>
    <2>1. PictureInv'
      BY <1>2, WorkStepKeeps
    <2>2. UNCHANGED <<tasks, agenda, serving, deaths>>
      BY <1>2 DEF webhookVars
    <2>3. \A v \in Workers : serving[v] = 0 => Doing(v, "idle")'
      <3> SUFFICES ASSUME NEW v \in Workers, serving[v] = 0 PROVE Doing(v, "idle")'
        OBVIOUS
      <3>1. Doing(v, "idle") /\ v # w /\ work'[v] = work[v]
        BY <1>2, WorkStepWorks DEF QueueInv
      <3> QED BY <3>1 DEF Doing
    <2>4. QueueInv'
      BY <2>2, <2>3 DEF QueueInv
    <2> QED BY <1>1, <2>1, <2>4
  <1>3. ASSUME NEW i \in DOMAIN tasks, Take(w, i) PROVE IInv'
    BY <1>1, <1>3, TakeKeeps
  <1>4. CASE Finish(w)
    BY <1>1, <1>4, FinishKeeps
  <1> QED BY <1>2, <1>3, <1>4 DEF WorkerActs

\* Every step keeps it.
LEMMA NextIInv == IInv /\ [Next]_vars => IInv'
  <1> SUFFICES ASSUME IInv, [Next]_vars PROVE IInv'
    OBVIOUS
  <1> USE DEF IInv
  <1>1. ASSUME NEW h \in agenda.hooks, NEW d \in agenda.bodies, Arrive(h, d) PROVE IInv'
    <2>1. h \in Hooks /\ d \in Deliveries
      BY LineIntakeAssumption DEF QueueInv, Agenda
    <2>2. HookInv'
      BY <1>1, <2>1, ReceiveKeeps DEF Arrive
    <2>3. PictureInv'
      BY <1>1, PictureStays DEF Arrive
    <2>4. UNCHANGED <<serving, work, agenda, tasks>> /\ deaths' \in Nat
      BY <1>1 DEF Arrive, Receive, intakeVars, QueueInv
    <2> QED BY <2>2, <2>3, <2>4, QueueGrows
  <1>2. ASSUME NEW l \in Lines, CounterActs(l) PROVE IInv'
    <2>1. HookInv'
      BY <1>2, CounterEndsKeeps DEF CounterActs
    <2>2. PictureInv'
      BY <1>2, PictureStays DEF CounterActs
    <2>3. UNCHANGED <<serving, work, agenda, tasks>> /\ deaths' \in Nat
      BY <1>2 DEF CounterActs, CounterEnds, intakeVars, QueueInv
    <2> QED BY <2>1, <2>2, <2>3, QueueGrows
  <1>3. ASSUME NEW w \in agenda.workers, WorkerActs(w) PROVE IInv'
    <2>1. w \in Workers
      BY LineIntakeAssumption DEF QueueInv, Agenda
    <2> QED BY <1>3, <2>1, WorkerActsKeeps
  <1>4. CASE ApiDies
    <2>1. HookInv'
      BY <1>4, LeaveKeeps DEF ApiDies
    <2>2. PictureInv'
      BY <1>4, PictureStays DEF ApiDies
    <2>3. UNCHANGED <<serving, work, agenda, tasks>> /\ deaths' \in Nat
      BY <1>4 DEF ApiDies, HookDies, intakeVars, QueueInv
    <2> QED BY <2>1, <2>2, <2>3, QueueGrows
  <1>5. CASE WorkersDie
    <2>1. HookInv'
      BY <1>5, HookStays DEF WorkersDie
    <2> QED BY <1>5, <2>1, WorkersDieKeeps
  <1>6. CASE UNCHANGED vars
    <2>1. UNCHANGED <<hookVars, counterVars, admitted>> /\ UNCHANGED intakeVars
          /\ UNCHANGED <<serving, work, agenda, tasks>> /\ deaths' \in Nat
      BY <1>6 DEF vars, webhookVars, intakeVars, QueueInv
    <2> QED BY <2>1, HookStays, PictureStays, QueueGrows
  <1> QED BY <1>1, <1>2, <1>3, <1>4, <1>5, <1>6, HookActsKeeps DEF Next

\* The invariant holds of every behaviour.
THEOREM Invariance == Spec => []IInv
  BY InitIInv, NextIInv, PTL DEF Spec

\* Every variable has its type, and a worker serves a task of the queue.
THEOREM TypeCorrect == Spec => []TypeOK
  <1>1. IInv => TypeOK
    BY DEF IInv, HookInv, PictureInv, QueueInv, TypeOK
  <1> QED BY <1>1, Invariance, PTL

\* ratelimit.go: a life of a user's counter lets no more than Limit of his events pass,
\* whatever processes serve them, and whichever commands fail or are never sent.
THEOREM LimitIsKept == Spec => []WindowHolds
  <1>1. IInv => WindowHolds
    BY LimitHolds DEF IInv
  <1> QED BY <1>1, Invariance, PTL

\* users.go: a LINE user is served under one identity, which is nobody else's, although
\* registrations run side by side, roll back, or commit without their worker's knowing.
THEOREM Identities == Spec => []OneIdentity
  <1>1. IInv => OneIdentity
    <2> SUFFICES ASSUME IInv, NEW a \in known, NEW b \in known
                 PROVE  /\ a.line = b.line => a.id = b.id /\ a.ns = b.ns
                        /\ a.ns = b.ns \/ a.id = b.id => a.line = b.line
      BY DEF OneIdentity
    <2>1. /\ a.line \in Senders /\ b.line \in Senders /\ a.id # 0
      BY IntakeAssumption DEF IInv, PictureInv, IntakeTypeOK, UserIds
    <2>2. /\ a.id = users[a.line] /\ a.ns = a.id /\ b.id = users[b.line] /\ b.ns = b.id
          /\ \A l, k \in Senders : users[l] # 0 /\ users[l] = users[k] => l = k
      BY DEF IInv, PictureInv, IdentitiesAgree
    <2> QED BY <2>1, <2>2
  <1> QED BY <1>1, Invariance, PTL

\* dispatcher.go: a slip on record, a question about one and a picture sent back have a
\* row and an object that exist, whichever of the stores failed.
THEOREM Pictures == Spec => []PicturesAreKept
  <1>1. IInv => PicturesAreKept
    BY DEF IInv, PictureInv, ImagesAgree, PicturesAreKept
  <1> QED BY <1>1, Invariance, PTL

\* dispatcher.go: nobody is shown, or asked about, a picture that another user sent.
THEOREM Privacy == Spec => []ShownToItsSender
  <1>1. IInv => ShownToItsSender
    BY DEF IInv, PictureInv, ImagesAgree, ShownToItsSender
  <1> QED BY <1>1, Invariance, PTL

-----------------------------------------------------------------------------
(* Why the system comes to rest.                                            *)

\* A body is served event by event.
LEMMA NextEventIsShorter ==
  ASSUME NEW job \in Request, job.left # <<>>
  PROVE  /\ NextEvent(job).step = "check"
         /\ Len(NextEvent(job).left) < Len(job.left)
  <1>1. job.left \in Seq(Delivered)
    BY DEF Request
  <1>2. Len(Tail(job.left)) = Len(job.left) - 1 /\ Len(job.left) \in Nat
    BY <1>1, HeadTailProperties, LenProperties
  <1>3. NextEvent(job).left = Tail(job.left) /\ NextEvent(job).step = "check"
    BY DEF NextEvent, Served
  <1> QED BY <1>2, <1>3

\* A step of a request moves it on, and no other request.
LEMMA HookMoves ==
  ASSUME WebhookTypeOK, NEW h \in Hooks,
         HookStep(h) \/ HookStepFails(h) \/ HookDies(h) \/ \E d \in Deliveries : Receive(h, d)
  PROVE  \A k \in Hooks : HookForward(k)
  <1>1. hook \in [Hooks -> Request] /\ hook[h] \in Request
    BY DEF WebhookTypeOK
  <1>2. ASSUME NEW job, hook' = [hook EXCEPT ![h] = job],
               \/ At(h, "idle") \/ job.step = "idle"
               \/ Len(job.left) < Len(hook[h].left)
               \/ job.left = hook[h].left /\ HookOrder(hook[h].step) < HookOrder(job.step)
        PROVE  \A k \in Hooks : HookForward(k)
    <2>1. hook'[h] = job /\ \A k \in Hooks \ {h} : hook'[k] = hook[k]
      BY <1>1, <1>2
    <2>2. HookForward(h)
      BY <1>2, <2>1 DEF HookForward, At
    <2>3. \A k \in Hooks \ {h} : HookForward(k)
      BY <2>1 DEF HookForward
    <2> QED BY <2>2, <2>3
  <1>3. CASE \E d \in Deliveries : Receive(h, d)
    <2>1. PICK d \in Deliveries : Receive(h, d)
      BY <1>3
    <2> QED BY <2>1, <1>2 DEF Receive, At
  <1>4. CASE HookDies(h)
    <2>1. Served.step = "idle" /\ hook' = [hook EXCEPT ![h] = Served]
      BY <1>4 DEF HookDies, Served
    <2> QED BY <2>1, <1>2
  <1>5. CASE Respond(h)
    <2>1. Served.step = "idle" /\ hook' = [hook EXCEPT ![h] = Served]
      BY <1>5 DEF Respond, Served
    <2> QED BY <2>1, <1>2
  <1>6. CASE hook' = [hook EXCEPT ![h] = NextEvent(hook[h])] /\ hook[h].left # <<>>
    <2>1. Len(NextEvent(hook[h]).left) < Len(hook[h].left)
      BY <1>1, <1>6, NextEventIsShorter
    <2> QED BY <2>1, <1>2, <1>6
  <1>7. ASSUME NEW step \in {"expire", "decide", "enqueue"}, NEW n, NEW m,
               \/ hook' = [hook EXCEPT ![h].step = step]
               \/ hook' = [hook EXCEPT ![h].step = step, ![h].count = n, ![h].life = m],
               HookOrder(hook[h].step) < HookOrder(step)
        PROVE  \A k \in Hooks : HookForward(k)
    <2>1. PICK job : hook' = [hook EXCEPT ![h] = job] /\ job.left = hook[h].left /\ job.step = step
      <3>1. CASE hook' = [hook EXCEPT ![h].step = step]
        <4> DEFINE job == [hook[h] EXCEPT !.step = step]
        <4>1. job.left = hook[h].left /\ job.step = step
          BY <1>1 DEF Request
        <4>2. hook' = [hook EXCEPT ![h] = job]
          BY <3>1
        <4> HIDE DEF job
        <4> QED BY <4>1, <4>2
      <3>2. CASE hook' = [hook EXCEPT ![h].step = step, ![h].count = n, ![h].life = m]
        <4> DEFINE job == [hook[h] EXCEPT !.step = step, !.count = n, !.life = m]
        <4>1. job.left = hook[h].left /\ job.step = step
          BY <1>1 DEF Request
        <4>2. hook' = [hook EXCEPT ![h] = job]
          BY <3>2, <1>1
        <4> HIDE DEF job
        <4> QED BY <4>1, <4>2
      <3> QED BY <1>7, <3>1, <3>2
    <2> QED BY <2>1, <1>7, <1>2
  <1>8. CASE Incr(h)
    <2>1. PICK step \in {"expire", "decide", "enqueue"} :
            /\ hook' = [hook EXCEPT ![h].step = step, ![h].count = counter'[Line(h)],
                                    ![h].life = life'[Line(h)]]
            /\ step \in {"expire", "decide"}
      BY <1>8 DEF Incr
    <2>2. HookOrder(hook[h].step) < HookOrder(step)
      BY <1>8, <2>1 DEF Incr, HasEvent, At, HookOrder
    <2> QED BY <2>1, <2>2, <1>7
  <1>9. CASE IncrFails(h)
    <2>1. hook' = [hook EXCEPT ![h].step = "enqueue"]
      BY <1>9 DEF IncrFails
    <2>2. HookOrder(hook[h].step) < HookOrder("enqueue")
      BY <1>9 DEF IncrFails, HasEvent, At, HookOrder
    <2> QED BY <2>1, <2>2, <1>7
  <1>10. CASE Expire(h) \/ ExpireFails(h)
    <2>1. hook' = [hook EXCEPT ![h].step = "decide"]
      BY <1>10 DEF Expire, ExpireFails
    <2>2. HookOrder(hook[h].step) < HookOrder("decide")
      BY <1>10 DEF Expire, ExpireFails, At, HookOrder
    <2> QED BY <2>1, <2>2, <1>7
  <1>11. CASE Skip(h) \/ Enqueue(h) \/ EnqueueFails(h)
    <2>1. hook[h].left # <<>>
      BY <1>11 DEF Skip, HasEvent, Enqueue, EnqueueFails, At, WebhookTypeOK
    <2> QED BY <1>6, <1>11, <2>1 DEF Skip, Enqueue, EnqueueFails
  <1>12. CASE Decide(h)
    <2>1. hook[h].left # <<>> /\ HookOrder(hook[h].step) < HookOrder("enqueue")
      BY <1>12 DEF Decide, At, WebhookTypeOK, HookOrder
    <2>2. \/ hook' = [hook EXCEPT ![h] = NextEvent(hook[h])]
          \/ hook' = [hook EXCEPT ![h].step = "enqueue"]
      BY <1>12 DEF Decide
    <2> QED BY <1>6, <1>7, <2>1, <2>2
  <1> QED BY <1>3, <1>4, <1>5, <1>8, <1>9, <1>10, <1>11, <1>12 DEF HookStep, HookStepFails

\* The keys of Redis: what a step of a request does to CountersWillEnd.
LEMMA CountersStay ==
  ASSUME WebhookTypeOK, CountersWillEnd, NEW h \in Hooks,
         HookStep(h) \/ HookStepFails(h) \/ HookDies(h) \/ \E d \in Deliveries : Receive(h, d)
  PROVE  CountersWillEnd'
  <1>1. hook \in [Hooks -> Request] /\ counter \in [Lines -> Nat]
    BY DEF WebhookTypeOK
  <1>2. \A k \in Hooks \ {h} : hook'[k] = hook[k]
    BY <1>1 DEF HookStep, HookStepFails, HookDies, Receive, Respond, Skip, Incr, IncrFails, Expire,
      ExpireFails, Decide, Enqueue, EnqueueFails
  <1>3. SUFFICES ASSUME NEW l \in Lines, counter'[l] > 0
                 PROVE  \/ l \in expiring' \cup lost'
                        \/ \E k \in Hooks : At(k, "expire")' /\ Line(k)' = l
    BY DEF CountersWillEnd
  <1>4. \A k \in Hooks \ {h} : At(k, "expire") /\ Line(k) = l =>
                               At(k, "expire")' /\ Line(k)' = l
    BY <1>2 DEF At, Line
  <1>5. expiring \subseteq expiring' /\ lost \subseteq lost'
    BY DEF HookStep, HookStepFails, HookDies, Receive, Respond, Skip, Incr, IncrFails, Expire,
      ExpireFails, Decide, Enqueue, EnqueueFails, counterVars
  <1>6. CASE counter[l] > 0 /\ ~ (At(h, "expire") /\ Line(h) = l)
    BY <1>4, <1>5, <1>6 DEF CountersWillEnd
  <1>7. CASE At(h, "expire") /\ Line(h) = l
    <2>1. Expire(h) \/ ExpireFails(h) \/ HookDies(h)
      BY <1>7 DEF HookStep, HookStepFails, Receive, Respond, Skip, Incr, IncrFails,
        Decide, Enqueue, EnqueueFails, HasEvent, At
    <2> QED BY <1>7, <2>1 DEF Expire, ExpireFails, HookDies
  <1>8. CASE counter[l] = 0
    <2>1. Incr(h) \/ IncrFails(h)
      BY <1>3, <1>8 DEF HookStep, HookStepFails, HookDies, Receive, Respond, Skip, Expire,
        ExpireFails, Decide, Enqueue, EnqueueFails, counterVars
    <2>2. Line(h) = l
      BY <1>1, <1>3, <1>8, <2>1 DEF Incr, IncrFails, Counted
    <2>3. CASE Incr(h)
      <3>1. counter'[l] = 1
        BY <1>1, <1>8, <2>2, <2>3 DEF Incr, Counted
      <3>2. At(h, "expire")' /\ Line(h)' = l
        BY <1>1, <2>2, <2>3, <3>1 DEF Incr, At, Line, Request
      <3> QED BY <3>2
    <2>4. CASE IncrFails(h)
      BY <1>3, <1>8, <2>2, <2>4 DEF IncrFails
    <2> QED BY <2>1, <2>3, <2>4
  <1>9. counter[l] \in Nat
    BY <1>1
  <1> QED BY <1>6, <1>7, <1>8, <1>9

\* No other step makes a key, or takes a time to live from one.
LEMMA CountersStayAside ==
  ASSUME CountersWillEnd, UNCHANGED <<hook, counter, expiring, lost>>
  PROVE  CountersWillEnd'
  BY DEF CountersWillEnd, At, Line

\* A key that goes takes its counter along.
LEMMA CounterGoes ==
  ASSUME WebhookTypeOK, CountersWillEnd, NEW l \in Lines, CounterEnds(l)
  PROVE  CountersWillEnd'
  <1>1. /\ counter' = [counter EXCEPT ![l] = 0] /\ expiring' = expiring \ {l}
        /\ UNCHANGED <<hook, lost>>
    BY DEF CounterEnds, hookVars
  <1>2. counter'[l] = 0 /\ \A m \in Lines \ {l} : counter'[m] = counter[m]
    BY <1>1 DEF WebhookTypeOK
  <1> QED BY <1>1, <1>2 DEF CountersWillEnd, At, Line

\* No counter is left without an end but those whose EXPIRE was lost.
LEMMA StepCounters ==
  ASSUME IInv, CountersWillEnd, [Next]_vars
  PROVE  CountersWillEnd'
  <1> USE DEF IInv, HookInv
  <1>1. ASSUME NEW h \in agenda.hooks, NEW d \in agenda.bodies, Arrive(h, d) PROVE CountersWillEnd'
    <2>1. h \in Hooks /\ d \in Deliveries
      BY LineIntakeAssumption DEF QueueInv, Agenda
    <2> QED BY <1>1, <2>1, CountersStay DEF Arrive
  <1>2. ASSUME NEW h \in Hooks, HookActs(h) PROVE CountersWillEnd'
    BY <1>2, CountersStay DEF HookActs
  <1>3. ASSUME NEW l \in Lines, CounterActs(l) PROVE CountersWillEnd'
    BY <1>3, CounterGoes DEF CounterActs
  <1>4. ASSUME NEW w, WorkerActs(w) PROVE CountersWillEnd'
    BY <1>4, CountersStayAside DEF WorkerActs, Take, Finish, webhookVars, hookVars, counterVars
  <1>5. CASE ApiDies
    BY <1>5, CountersStay DEF ApiDies
  <1>6. CASE WorkersDie
    BY <1>6, CountersStayAside DEF WorkersDie, hookVars, counterVars
  <1>7. CASE UNCHANGED vars
    BY <1>7, CountersStayAside DEF vars, webhookVars, hookVars, counterVars
  <1> QED BY <1>1, <1>2, <1>3, <1>4, <1>5, <1>6, <1>7 DEF Next

-----------------------------------------------------------------------------
(* The queue's tasks and their workers.                                     *)

\* What the queue's tasks are.
LEMMA TasksTyped ==
  ASSUME QueueInv
  PROVE  /\ Len(tasks) \in Nat /\ DOMAIN tasks = 1 .. Len(tasks)
         /\ \A i \in DOMAIN tasks : tasks[i] \in TaskType
         /\ \A w \in Workers : serving[w] # 0 => serving[w] \in DOMAIN tasks
         /\ serving \in [Workers -> 0 .. Len(tasks)]
  <1>1. /\ Len(tasks) \in Nat /\ DOMAIN tasks = 1 .. Len(tasks)
        /\ \A i \in DOMAIN tasks : tasks[i] \in TaskType
    BY LenProperties, ElementOfSeq DEF QueueInv
  <1> QED BY <1>1 DEF QueueInv

\* A task that is tried again goes back to the queue with the next number, and one that
\* is not is archived.
LEMMA RetriedForward ==
  ASSUME NEW task \in TaskType, task.state = "active"
  PROVE  /\ Retried(task).event = task.event
         /\ Retried(task).state \in {"queued", "archived"}
         /\ \/ task.try < Retried(task).try
            \/ task.try = Retried(task).try /\ Retried(task).state = "archived"
  <1>1. CASE task.try < MaxRetry
    <2>1. Retried(task) = [task EXCEPT !.state = "queued", !.try = @ + 1]
      BY <1>1 DEF Retried
    <2> QED BY <2>1, LineIntakeAssumption DEF TaskType
  <1>2. CASE ~ task.try < MaxRetry
    <2>1. Retried(task) = [task EXCEPT !.state = "archived"]
      BY <1>2 DEF Retried
    <2> QED BY <2>1 DEF TaskType
  <1> QED BY <1>1, <1>2

\* What the steps of a worker do to its task.
TasksMove ==
  Len(tasks) <= Len(tasks') /\ \A i \in DOMAIN tasks : TaskForward(i)

\* A worker that takes a task is the only one to have it.
LEMMA TakeServes ==
  ASSUME QueueInv, EachTaskOneWorker, NEW w \in Workers, NEW i \in DOMAIN tasks, Take(w, i)
  PROVE  EachTaskOneWorker' /\ TasksMove
  <1> DEFINE task == [tasks[i] EXCEPT !.state = "active"]
  <1>1. /\ tasks[i] \in TaskType /\ i # 0 /\ serving \in [Workers -> 0 .. Len(tasks)]
        /\ tasks \in Seq(TaskType) /\ DOMAIN tasks = 1 .. Len(tasks)
        /\ \A v \in Workers : serving[v] # 0 => serving[v] \in DOMAIN tasks
    BY TasksTyped DEF QueueInv
  <1>2. /\ task.state = "active" /\ task.event = tasks[i].event /\ task.try = tasks[i].try
        /\ task \in TaskType
    BY <1>1 DEF TaskType
  <1>3. /\ tasks' = [tasks EXCEPT ![i] = task] /\ serving' = [serving EXCEPT ![w] = i]
        /\ serving[w] = 0 /\ tasks[i].state = "queued"
    BY DEF Take
  <1> HIDE DEF task
  <1>4. /\ DOMAIN tasks' = DOMAIN tasks /\ Len(tasks') = Len(tasks) /\ tasks'[i] = task
        /\ \A j \in DOMAIN tasks \ {i} : tasks'[j] = tasks[j]
    BY <1>1, <1>2, <1>3, ExceptSeq
  <1>5. serving'[w] = i /\ \A v \in Workers \ {w} : serving'[v] = serving[v]
    BY <1>1, <1>3
  <1>6. \A v \in Workers : serving[v] # i
    BY <1>1, <1>3 DEF EachTaskOneWorker
  <1>7. \A v \in Workers : serving'[v] # 0 => tasks'[serving'[v]].state = "active"
    <2> SUFFICES ASSUME NEW v \in Workers, serving'[v] # 0
                 PROVE  tasks'[serving'[v]].state = "active"
      OBVIOUS
    <2>1. CASE v = w
      BY <2>1, <1>2, <1>4, <1>5
    <2>2. CASE v # w
      BY <2>2, <1>1, <1>4, <1>5, <1>6 DEF EachTaskOneWorker
    <2> QED BY <2>1, <2>2
  <1>8. ASSUME NEW j \in DOMAIN tasks', tasks'[j].state = "active"
        PROVE  \E v \in Workers : serving'[v] = j /\ \A u \in Workers \ {v} : serving'[u] # j
    <2>1. CASE j = i
      BY <2>1, <1>5, <1>6
    <2>2. CASE j # i
      <3>1. j \in DOMAIN tasks /\ tasks[j].state = "active"
        BY <1>4, <1>8, <2>2
      <3>2. PICK v \in Workers : serving[v] = j /\ \A u \in Workers \ {v} : serving[u] # j
        BY <3>1 DEF EachTaskOneWorker
      <3>3. v # w
        BY <1>1, <1>3, <3>1, <3>2
      <3> QED BY <2>2, <3>2, <3>3, <1>5
    <2> QED BY <2>1, <2>2
  <1>9. TasksMove
    <2>1. TaskForward(i)
      BY <1>2, <1>3, <1>4 DEF TaskForward, StateOrder
    <2>2. \A j \in DOMAIN tasks \ {i} : TaskForward(j)
      BY <1>4 DEF TaskForward
    <2>3. Len(tasks) <= Len(tasks')
      BY <1>4, TasksTyped
    <2> QED BY <2>1, <2>2, <2>3 DEF TasksMove
  <1> QED BY <1>7, <1>8, <1>9 DEF EachTaskOneWorker

\* A worker that finishes gives its task back, for good or for another try.
LEMMA FinishServes ==
  ASSUME QueueInv, EachTaskOneWorker, NEW w \in Workers, Finish(w)
  PROVE  EachTaskOneWorker' /\ TasksMove
  <1>1. /\ serving \in [Workers -> 0 .. Len(tasks)] /\ tasks \in Seq(TaskType)
        /\ DOMAIN tasks = 1 .. Len(tasks) /\ serving[w] # 0
        /\ \A v \in Workers : serving[v] # 0 => serving[v] \in DOMAIN tasks
    BY TasksTyped DEF QueueInv, Finish, Doing
  <1>2. PICK i \in DOMAIN tasks : i = serving[w]
    BY <1>1
  <1>3. tasks[i] \in TaskType /\ tasks[i].state = "active"
    BY <1>1, <1>2, TasksTyped DEF EachTaskOneWorker
  <1> DEFINE task == IF Doing(w, "failed") THEN Retried(tasks[i])
                     ELSE [tasks[i] EXCEPT !.state = "done"]
  <1>4. /\ task \in TaskType /\ task.event = tasks[i].event /\ task.state # "active"
        /\ \/ tasks[i].try < task.try
           \/ tasks[i].try = task.try /\ task.state \in {"done", "archived"}
    <2>1. CASE Doing(w, "failed")
      BY <2>1, <1>3, RetriedForward, RetriedTyped
    <2>2. CASE ~ Doing(w, "failed")
      BY <2>2, <1>3 DEF TaskType
    <2> QED BY <2>1, <2>2
  <1>5. tasks' = [tasks EXCEPT ![i] = task] /\ serving' = [serving EXCEPT ![w] = 0]
    BY <1>2 DEF Finish
  <1> HIDE DEF task
  <1>6. /\ DOMAIN tasks' = DOMAIN tasks /\ Len(tasks') = Len(tasks) /\ tasks'[i] = task
        /\ \A j \in DOMAIN tasks \ {i} : tasks'[j] = tasks[j]
    BY <1>1, <1>4, <1>5, ExceptSeq
  <1>7. serving'[w] = 0 /\ \A v \in Workers \ {w} : serving'[v] = serving[v]
    BY <1>1, <1>5
  <1>8. \A v \in Workers \ {w} : serving[v] # i
    <2>1. PICK u \in Workers : serving[u] = i /\ \A v \in Workers \ {u} : serving[v] # i
      BY <1>3 DEF EachTaskOneWorker
    <2> QED BY <2>1, <1>2
  <1>9. \A v \in Workers : serving'[v] # 0 => tasks'[serving'[v]].state = "active"
    BY <1>1, <1>6, <1>7, <1>8 DEF EachTaskOneWorker
  <1>10. ASSUME NEW j \in DOMAIN tasks', tasks'[j].state = "active"
         PROVE  \E v \in Workers : serving'[v] = j /\ \A u \in Workers \ {v} : serving'[u] # j
    <2>1. j # i /\ j \in DOMAIN tasks /\ tasks[j].state = "active" /\ j # 0
      BY <1>1, <1>4, <1>6, <1>10
    <2>2. PICK v \in Workers : serving[v] = j /\ \A u \in Workers \ {v} : serving[u] # j
      BY <2>1 DEF EachTaskOneWorker
    <2>3. v # w
      BY <1>2, <2>1, <2>2
    <2> QED BY <2>1, <2>2, <2>3, <1>7
  <1>11. TasksMove
    <2>1. TaskForward(i)
      BY <1>3, <1>4, <1>6 DEF TaskForward, StateOrder
    <2>2. \A j \in DOMAIN tasks \ {i} : TaskForward(j)
      BY <1>6 DEF TaskForward
    <2>3. Len(tasks) <= Len(tasks')
      BY <1>6, TasksTyped
    <2> QED BY <2>1, <2>2, <2>3 DEF TasksMove
  <1> QED BY <1>9, <1>10, <1>11 DEF EachTaskOneWorker

\* The death of the workers gives all their tasks back.
LEMMA DeathServes ==
  ASSUME QueueInv, EachTaskOneWorker, WorkersDie
  PROVE  EachTaskOneWorker' /\ TasksMove
  <1>1. /\ tasks' = [i \in DOMAIN tasks |->
                       IF tasks[i].state = "active" THEN Retried(tasks[i]) ELSE tasks[i]]
        /\ \A w \in Workers : serving'[w] = 0
    BY DEF WorkersDie
  <1>2. \A i \in DOMAIN tasks : tasks[i] \in TaskType
    BY TasksTyped
  <1>3. \A i \in DOMAIN tasks : tasks'[i].state # "active"
    BY <1>1, <1>2, RetriedForward
  <1>4. EachTaskOneWorker'
    BY <1>1, <1>3 DEF EachTaskOneWorker
  <1>5. ASSUME NEW i \in DOMAIN tasks PROVE TaskForward(i)
    <2>1. CASE tasks[i].state = "active"
      <3>1. tasks'[i] = Retried(tasks[i])
        BY <1>1, <2>1
      <3> QED BY <1>2, <2>1, <3>1, RetriedForward DEF TaskForward, StateOrder
    <2>2. CASE tasks[i].state # "active"
      BY <1>1, <2>2 DEF TaskForward
    <2> QED BY <2>1, <2>2
  <1>6. Len(tasks) <= Len(tasks')
    <2>1. Len(tasks) \in Nat /\ DOMAIN tasks = 1 .. Len(tasks)
      BY TasksTyped
    <2>2. tasks' \in [1 .. Len(tasks) -> TaskType]
      BY <2>1, <1>2, <1>1, RetriedTyped
    <2>3. tasks' \in Seq(TaskType) /\ DOMAIN tasks' = 1 .. Len(tasks)
      BY <2>1, <2>2, SeqDef
    <2>4. Len(tasks') = Len(tasks)
      BY <2>1, <2>3, LenProperties
    <2> QED BY <2>1, <2>4
  <1> QED BY <1>4, <1>5, <1>6 DEF TasksMove

\* A step that leaves the workers alone at most queues a task.
LEMMA AsideServes ==
  ASSUME QueueInv, EachTaskOneWorker, UNCHANGED serving,
         tasks' = tasks \/ \E e \in Event : tasks' = Append(tasks, Queued(e))
  PROVE  EachTaskOneWorker' /\ TasksMove
  <1>0. Len(tasks) \in Nat /\ DOMAIN tasks = 1 .. Len(tasks)
    BY TasksTyped
  <1>1. CASE tasks' = tasks
    BY <1>0, <1>1 DEF EachTaskOneWorker, TasksMove, TaskForward
  <1>2. ASSUME NEW e \in Event, tasks' = Append(tasks, Queued(e))
        PROVE  EachTaskOneWorker' /\ TasksMove
    <2>1. Queued(e) \in TaskType /\ Queued(e).state = "queued"
      BY LineIntakeAssumption DEF Queued, TaskType
    <2>2. /\ Len(tasks') = Len(tasks) + 1 /\ tasks'[Len(tasks) + 1] = Queued(e)
          /\ DOMAIN tasks' = 1 .. Len(tasks) + 1
          /\ \A i \in 1 .. Len(tasks) : tasks'[i] = tasks[i]
      <3>1. tasks' \in Seq(TaskType)
        BY <1>2, <2>1, AppendProperties DEF QueueInv
      <3>2. tasks \in Seq(TaskType)
        BY DEF QueueInv
      <3>3. /\ Len(tasks') = Len(tasks) + 1 /\ tasks'[Len(tasks) + 1] = Queued(e)
            /\ \A i \in 1 .. Len(tasks) : tasks'[i] = tasks[i]
        BY <1>2, <2>1, <3>2, AppendProperties
      <3>4. DOMAIN tasks' = 1 .. Len(tasks')
        BY <3>1, LenProperties
      <3> QED BY <3>3, <3>4
    <2>3. \A w \in Workers : serving[w] # 0 => serving[w] \in DOMAIN tasks
      BY TasksTyped
    <2>4. EachTaskOneWorker'
      BY <1>0, <2>1, <2>2, <2>3 DEF EachTaskOneWorker
    <2>5. TasksMove
      BY <1>0, <2>2 DEF TasksMove, TaskForward
    <2> QED BY <2>4, <2>5
  <1> QED BY <1>1, <1>2

\* What a step of the webhook queues is the event of a user.
LEMMA HookQueues ==
  ASSUME WebhookTypeOK, NEW h \in Hooks, HookStep(h) \/ HookStepFails(h)
  PROVE  tasks' = tasks \/ \E e \in Event : tasks' = Append(tasks, Queued(e))
  <1>1. CASE Enqueue(h)
    <2>1. hook[h] \in Request /\ hook[h].left # <<>> /\ Line(h) \in Lines
      BY <1>1 DEF Enqueue, At, WebhookTypeOK
    <2>2. Head(hook[h].left) \in Delivered
      <3>1. hook[h].left \in Seq(Delivered)
        BY <2>1 DEF Request
      <3> QED BY <2>1, <3>1, HeadTailProperties
    <2>3. Head(hook[h].left) \in Event
      BY <2>1, <2>2 DEF Line, Delivered, Event
    <2> QED BY <1>1, <2>3 DEF Enqueue
  <1>2. CASE ~ Enqueue(h)
    BY <1>2 DEF HookStep, HookStepFails, Respond, Skip, Incr, Expire, Decide, IncrFails,
      ExpireFails, EnqueueFails
  <1> QED BY <1>1, <1>2

-----------------------------------------------------------------------------
(* The steps of a worker.                                                   *)

WorkersForward == \A v \in Workers : WorkForward(v)

\* A worker that goes to a later step is ahead of where it was.
LEMMA LaterStep ==
  ASSUME IntakeTypeOK, NEW w \in Workers, UNCHANGED serving,
         NEW job, work' = [work EXCEPT ![w] = job],
         \/ WorkOrder(work[w].step) < WorkOrder(job.step)
         \/ /\ work[w].step = job.step
            /\ \/ StageOrder(work[w].stage) < StageOrder(job.stage)
               \/ work[w].stage = job.stage /\ job.models < work[w].models
  PROVE  WorkersForward
  <1>1. work'[w] = job /\ \A v \in Workers \ {w} : work'[v] = work[v]
    BY DEF IntakeTypeOK
  <1>2. WorkForward(w)
    BY <1>1 DEF WorkForward
  <1>3. \A v \in Workers \ {w} : WorkForward(v)
    BY <1>1 DEF WorkForward
  <1> QED BY <1>2, <1>3 DEF WorkersForward

\* The same for a step that is all that changes.
LEMMA GoesLater ==
  ASSUME IntakeTypeOK, NEW w \in Workers, UNCHANGED serving, NEW step, Goes(w, step),
         WorkOrder(work[w].step) < WorkOrder(step)
  PROVE  WorkersForward
  <1> DEFINE job == [work[w] EXCEPT !.step = step]
  <1>1. work[w] \in Work
    BY DEF IntakeTypeOK
  <1>2. job.step = step
    BY <1>1 DEF Work
  <1>3. work' = [work EXCEPT ![w] = job]
    BY DEF Goes
  <1> HIDE DEF job
  <1> QED BY <1>2, <1>3, LaterStep

\* Every step of a worker takes it on.
LEMMA WorkMoves ==
  ASSUME PictureInv, NEW w \in Workers, WorkStep(w), UNCHANGED serving
  PROVE  WorkersForward
  <1>t. IntakeTypeOK /\ work[w] \in Work
    BY DEF PictureInv, IntakeTypeOK
  <1>g. ASSUME NEW step, Goes(w, step), WorkOrder(work[w].step) < WorkOrder(step) PROVE WorkersForward
    BY <1>g, <1>t, GoesLater
  <1>j. ASSUME NEW job, work' = [work EXCEPT ![w] = job],
               WorkOrder(work[w].step) < WorkOrder(job.step)
        PROVE  WorkersForward
    BY <1>j, <1>t, LaterStep
  <1>o. /\ WorkOrder("lookup") = 1 /\ WorkOrder("register") = 2 /\ WorkOrder("agent") = 3
        /\ WorkOrder("commit") = 4 /\ WorkOrder("image") = 5 /\ WorkOrder("recall") = 5
        /\ WorkOrder("review") = 5 /\ WorkOrder("put") = 6 /\ WorkOrder("load") = 6
        /\ WorkOrder("row") = 7 /\ WorkOrder("read") = 8 /\ WorkOrder("reread") = 8
        /\ WorkOrder("slip") = 9 /\ WorkOrder("apply") = 10 /\ WorkOrder("answer") = 11
        /\ WorkOrder("asking") = 11 /\ WorkOrder("showing") = 11 /\ WorkOrder("done") = 12
        /\ WorkOrder("failed") = 12 /\ WorkOrder("other") = 12
    BY DEF WorkOrder
  <1>i. ASSUME NEW id, NEW ns, Identify(w, id, ns, work[w].kind), work[w].step \in Finding
        PROVE  WorkersForward
    <2> DEFINE job == [work[w] EXCEPT !.id = id, !.ns = ns, !.step = work[w].kind]
    <2>1. job.step = work[w].kind
      BY <1>t DEF Work
    <2>2. work' = [work EXCEPT ![w] = job]
      BY <1>i, <1>t DEF Identify, IntakeTypeOK
    <2>3. WorkOrder(work[w].step) < WorkOrder(work[w].kind)
      BY <1>i, <1>o, KindIsAStep DEF Finding
    <2> HIDE DEF job
    <2> QED BY <2>1, <2>2, <2>3, <1>j
  <1>1. CASE Lookup(w)
    <2>1. work[w].step = "lookup"
      BY <1>1 DEF Lookup, Doing
    <2>2. CASE Goes(w, "register")
      BY <2>1, <2>2, <1>g, <1>o
    <2>3. CASE \E id, ns : Identify(w, id, ns, work[w].kind)
      BY <2>1, <2>3, <1>i DEF Finding
    <2> QED BY <1>1, <2>2, <2>3 DEF Lookup
  <1>2. CASE UpsertUser(w)
    <2>1. PICK id : work' = [work EXCEPT ![w].step = "agent", ![w].id = id]
      BY <1>2 DEF UpsertUser
    <2> DEFINE job == [work[w] EXCEPT !.step = "agent", !.id = id]
    <2>2. job.step = "agent" /\ work' = [work EXCEPT ![w] = job]
      BY <2>1, <1>t DEF Work, IntakeTypeOK
    <2> HIDE DEF job
    <2>3. WorkOrder(work[w].step) < WorkOrder(job.step)
      BY <1>2, <2>2, <1>o DEF UpsertUser, Doing
    <2> QED BY <2>2, <2>3, <1>j
  <1>3. CASE UpsertAgent(w)
    <2>1. PICK ns : work' = [work EXCEPT ![w].step = "commit", ![w].ns = ns]
      BY <1>3 DEF UpsertAgent
    <2> DEFINE job == [work[w] EXCEPT !.step = "commit", !.ns = ns]
    <2>2. job.step = "commit" /\ work' = [work EXCEPT ![w] = job]
      BY <2>1, <1>t DEF Work, IntakeTypeOK
    <2> HIDE DEF job
    <2>3. WorkOrder(work[w].step) < WorkOrder(job.step)
      BY <1>3, <2>2, <1>o DEF UpsertAgent, Doing
    <2> QED BY <2>2, <2>3, <1>j
  <1>4. CASE Commit(w)
    BY <1>4, <1>i DEF Commit, Doing, Finding
  <1>5. CASE IdentityFails(w)
    <2>1. WorkOrder(work[w].step) < WorkOrder("failed")
      BY <1>5, <1>o DEF IdentityFails, Registering
    <2> QED BY <1>5, <2>1, <1>g DEF IdentityFails
  <1>6. CASE Download(w) \/ Load(w) \/ Answer(w) \/ Ask(w) \/ Show(w)
    <2>1. PICK step \in {"put", "answer", "reread", "done", "failed"} :
            Goes(w, step) /\ WorkOrder(work[w].step) < WorkOrder(step)
      BY <1>6, <1>o DEF Download, Load, Answer, Ask, Show, Doing
    <2> QED BY <2>1, <1>g
  <1>7. CASE Put(w)
    <2>1. work[w].step = "put"
      BY <1>7 DEF Put, Doing
    <2>2. CASE Goes(w, "answer")
      BY <2>1, <2>2, <1>g, <1>o
    <2>3. ASSUME NEW n, work' = [work EXCEPT ![w].object = n, ![w].step = "row"] PROVE WorkersForward
      <3> DEFINE job == [work[w] EXCEPT !.object = n, !.step = "row"]
      <3>1. job.step = "row" /\ work' = [work EXCEPT ![w] = job]
        BY <2>3, <1>t DEF Work, IntakeTypeOK
      <3> HIDE DEF job
      <3>2. WorkOrder(work[w].step) < WorkOrder(job.step)
        BY <2>1, <3>1, <1>o
      <3> QED BY <3>1, <3>2, <1>j
    <2> QED BY <1>7, <2>2, <2>3 DEF Put
  <1>8. CASE SaveRow(w)
    <2>1. work[w].step = "row"
      BY <1>8 DEF SaveRow, Doing
    <2>2. CASE Goes(w, "read")
      BY <2>1, <2>2, <1>g, <1>o
    <2>3. CASE work' = [work EXCEPT ![w].step = "read", ![w].row = TRUE]
      <3> DEFINE job == [work[w] EXCEPT !.step = "read", !.row = TRUE]
      <3>1. job.step = "read" /\ work' = [work EXCEPT ![w] = job]
        BY <2>3, <1>t DEF Work, IntakeTypeOK
      <3> HIDE DEF job
      <3>2. WorkOrder(work[w].step) < WorkOrder(job.step)
        BY <2>1, <3>1, <1>o
      <3> QED BY <3>1, <3>2, <1>j
    <2> QED BY <1>8, <2>2, <2>3 DEF SaveRow
  <1>9. CASE FindLatest(w)
    <2>1. work[w].step \in {"recall", "review"}
      BY <1>9 DEF FindLatest
    <2>2. CASE Goes(w, "answer")
      BY <2>1, <2>2, <1>g, <1>o
    <2>3. ASSUME NEW n, NEW step \in {"showing", "load"},
                 work' = [work EXCEPT ![w].object = n, ![w].row = TRUE, ![w].step = step]
          PROVE  WorkersForward
      <3> DEFINE job == [work[w] EXCEPT !.object = n, !.row = TRUE, !.step = step]
      <3>1. job.step = step /\ work' = [work EXCEPT ![w] = job]
        BY <2>3, <1>t DEF Work, IntakeTypeOK
      <3> HIDE DEF job
      <3>2. WorkOrder(work[w].step) < WorkOrder(job.step)
        BY <2>1, <3>1, <1>o
      <3> QED BY <3>1, <3>2, <1>j
    <2> QED BY <1>9, <2>2, <2>3 DEF FindLatest
  <1>10. CASE CreateSlip(w)
    <2>1. Doing(w, "slip") /\ (Goes(w, "apply") \/ Goes(w, "answer"))
      BY <1>10 DEF CreateSlip
    <2> QED BY <2>1, <1>g, <1>o DEF Doing
  <1>11. CASE ApplyVision(w)
    <2>1. Doing(w, "apply") /\ (Goes(w, "asking") \/ Goes(w, "answer"))
      BY <1>11 DEF ApplyVision
    <2> QED BY <2>1, <1>g, <1>o DEF Doing
  <1>12. CASE AskStructured(w) \/ AskWithSchema(w) \/ AskInChat(w)
    <2>1. work[w].step \in {"read", "reread"}
      BY <1>12 DEF AskStructured, AskWithSchema, AskInChat, Reads
    <2>2. CASE Verdict(w)
      <3>1. PICK v \in Verdicts(w) : work' = [work EXCEPT ![w].step = v[1], ![w].amount = v[2]]
        BY <2>2 DEF Verdict
      <3> DEFINE job == [work[w] EXCEPT !.step = v[1], !.amount = v[2]]
      <3>2. job.step = v[1] /\ work' = [work EXCEPT ![w] = job]
        BY <3>1, <1>t DEF Work, IntakeTypeOK
      <3>3. \/ v = <<"asking", TRUE>> \/ v = <<"answer", FALSE>>
            \/ v = <<"slip", TRUE>> \/ v = <<"slip", FALSE>>
        BY <3>1 DEF Verdicts
      <3> HIDE DEF job
      <3>4. v[1] \in {"slip", "answer", "asking"}
        <4>1. CASE v = <<"asking", TRUE>>
          BY <4>1
        <4>2. CASE v = <<"answer", FALSE>>
          BY <4>2
        <4>3. CASE v = <<"slip", TRUE>>
          BY <4>3
        <4>4. CASE v = <<"slip", FALSE>>
          BY <4>4
        <4> QED BY <3>3, <4>1, <4>2, <4>3, <4>4
      <3>5. WorkOrder(work[w].step) < WorkOrder(job.step)
        BY <2>1, <3>2, <3>4, <1>o
      <3> QED BY <3>2, <3>5, <1>j
    <2>3. CASE Goes(w, "answer")
      BY <2>1, <2>3, <1>g, <1>o
    <2>4. CASE NextModel(w)
      <3> DEFINE job == [work[w] EXCEPT !.models = @ - 1]
      <3>1. work[w].models \in Nat
        BY <1>t, IntakeAssumption DEF Work
      <3>2. /\ job.step = work[w].step /\ job.stage = work[w].stage
            /\ job.models < work[w].models /\ work' = [work EXCEPT ![w] = job]
        BY <2>4, <3>1, <1>t DEF NextModel, Work, IntakeTypeOK
      <3> HIDE DEF job
      <3> QED BY <3>2, <1>t, LaterStep
    <2>5. ASSUME NEW stage \in {"schema", "chat"}, Turns(w, stage),
                 StageOrder(work[w].stage) < StageOrder(stage)
          PROVE  WorkersForward
      <3> DEFINE job == [work[w] EXCEPT !.stage = stage, !.models = Models]
      <3>1. /\ job.step = work[w].step /\ job.stage = stage
            /\ work' = [work EXCEPT ![w] = job]
        BY <2>5, <1>t DEF Turns, Work, IntakeTypeOK
      <3> HIDE DEF job
      <3> QED BY <2>5, <3>1, <1>t, LaterStep
    <2>6. /\ StageOrder("structured") = 0 /\ StageOrder("schema") = 1 /\ StageOrder("chat") = 2
      BY DEF StageOrder
    <2>7. CASE AskStructured(w)
      BY <2>2, <2>5, <2>6, <2>7 DEF AskStructured, Reads
    <2>8. CASE AskWithSchema(w)
      BY <2>2, <2>4, <2>5, <2>6, <2>8 DEF AskWithSchema, Reads
    <2>9. CASE AskInChat(w)
      BY <2>2, <2>3, <2>4, <2>9 DEF AskInChat
    <2> QED BY <1>12, <2>7, <2>8, <2>9
  <1> QED BY <1>1, <1>2, <1>3, <1>4, <1>5, <1>6, <1>7, <1>8, <1>9, <1>10, <1>11, <1>12 DEF WorkStep

\* A worker begins and ends with its task.
LEMMA ServingMoves ==
  ASSUME PictureInv, QueueInv, NEW w \in Workers, Finish(w) \/ \E i \in DOMAIN tasks : Take(w, i)
  PROVE  WorkersForward
  <1>1. /\ work \in [Workers -> Work] /\ serving \in [Workers -> 0 .. Len(tasks)]
        /\ DOMAIN tasks = 1 .. Len(tasks) /\ Len(tasks) \in Nat
    BY TasksTyped DEF PictureInv, IntakeTypeOK
  <1>2. \A v \in Workers \ {w} : work'[v] = work[v]
    BY <1>1 DEF Finish, Take
  <1>3. CASE Finish(w)
    <2>1. serving[w] # 0
      BY <1>3 DEF QueueInv, Finish, Doing
    <2>2. serving'[w] = 0 /\ work'[w].step = "idle"
      BY <1>1, <1>3, IdleTyped DEF Finish
    <2> QED BY <1>2, <2>1, <2>2 DEF WorkersForward, WorkForward, Doing
  <1>4. ASSUME NEW i \in DOMAIN tasks, Take(w, i) PROVE WorkersForward
    <2>1. serving[w] = 0 /\ Doing(w, "idle")
      BY <1>4 DEF QueueInv, Take
    <2>2. serving'[w] = i /\ i # 0
      BY <1>1, <1>4 DEF Take
    <2> QED BY <1>2, <2>1, <2>2 DEF WorkersForward, WorkForward
  <1> QED BY <1>3, <1>4

-----------------------------------------------------------------------------
(* The whole.                                                               *)

\* The body of IntakeGoesForward.
GoesForward ==
  /\ \A h \in Hooks : HookForward(h)
  /\ Len(tasks) <= Len(tasks') /\ \A i \in DOMAIN tasks : TaskForward(i)
  /\ \A w \in Workers : WorkForward(w)

\* Every step takes requests, tasks and workers on, and keeps one worker to a task.
LEMMA StepForward ==
  ASSUME IInv, EachTaskOneWorker, [Next]_vars
  PROVE  EachTaskOneWorker' /\ GoesForward
  <1> USE DEF IInv, HookInv
  <1>h. UNCHANGED hook => \A h \in Hooks : HookForward(h)
    BY DEF HookForward
  <1>w. UNCHANGED work => WorkersForward
    BY DEF WorkersForward, WorkForward
  <1>a. ASSUME UNCHANGED <<serving, work>>, \A h \in Hooks : HookForward(h),
               tasks' = tasks \/ \E e \in Event : tasks' = Append(tasks, Queued(e))
        PROVE  EachTaskOneWorker' /\ GoesForward
    <2>1. EachTaskOneWorker' /\ TasksMove
      BY <1>a, AsideServes
    <2>2. WorkersForward
      BY <1>a, <1>w
    <2> QED BY <1>a, <2>1, <2>2 DEF TasksMove, WorkersForward, GoesForward
  <1>1. ASSUME NEW h \in agenda.hooks, NEW d \in agenda.bodies, Arrive(h, d)
        PROVE  EachTaskOneWorker' /\ GoesForward
    <2>1. h \in Hooks /\ d \in Deliveries
      BY LineIntakeAssumption DEF QueueInv, Agenda
    <2>2. \A k \in Hooks : HookForward(k)
      BY <1>1, <2>1, HookMoves DEF Arrive
    <2>3. UNCHANGED <<serving, work, tasks>>
      BY <1>1 DEF Arrive, Receive, intakeVars
    <2> QED BY <1>a, <2>2, <2>3
  <1>2. ASSUME NEW h \in Hooks, HookActs(h) PROVE EachTaskOneWorker' /\ GoesForward
    <2>1. \A k \in Hooks : HookForward(k)
      BY <1>2, HookMoves DEF HookActs
    <2>2. tasks' = tasks \/ \E e \in Event : tasks' = Append(tasks, Queued(e))
      BY <1>2, HookQueues DEF HookActs
    <2>3. UNCHANGED <<serving, work>>
      BY <1>2 DEF HookActs, intakeVars
    <2> QED BY <1>a, <2>1, <2>2, <2>3
  <1>3. ASSUME NEW l \in Lines, CounterActs(l) PROVE EachTaskOneWorker' /\ GoesForward
    <2>1. UNCHANGED <<serving, work, tasks, hook>>
      BY <1>3 DEF CounterActs, CounterEnds, intakeVars, hookVars
    <2> QED BY <1>a, <1>h, <2>1
  <1>4. ASSUME NEW w \in agenda.workers, WorkerActs(w) PROVE EachTaskOneWorker' /\ GoesForward
    <2>1. w \in Workers
      BY LineIntakeAssumption DEF QueueInv, Agenda
    <2>2. UNCHANGED hook
      BY <1>4 DEF WorkerActs, Take, Finish, webhookVars, hookVars
    <2>3. CASE WorkStep(w) /\ UNCHANGED <<webhookVars, agenda, serving, deaths>>
      <3>1. EachTaskOneWorker' /\ TasksMove
        BY <2>3, AsideServes DEF webhookVars
      <3>2. WorkersForward
        BY <2>1, <2>3, WorkMoves
      <3> QED BY <1>h, <2>2, <3>1, <3>2 DEF TasksMove, WorkersForward, GoesForward
    <2>4. ASSUME NEW i \in DOMAIN tasks, Take(w, i) PROVE EachTaskOneWorker' /\ GoesForward
      <3>1. EachTaskOneWorker' /\ TasksMove
        BY <2>1, <2>4, TakeServes
      <3>2. WorkersForward
        BY <2>1, <2>4, ServingMoves
      <3> QED BY <1>h, <2>2, <3>1, <3>2 DEF TasksMove, WorkersForward, GoesForward
    <2>5. CASE Finish(w)
      <3>1. EachTaskOneWorker' /\ TasksMove
        BY <2>1, <2>5, FinishServes
      <3>2. WorkersForward
        BY <2>1, <2>5, ServingMoves
      <3> QED BY <1>h, <2>2, <3>1, <3>2 DEF TasksMove, WorkersForward, GoesForward
    <2> QED BY <1>4, <2>3, <2>4, <2>5 DEF WorkerActs
  <1>5. CASE ApiDies
    <2>1. \A k \in Hooks : HookForward(k)
      BY <1>5, HookMoves DEF ApiDies
    <2>2. UNCHANGED <<serving, work, tasks>>
      BY <1>5 DEF ApiDies, HookDies, intakeVars
    <2> QED BY <1>a, <2>1, <2>2
  <1>6. CASE WorkersDie
    <2>1. EachTaskOneWorker' /\ TasksMove
      BY <1>6, DeathServes
    <2>2. \A h \in Hooks : HookForward(h)
      BY <1>6, <1>h DEF WorkersDie, hookVars
    <2>3. \A w \in Workers : serving'[w] = 0 /\ work'[w] = Idle
      BY <1>6 DEF WorkersDie
    <2>4. ASSUME NEW w \in Workers PROVE WorkForward(w)
      <3>1. CASE serving[w] # 0
        BY <3>1, <2>3, IdleTyped DEF WorkForward, Doing
      <3>2. CASE serving[w] = 0
        <4>1. Doing(w, "idle")
          BY <3>2 DEF QueueInv
        <4> QED BY <4>1, <2>3, IdleTyped DEF WorkForward, Doing
      <3> QED BY <3>1, <3>2
    <2> QED BY <2>1, <2>2, <2>4 DEF TasksMove, WorkersForward, GoesForward
  <1>7. CASE UNCHANGED vars
    <2>1. UNCHANGED <<serving, work, tasks, hook>>
      BY <1>7 DEF vars, webhookVars, hookVars, intakeVars
    <2> QED BY <1>a, <1>h, <2>1
  <1> QED BY <1>1, <1>2, <1>3, <1>4, <1>5, <1>6, <1>7 DEF Next

\* ratelimit.go: a user who is blocked is blocked by a key that has a time to live, or is
\* about to get one, unless an EXPIRE of his was lost.
THEOREM CountersAreMortal == Spec => []CountersWillEnd
  <1>1. Init => CountersWillEnd
    BY DEF Init, WebhookInit, CountersWillEnd
  <1>2. IInv /\ CountersWillEnd /\ [Next]_vars => CountersWillEnd'
    BY StepCounters
  <1> QED BY <1>1, <1>2, Invariance, PTL DEF Spec

\* queue/server.go: no task is served by two workers, and none is active without one, although
\* workers die, fail and take tasks again.
THEOREM OneWorker == Spec => []EachTaskOneWorker
  <1>1. Init => EachTaskOneWorker
    <2> SUFFICES ASSUME Init PROVE EachTaskOneWorker
      OBVIOUS
    <2>1. \A i \in DOMAIN agenda.queued : tasks[i].state = "queued"
      BY DEF Init, Queued
    <2>2. DOMAIN tasks = DOMAIN agenda.queued /\ \A w \in Workers : serving[w] = 0
      BY DEF Init
    <2> QED BY <2>1, <2>2 DEF EachTaskOneWorker
  <1>2. IInv /\ EachTaskOneWorker /\ [Next]_vars => EachTaskOneWorker'
    BY StepForward
  <1> QED BY <1>1, <1>2, Invariance, PTL DEF Spec

\* Requests, tasks and workers only go forward: without any fairness, what does not
\* stand still ends.
THEOREM Forward == Spec => IntakeGoesForward
  <1>1. IInv /\ EachTaskOneWorker /\ [Next]_vars => [GoesForward]_vars
    BY StepForward
  <1> QED BY <1>1, Invariance, OneWorker, PTL DEF Spec, IntakeGoesForward, GoesForward
=============================================================================
