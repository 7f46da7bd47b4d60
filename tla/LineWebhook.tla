----------------------------- MODULE LineWebhook -----------------------------
(***************************************************************************)
(* The webhook of the LINE platform (internal/line): requests, each with a *)
(* batch of events, are served side by side by API processes; every event  *)
(* of a user is counted against a rate limit in Redis and, when it passes, *)
(* queued as a task.                                                       *)
(***************************************************************************)
EXTENDS Integers, Sequences, FiniteSets

CONSTANTS
  Lines,          \* LINE users
  NoLine,         \* the source of an event without a user
  Kinds,          \* what an event asks for
  Hooks,          \* requests being served
  Deliveries,     \* bodies LINE may send, sequences of events
  Limit           \* events of a user per life of his counter (30)

Event == [line : Lines, kind : Kinds]
Delivered == [line : Lines \cup {NoLine}, kind : Kinds]

ASSUME LimitAssumption == Limit \in Nat
ASSUME DeliveriesAssumption ==
  /\ NoLine \notin Lines
  /\ Deliveries \subseteq Seq(Delivered)

VARIABLES
  hook,        \* per request: its step, the events left, the count of the first of
               \* them, and the life of the counter it was counted in
  deliveries,  \* requests so far
  counter,     \* per user: the value of ratelimit:line:<user>, 0 when there is no key
  life,        \* per user: keys so far
  expiring,    \* users whose key has a time to live
  lost,        \* users one of whose keys was left without one
  admitted,    \* events let through by a count: [line, life, count, by]
  tasks        \* line:webhook tasks: [event, state, try]

hookVars == <<hook, deliveries>>
counterVars == <<counter, life, expiring, lost>>
webhookVars == <<hookVars, counterVars, admitted, tasks>>

Served == [step |-> "idle", left |-> <<>>, count |-> 0, life |-> 0]

WebhookInit ==
  /\ hook = [h \in Hooks |-> Served]
  /\ deliveries = 0
  /\ counter = [l \in Lines |-> 0]
  /\ life = [l \in Lines |-> 0]
  /\ expiring = {}
  /\ lost = {}
  /\ admitted = {}

Queued(e) == [event |-> e, state |-> "queued", try |-> 0]

At(h, step) == hook[h].step = step
Line(h) == Head(hook[h].left).line

\* The next event of the request.
NextEvent(job) == [Served EXCEPT !.step = "check", !.left = Tail(job.left)]

-----------------------------------------------------------------------------
(* Handler.                                                                 *)

\* A body whose signature or JSON is wrong is refused and leaves nothing.
Receive(h, d) ==
  /\ At(h, "idle")
  /\ deliveries' = deliveries + 1
  /\ hook' = [hook EXCEPT ![h].step = "check", ![h].left = d]
  /\ UNCHANGED <<counterVars, admitted, tasks>>

HasEvent(h) == At(h, "check") /\ hook[h].left # <<>>

\* An event of a group or a room has no user, and is passed over.
Skip(h) ==
  /\ HasEvent(h)
  /\ Line(h) = NoLine
  /\ hook' = [hook EXCEPT ![h] = NextEvent(hook[h])]
  /\ UNCHANGED <<deliveries, counterVars, admitted, tasks>>

\* 200, whatever became of the events.
Respond(h) ==
  /\ At(h, "check")
  /\ hook[h].left = <<>>
  /\ hook' = [hook EXCEPT ![h] = Served]
  /\ UNCHANGED <<deliveries, counterVars, admitted, tasks>>

\* INCR, which makes the key when there is none.
Counted(l) ==
  /\ counter' = [counter EXCEPT ![l] = @ + 1]
  /\ life' = [life EXCEPT ![l] = IF counter[l] = 0 THEN @ + 1 ELSE @]

Incr(h) ==
  /\ HasEvent(h)
  /\ Line(h) # NoLine
  /\ Counted(Line(h))
  /\ hook' = [hook EXCEPT ![h].step = IF counter'[Line(h)] = 1 THEN "expire" ELSE "decide",
                          ![h].count = counter'[Line(h)],
                          ![h].life = life'[Line(h)]]
  /\ UNCHANGED <<deliveries, expiring, lost, admitted, tasks>>

\* "Fail open": an error lets the event pass, whether Redis has counted it or not.
IncrFails(h) ==
  /\ HasEvent(h)
  /\ Line(h) # NoLine
  /\ \/ /\ Counted(Line(h))
        /\ lost' = IF counter[Line(h)] = 0 THEN lost \cup {Line(h)} ELSE lost
     \/ UNCHANGED <<counter, life, lost>>
  /\ hook' = [hook EXCEPT ![h].step = "enqueue"]
  /\ UNCHANGED <<deliveries, expiring, admitted, tasks>>

\* Mutant: the time to live is set by whoever reaches the limit.
ExpireAtLimit(h) ==
  /\ At(h, "expire")
  /\ hook' = [hook EXCEPT ![h].step = "decide"]
  /\ expiring' = IF hook[h].count > Limit THEN expiring \cup {Line(h)} ELSE expiring
  /\ UNCHANGED <<deliveries, counter, life, lost, admitted, tasks>>

Expire(h) ==
  /\ At(h, "expire")
  /\ hook' = [hook EXCEPT ![h].step = "decide"]
  /\ expiring' = expiring \cup {Line(h)}
  /\ UNCHANGED <<deliveries, counter, life, lost, admitted, tasks>>

\* "Ignore error": the key is left without a time to live.
ExpireFails(h) ==
  /\ At(h, "expire")
  /\ hook' = [hook EXCEPT ![h].step = "decide"]
  /\ lost' = lost \cup {Line(h)}
  /\ UNCHANGED <<deliveries, counter, life, expiring, admitted, tasks>>

\* Mutant: the count is compared as if it were the one before INCR.
DecideLate(h) ==
  /\ At(h, "decide")
  /\ IF hook[h].count - 1 > Limit
     THEN /\ hook' = [hook EXCEPT ![h] = NextEvent(hook[h])]
          /\ UNCHANGED admitted
     ELSE /\ hook' = [hook EXCEPT ![h].step = "enqueue"]
          /\ admitted' = admitted \cup
               {[line |-> Line(h), life |-> hook[h].life, count |-> hook[h].count, by |-> h]}
  /\ UNCHANGED <<deliveries, counterVars, tasks>>

\* A blocked event is dropped, without an answer: cmd/api gives the handler no client.
Decide(h) ==
  /\ At(h, "decide")
  /\ IF hook[h].count > Limit
     THEN /\ hook' = [hook EXCEPT ![h] = NextEvent(hook[h])]
          /\ UNCHANGED admitted
     ELSE /\ hook' = [hook EXCEPT ![h].step = "enqueue"]
          /\ admitted' = admitted \cup
               {[line |-> Line(h), life |-> hook[h].life, count |-> hook[h].count, by |-> h]}
  /\ UNCHANGED <<deliveries, counterVars, tasks>>

\* An error the queue never heard of looks like a success, but for the log.
Enqueue(h) ==
  /\ At(h, "enqueue")
  /\ tasks' = Append(tasks, Queued(Head(hook[h].left)))
  /\ hook' = [hook EXCEPT ![h] = NextEvent(hook[h])]
  /\ UNCHANGED <<deliveries, counterVars, admitted>>

\* An error is logged, and the loop goes on.
EnqueueFails(h) ==
  /\ At(h, "enqueue")
  /\ hook' = [hook EXCEPT ![h] = NextEvent(hook[h])]
  /\ UNCHANGED <<deliveries, counterVars, admitted, tasks>>

\* The API process dies: LINE may send the body again.
HookDies(h) ==
  /\ ~ At(h, "idle")
  /\ lost' = IF At(h, "expire") THEN lost \cup {Line(h)} ELSE lost
  /\ hook' = [hook EXCEPT ![h] = Served]
  /\ UNCHANGED <<deliveries, counter, life, expiring, admitted, tasks>>

\* Redis drops a key whose time is over.
CounterEnds(l) ==
  /\ l \in expiring
  /\ counter' = [counter EXCEPT ![l] = 0]
  /\ expiring' = expiring \ {l}
  /\ UNCHANGED <<hookVars, life, lost, admitted, tasks>>

-----------------------------------------------------------------------------
HookStep(h) ==
  Respond(h) \/ Skip(h) \/ Incr(h) \/ Expire(h) \/ Decide(h) \/ Enqueue(h)

HookStepFails(h) == IncrFails(h) \/ ExpireFails(h) \/ EnqueueFails(h)

-----------------------------------------------------------------------------
(* Properties.                                                              *)

Request == [step : {"idle", "check", "expire", "decide", "enqueue"}, left : Seq(Delivered),
            count : Nat, life : Nat]

\* Every variable of the webhook has its type.
WebhookTypeOK ==
  /\ hook \in [Hooks -> Request]
  /\ \A h \in Hooks : hook[h].step \in {"expire", "decide", "enqueue"} =>
       hook[h].left # <<>> /\ Line(h) \in Lines
  /\ deliveries \in Nat
  /\ counter \in [Lines -> Nat]
  /\ life \in [Lines -> Nat]
  /\ expiring \subseteq Lines
  /\ lost \subseteq Lines
  /\ admitted \subseteq [line : Lines, life : Nat, count : Nat, by : Hooks]

\* ratelimit.go: however many processes serve a user's events, and whichever of them
\* fail or die between their commands, no life of his counter lets more than Limit
\* events pass, those aside that Redis could not count.
WindowHolds ==
  \A l \in Lines : \A k \in 1 .. life[l] :
    Cardinality({a \in admitted : a.line = l /\ a.life = k}) <= Limit

\* ratelimit.go: a user who is blocked is not blocked for ever, unless an EXPIRE of one
\* of his keys was lost: the counter goes back to nothing.
CountersEnd == \A l \in Lines : counter[l] > 0 ~> (counter[l] = 0 \/ l \in lost)

=============================================================================
