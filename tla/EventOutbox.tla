----------------------------- MODULE EventOutbox -----------------------------
(***************************************************************************)
(* The event log and its transactional outbox: Service.Append writes an    *)
(* event and an outbox row in one transaction (internal/ledger/events.go), *)
(* the Go relay (internal/events) and, in the legacy profile, the Node     *)
(* relay (src/modules/events) publish pending rows to NATS, and Replay     *)
(* feeds a projection from the log.                                        *)
(***************************************************************************)
EXTENDS Naturals, Sequences, FiniteSets, SequencesExt

CONSTANTS
  Appenders,     \* concurrent callers of Append
  GoRelays,      \* processes of cmd/outbox
  NodeRelays,    \* processes of the legacy outbox worker
  Namespaces,    \* tenants, each one token of a subject
  Topics,        \* outbox topics, as sequences of tokens
  PayloadKeys,   \* the key under which a producer's payload has its namespace
  TableColumns,  \* the columns of event_outbox
  BatchSize,     \* rows one drain fetches
  MaxEvents      \* bound on ids drawn from ledger_events and from event_outbox

ASSUME ProcessesAssumption == GoRelays \cap NodeRelays = {}
ASSUME BatchAssumption == BatchSize \in Nat \ {0}
ASSUME BoundAssumption == MaxEvents \in Nat
ASSUME NamespacesAssumption == Namespaces \subseteq STRING
ASSUME TopicsAssumption == \A t \in Topics : t \in Seq(STRING) /\ t # <<>>

VARIABLES
  events,      \* ledger_events: the committed [id, ns]
  nextEvent,   \* the sequence of ledger_events
  outbox,      \* event_outbox: the committed rows, by id
  nextRow,     \* the sequence of event_outbox
  drafts,      \* per appender: its uncommitted rows
  batch,       \* per relay: ids fetched and not processed yet
  marking,     \* per relay: the id it has published and not marked yet, or 0
  stream,      \* messages in JetStream: [row, subject]
  cursor,      \* per namespace: the last event id its projection has read
  projected    \* per namespace: the event ids its projection has applied

logVars == <<events, nextEvent, outbox, nextRow, drafts>>
relayVars == <<batch, marking, stream>>
replayVars == <<cursor, projected>>
vars == <<logVars, relayVars, replayVars>>

Relays == GoRelays \cup NodeRelays
Ids == 1 .. MaxEvents

\* What Append marshals ("namespace") and what the Go relay looks for.
AppendKey == "namespace"
RelayKey == "Namespace"

Absent == [status |-> "absent"]
NoDraft == [event |-> 0]

Init ==
  /\ events = {}
  /\ nextEvent = 1
  /\ outbox = [i \in Ids |-> Absent]
  /\ nextRow = 1
  /\ drafts = [a \in Appenders |-> NoDraft]
  /\ batch = [r \in Relays |-> {}]
  /\ marking = [r \in Relays |-> 0]
  /\ stream = {}
  /\ cursor = [n \in Namespaces |-> 0]
  /\ projected = [n \in Namespaces |-> {}]

-----------------------------------------------------------------------------
(* Append: event, outbox row when there is a topic, commit.                 *)

PendingRow(d) ==
  [status |-> "pending", event |-> d.event, ns |-> d.ns, topic |-> d.topic,
   key |-> d.key, bumped |-> FALSE]

\* <<>> stands for an empty OutboxTopic.
InsertEvent(a) ==
  /\ drafts[a] = NoDraft
  /\ nextEvent <= MaxEvents
  /\ \E n \in Namespaces, t \in Topics \cup {<<>>}, k \in PayloadKeys :
       drafts' = [drafts EXCEPT ![a] =
         [event |-> nextEvent, ns |-> n, topic |-> t, key |-> k, row |-> 0]]
  /\ nextEvent' = nextEvent + 1
  /\ UNCHANGED <<events, outbox, nextRow, relayVars, replayVars>>

\* Mutant: the outbox row is written outside the event's transaction.
InsertOutboxOutside(a) ==
  /\ drafts[a] # NoDraft
  /\ drafts[a].topic # <<>>
  /\ drafts[a].row = 0
  /\ outbox' = [outbox EXCEPT ![nextRow] = PendingRow(drafts[a])]
  /\ drafts' = [drafts EXCEPT ![a].row = nextRow]
  /\ nextRow' = nextRow + 1
  /\ UNCHANGED <<events, nextEvent, relayVars, replayVars>>

\* Mutant: an event without a topic gets an outbox row too.
InsertOutboxForAll(a) ==
  /\ drafts[a] # NoDraft
  /\ drafts[a].row = 0
  /\ nextRow <= MaxEvents
  /\ drafts' = [drafts EXCEPT ![a].row = nextRow]
  /\ nextRow' = nextRow + 1
  /\ UNCHANGED <<events, nextEvent, outbox, relayVars, replayVars>>

InsertOutbox(a) ==
  /\ drafts[a] # NoDraft
  /\ drafts[a].topic # <<>>
  /\ drafts[a].row = 0
  /\ nextRow <= MaxEvents
  /\ drafts' = [drafts EXCEPT ![a].row = nextRow]
  /\ nextRow' = nextRow + 1
  /\ UNCHANGED <<events, nextEvent, outbox, relayVars, replayVars>>

CommitAppend(a) ==
  LET d == drafts[a] IN
  /\ d # NoDraft
  /\ d.topic # <<>> => d.row # 0
  /\ events' = events \cup {[id |-> d.event, ns |-> d.ns]}
  /\ outbox' = IF d.row = 0 THEN outbox
               ELSE [outbox EXCEPT ![d.row] = PendingRow(d)]
  /\ drafts' = [drafts EXCEPT ![a] = NoDraft]
  /\ UNCHANGED <<nextEvent, nextRow, relayVars, replayVars>>

\* An error before commit, or a crash.
AbortAppend(a) ==
  /\ drafts[a] # NoDraft
  /\ drafts' = [drafts EXCEPT ![a] = NoDraft]
  /\ UNCHANGED <<events, nextEvent, outbox, nextRow, relayVars, replayVars>>

-----------------------------------------------------------------------------
(* Subjects.                                                                *)

BuildSubject(topic, ns) == IF Last(topic) = ns THEN topic ELSE Append(topic, ns)

\* natsOutboxPublisher appends the namespace always.
Subject(r, row) ==
  IF r \in GoRelays THEN BuildSubject(row.topic, row.ns) ELSE Append(row.topic, row.ns)

Wildcards == {"", "*", ">"}

\* Mutant: a topic is taken for a subject.
AnySubject(subject) == TRUE

IsNamespacedSubject(subject) == Len(subject) >= 3 /\ Last(subject) \notin Wildcards

\* What the consumer makes of a subject.
NamespaceOf(subject) == IF Last(subject) \in Wildcards THEN "" ELSE Last(subject)

-----------------------------------------------------------------------------
(* The relays.                                                              *)

Pending == {i \in Ids : outbox[i].status = "pending"}

\* SELECT ... WHERE status = 'pending' ORDER BY id LIMIT; an idle poll finds none.
FetchPending(r) ==
  /\ batch[r] = {}
  /\ batch' = [batch EXCEPT ![r] =
       {i \in Pending : Cardinality({k \in Pending : k < i}) < BatchSize}]
  /\ UNCHANGED <<logVars, marking, stream, replayVars>>

\* The rows of a batch are processed in the order of their ids.
IsNext(r, i) ==
  /\ i \in batch[r]
  /\ \A k \in batch[r] : i <= k
  /\ marking[r] = 0

\* The payload has its namespace where this relay looks for it, and the subject
\* is one its publisher takes.
Publishable(r, row) ==
  /\ row.key = IF r \in GoRelays THEN RelayKey ELSE AppendKey
  /\ IsNamespacedSubject(Subject(r, row))

\* An UPDATE that names a column the table does not have is an error, which the
\* Go relay logs and forgets; the Node relay writes through Prisma, which names
\* the columns the migrations create.
Update(r, i, row) ==
  outbox' = IF r \in NodeRelays \/ {"published_at", "last_error"} \subseteq TableColumns
            THEN [outbox EXCEPT ![i] = row]
            ELSE outbox

Done(r, i) == batch' = [batch EXCEPT ![r] = @ \ {i}]

GiveUpBatch(r) == batch' = [batch EXCEPT ![r] = {}]

\* When this UPDATE fails too, the Go relay goes on with the next row and the
\* exception takes the Node relay out of drainOnce.
BumpAttempts(r, i) ==
  /\ \/ /\ Update(r, i, [outbox[i] EXCEPT !.bumped = TRUE])
        /\ Done(r, i)
     \/ /\ UNCHANGED outbox
        /\ IF r \in GoRelays THEN Done(r, i) ELSE GiveUpBatch(r)
  /\ UNCHANGED <<events, nextEvent, nextRow, drafts, stream, replayVars>>

\* A payload without its namespace, or a subject the publisher refuses.
SkipRow(r, i) ==
  /\ IsNext(r, i)
  /\ ~ Publishable(r, outbox[i])
  /\ BumpAttempts(r, i)
  /\ UNCHANGED marking

Streamed(i) == \E m \in stream : m.row = i

PublishRow(r, i) ==
  /\ IsNext(r, i)
  /\ Publishable(r, outbox[i])
  /\ stream' = stream \cup
       {[row |-> i, subject |-> Subject(r, outbox[i])]}
  /\ marking' = [marking EXCEPT ![r] = i]
  /\ UNCHANGED <<logVars, batch, replayVars>>

\* Mutant: the error of a publish is dropped, and the row is marked.
PublishIgnored(r, i) ==
  /\ IsNext(r, i)
  /\ Publishable(r, outbox[i])
  /\ marking' = [marking EXCEPT ![r] = i]
  /\ UNCHANGED <<logVars, batch, stream, replayVars>>

\* NATS does not take the message.  The Go relay bumps attempts; the Node
\* publisher swallows the error and its relay goes on to mark the row.
PublishFails(r, i) ==
  /\ IsNext(r, i)
  /\ Publishable(r, outbox[i])
  /\ IF r \in GoRelays
     THEN /\ BumpAttempts(r, i)
          /\ UNCHANGED marking
     ELSE /\ marking' = [marking EXCEPT ![r] = i]
          /\ UNCHANGED <<logVars, batch, stream, replayVars>>

\* The UPDATE to published, which a lost connection may also fail.
MarkPublished(r, i) ==
  /\ i = marking[r]
  /\ Update(r, i, [outbox[i] EXCEPT !.status = "published"])
  /\ marking' = [marking EXCEPT ![r] = 0]
  /\ Done(r, i)
  /\ UNCHANGED <<events, nextEvent, nextRow, drafts, stream, replayVars>>

\* The Go relay logs the error; the Node relay's catch takes it for a failed
\* publish and bumps attempts.
MarkFails(r, i) ==
  /\ i = marking[r]
  /\ marking' = [marking EXCEPT ![r] = 0]
  /\ IF r \in GoRelays
     THEN /\ Done(r, i)
          /\ UNCHANGED <<logVars, stream, replayVars>>
     ELSE BumpAttempts(r, i)

RelayCrash(r) ==
  /\ batch[r] # {}
  /\ batch' = [batch EXCEPT ![r] = {}]
  /\ marking' = [marking EXCEPT ![r] = 0]
  /\ UNCHANGED <<logVars, stream, replayVars>>

-----------------------------------------------------------------------------
(* Replay by a projection builder that keeps the last id it has seen.       *)

\* Mutant: every tenant's events are read.
AllUnread(n) == {e \in events : e.id > cursor[n]}

Unread(n) == {e \in events : e.ns = n /\ e.id > cursor[n]}

Replay(n) ==
  LET read == {e \in Unread(n) : Cardinality({f \in Unread(n) : f.id < e.id}) < BatchSize}
      ids == {e.id : e \in read}
  IN  /\ projected' = [projected EXCEPT ![n] = @ \cup ids]
      /\ \E seen \in ids :
           /\ \A i \in ids : i <= seen
           /\ cursor' = [cursor EXCEPT ![n] = seen]
      /\ UNCHANGED <<logVars, relayVars>>

-----------------------------------------------------------------------------
AppendStep(a) ==
  \/ InsertEvent(a) \/ InsertOutbox(a) \/ CommitAppend(a) \/ AbortAppend(a)

RelayStep(r) ==
  \/ FetchPending(r)
  \/ \E i \in Ids :
       \/ SkipRow(r, i)
       \/ PublishRow(r, i)
       \/ PublishFails(r, i)
       \/ MarkPublished(r, i)
       \/ MarkFails(r, i)

Next ==
  \/ \E a \in Appenders : AppendStep(a)
  \/ \E r \in Relays : RelayStep(r) \/ RelayCrash(r)
  \/ \E n \in Namespaces : Replay(n)

Spec == Init /\ [][Next]_vars

\* The relays loop for ever (and are restarted), and neither NATS nor PostgreSQL
\* refuses every attempt: what is tried again and again succeeds in the end, if it
\* can succeed at all.
Fairness ==
  \A r \in Relays :
    /\ WF_vars(RelayStep(r))
    /\ \A i \in Ids :
         /\ SF_vars(SkipRow(r, i))
         /\ SF_vars(SkipRow(r, i) /\ outbox'[i].bumped)
         /\ SF_vars(PublishRow(r, i))
         /\ SF_vars(MarkPublished(r, i))

FairSpec == Spec /\ Fairness

-----------------------------------------------------------------------------
(* Properties.                                                              *)

Row == [status : {"pending", "published"}, event : Ids, ns : Namespaces, topic : Topics,
        key : PayloadKeys, bumped : BOOLEAN]

Draft == [event : Ids, ns : Namespaces, topic : Topics \cup {<<>>}, key : PayloadKeys,
          row : Ids \cup {0}]

\* Every variable has its type.
TypeOK ==
  /\ events \subseteq [id : Ids, ns : Namespaces]
  /\ nextEvent \in 1 .. MaxEvents + 1
  /\ outbox \in [Ids -> Row \cup {Absent}]
  /\ nextRow \in 1 .. MaxEvents + 1
  /\ drafts \in [Appenders -> Draft \cup {NoDraft}]
  /\ batch \in [Relays -> SUBSET Ids]
  /\ marking \in [Relays -> Ids \cup {0}]
  /\ \A m \in stream : m.row \in Ids /\ m.subject \in Seq(STRING)
  /\ cursor \in [Namespaces -> Nat]
  /\ projected \in [Namespaces -> SUBSET Ids]

Rows == {i \in Ids : outbox[i] # Absent}

\* Append's one transaction: an outbox row always has its committed event, and
\* no two rows share one.
OutboxRowsHaveEvents ==
  /\ \A i \in Rows : [id |-> outbox[i].event, ns |-> outbox[i].ns] \in events
  /\ \A i, k \in Rows : outbox[i].event = outbox[k].event => i = k

\* outbox_relay.go, processRow: a Go relay goes on to mark a row only when its
\* message is in the stream, whatever fails, crashes or runs beside it.  (The Node
\* publisher drops the error of its publish, so its relay may mark any row.)
MarkingIsStreamed ==
  \A g \in GoRelays : marking[g] # 0 => Streamed(marking[g])

\* nats_publisher.go: the consumer files a message under the namespace of the
\* row it came from, so no tenant reads another's events.
StreamIsFenced ==
  \A m \in stream :
    /\ NamespaceOf(m.subject) = outbox[m.row].ns
    /\ Len(m.subject) >= 3

\* events.go: the payload embeds the metadata the relay needs to publish the row.
\* Every row Append commits reaches the stream.
AppendedRowsAreStreamed ==
  \A i \in Ids :
    i \in Rows /\ IsNamespacedSubject(BuildSubject(outbox[i].topic, outbox[i].ns))
      ~> Streamed(i)

\* outbox_relay.go, DrainOnce: rows that are not published have their attempts
\* bumped, so they surface in alerting.  Every row is streamed or counted.
RefusedRowsAreCounted ==
  \A i \in Ids : i \in Rows ~> Streamed(i) \/ (i \in Rows /\ outbox[i].bumped)

-----------------------------------------------------------------------------
(* The inductive invariant behind the safety properties.                    *)

Open(a) == drafts[a] # NoDraft

\* Ids come from sequences: every id in use is below the next one, and what a
\* draft has drawn nobody else has.
DraftsAreFresh ==
  /\ \A e \in events : e.id < nextEvent
  /\ \A i \in Rows : outbox[i].event < nextEvent /\ i < nextRow
  /\ \A a \in Appenders : Open(a) =>
       /\ drafts[a].event < nextEvent
       /\ \A i \in Rows : outbox[i].event # drafts[a].event
       /\ drafts[a].row < nextRow
       /\ drafts[a].row # 0 => outbox[drafts[a].row] = Absent /\ drafts[a].topic # <<>>
       /\ \A b \in Appenders \ {a} : Open(b) =>
            /\ drafts[b].event # drafts[a].event
            /\ drafts[a].row # 0 => drafts[b].row # drafts[a].row

\* Relays work on rows that exist.
RelaysHoldRows ==
  \A r \in Relays : batch[r] \subseteq Rows /\ (marking[r] # 0 => marking[r] \in Rows)

StreamHasRows == \A m \in stream : m.row \in Rows

IInv ==
  /\ TypeOK
  /\ DraftsAreFresh
  /\ RelaysHoldRows
  /\ StreamHasRows
  /\ MarkingIsStreamed
  /\ OutboxRowsHaveEvents
  /\ StreamIsFenced

-----------------------------------------------------------------------------
(* What the log and its projections keep from step to step.                 *)

Content(row) == <<row.event, row.ns, row.topic, row.key>>

\* The log is append-only, and a row keeps what Append wrote into it: relays touch
\* only its status and its attempts.
LogIsAppendOnly ==
  [][/\ events \subseteq events'
     /\ \A i \in Rows : i \in Rows' /\ Content(outbox'[i]) = Content(outbox[i])]_vars

\* No two committed events share an id, nor has a draft drawn one of theirs.
EventsAreApart ==
  /\ \A e, f \in events : e.id = f.id => e = f
  /\ \A a \in Appenders : Open(a) => \A e \in events : e.id # drafts[a].event

\* Replay feeds a projection committed events of its own namespace only, and its
\* cursor stands at the last of them.
ProjectionsFollowTheLog ==
  \A n \in Namespaces :
    /\ \A i \in projected[n] : [id |-> i, ns |-> n] \in events /\ i <= cursor[n]
    /\ cursor[n] # 0 => cursor[n] \in projected[n]

\* Replay never feeds an event twice: the cursor only grows, and what a step
\* projects is beyond it.
ReplayGoesForward ==
  [][\A n \in Namespaces :
       /\ cursor[n] <= cursor'[n]
       /\ \A i \in projected'[n] \ projected[n] : i > cursor[n]]_vars

=============================================================================
