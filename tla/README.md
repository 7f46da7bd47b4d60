# Verification of the LINE accounting agent

The repository is a LINE chat bot that keeps the books of small Thai households and
businesses: a user types "กาแฟ 60" or sends a picture of a transfer slip, the bot decides
whether this is income or expense, asks when it is not sure, writes a double-entry ledger in
PostgreSQL and answers with a card. The running system is `go-core/` (Go); `src/` inside the
repository is the TypeScript service it replaced, of which only the outbox worker can still be
started beside it (profile `legacy-node` of `docker-compose.prod.yml`).

This directory models the way of an event from the webhook to the books and back: the webhook
with its rate limit, the queue, the dispatcher's conversation, identities and pictures, the
ledger writer, the event log with its outbox, the reports, and the memory that grows beside
them (conversation, summaries, knowledge graph) with its deletion. Paths below are relative to
`go-core/internal/` unless they say otherwise.

## 1. Inventory

| Component | State | Operations | Interacts with | What is hard | What makes it correct |
|---|---|---|---|---|---|
| Ledger writer (`ledger/writer.go`, `ledger/projects.go`) | `transactions`, `journal_entries` and lines, `chart_accounts`, allocations, `projects`, `ledger_events` | create, update, delete a transaction; create, update, delete a project | called by the dispatcher and the LIFF API, several at a time | interleaved SQL transactions at READ COMMITTED, lost commits, retries, unique indexes, locks in two orders | the posted entries, the event log and the rows tell one story; one record per message; a deletion is final; no deadlock |
| Business and household ledger (`ledger/business*.go`, `ledger/household_summary.go`) | rows of their own tables, the owner's journal | record, create, add a member | dispatcher, LIFF | no causation id: retries write twice; a household and its owner are two statements | every record is balanced; membership is checked |
| Reports (`ledger/summary.go`, `dashboard.go`, `business.go`, `liff/`) | none; they read what the writer commits | dashboard, summaries of a day or a month, profit of a business | dispatcher, LIFF | ten statements without a transaction, each with its own filter, grouping and cut; days made into timestamps in several ways | the parts of one report agree; each record belongs to its day |
| Event log, outbox, relays (`ledger/events.go`, `events/`) | `ledger_events`, `event_outbox`, JetStream | Append, FetchPending, publish, mark, Replay | NATS, consumers, the Node relay on the same table | crash between publish and mark, two relays, ids drawn before commit, rows nobody can publish | an outbox row has its event; nothing is marked unsent; nothing crosses a tenant |
| Queue (`queue/`) | asynq tasks in Redis | enqueue, take, done, retry, archive | webhook, dispatcher, memory jobs | redelivery by LINE, retries after a partial success, crashes | a finished task was answered; every task ends |
| Dispatcher (`dispatcher/`) | none of its own | one handler per kind of message | parser, memory, writer, LINE client | the pending question is read, used and cleared in three calls | nothing unsure is recorded unasked; a card has a record |
| Webhook (`line/webhook.go`, `line/ratelimit.go`) | rate-limit counters in Redis | signature, rate limit, enqueue | LINE, queue | INCR and EXPIRE are two commands, several processes count at once, fail open | a window lets its limit pass and no more; nobody stays blocked |
| Identities (`users/`) | `users`, `agents` | resolve or create | dispatcher | first messages of one user side by side, an unknown COMMIT | one LINE user is one identity, and only he is |
| Pictures (`dispatcher`, `memory`, `media/`, `storage/`, `agents/`, `vision/`) | objects, `stored_images`, `slip_records` | upload, keep, read by a model, ask, show | three stores, the model gateway | each store fails on its own; fallbacks of the gateway | a slip or a link has its picture; a picture goes back to its sender only |
| Conversation memory (`memory/`) | Mongo collections: messages, summaries, pending action, images, slips, profiles | save, compact, pending action, slips | dispatcher, brain | upsert without a unique index; a compaction counts, finds, summarises and marks in four queries | a message leaves the history behind a summary; of those only what a full summary had no room for is lost |
| Brain (`brain/`) | wiki pages, aliases, edges, embeddings, retrieval cache | extract, upsert, link, retrieve, reflect | model gateway, Redis | the dedup key is set before the work; goroutines nobody waits for; late cache fills | what was said is extracted once; nothing is lost but by the user's deletion |
| PDPA (`pdpa/`) | all stores | delete, export | worker | deletes in parallel without a transaction, beside a running worker | a deletion reported done is done |
| LIFF pages, LINE client, web search, commands, config, metrics, Thai calendar | – | wiring, I/O | – | – | – |

`PROJECT.json` lists every component with its status, and each hazard at the line where it bites.

## 2. Modules

| Module | Models | Corresponds to |
|---|---|---|
| `LedgerPromise` | what the ledger promises its callers: row, posted entries and the memory of recorded messages change together | the abstract specification of the writer; `ChatAccounting` uses it as its ledger |
| `PersonalLedger` | the writer, one action per group of statements that reads or waits on what others write; uncommitted writes sit in a draft | `ledger/writer.go`, `ledger/projects.go`, migrations 001-003 |
| `PersonalLedgerInv`, `PersonalLedgerProofs`, `PersonalLedgerPromise` | its inductive invariant, the theorems about its states, and those about its log and its refinement of `LedgerPromise` | |
| `LedgerReports` | the dashboard and the summaries, statement by statement, over books that are written meanwhile | `ledger/summary.go`, `dashboard.go`, `business.go`, `business_management.go`, `liff/handler.go` (ranges) |
| `LedgerReportsInv`, `LedgerReportsProofs` | the invariant of the books and of a report, and the theorems | |
| `EventOutbox`, `EventOutboxProofs` | Append, the Go relay, the Node relay, JetStream, a projection fed by Replay | `ledger/events.go`, `events/`, `src/modules/events/` |
| `ChatAccounting`, `ChatAccountingProofs` | queue, dispatcher, pending action and reply of one LINE user, over `LedgerPromise` | `queue/`, `dispatcher/dispatcher.go`, `memory/service.go` 262-336, `line/client.go` |
| `LineWebhook` | requests, their events, the rate limit, the enqueue | `line/webhook.go`, `line/ratelimit.go` |
| `ImageIntake` | a worker's identity lookup and what it does with a picture | `users/`, `dispatcher/` (images), `agents/gateway.go`, `vision/`, `memory/` (images, slips), `media/`, `storage/` |
| `LineIntake`, `LineIntakeProofs` | both composed by the queue, with processes that die | `queue/`, `cmd/api`, `cmd/worker` |
| `ConversationMemory` | turns of a conversation and the compaction tasks | `memory/service.go` |
| `KnowledgeBrain` | extraction tasks, the graph, embeddings, the retrieval cache | `brain/` |
| `NamespaceMemory`, `NamespaceMemoryProofs` | both under one worker that may die, and the deletion of the namespace beside it | `pdpa/service.go`, `cmd/worker` |
| `SumTheorems` | lemmas about sums over finite sets, which the proofs about the ledger and its reports use | |
| `MC*` | instances for TLC: small inputs, loads and symmetry | |

Who composes whom: `ChatAccounting` instantiates `LedgerPromise`, which `PersonalLedger` is shown
to implement; `NamespaceMemory` extends `ConversationMemory` and `KnowledgeBrain`; `LineIntake`
extends `LineWebhook` and `ImageIntake`. The three conversations of the worker with its
user — accounting, pictures, memory — share only the queue, and each composition has its own copy
of it with the same retries.

Definitions whose comment starts with "Mutant" are the same definitions with a plausible bug.
They are used by no specification; each shows that one of the properties below can fail.

### PersonalLedger

A session is a caller with a PostgreSQL transaction. `pc` is the statement it runs next, `draft`
its uncommitted writes, `rowLock` and `cashLock` the row locks that order sessions: `SELECT … FOR
UPDATE` on the transaction row, and the upsert of the namespace's cash account, which every
journal entry needs. A create runs lookup → insert → accounts → journal → validate → allocate →
event → commit; an update lock → validate → rewrite → accounts → journal → allocate → event →
commit; a delete lock → rewrite → allocate → event → commit. `Fail` ends a call at any statement: the rollback of an
error or a crash, and at commit also the case where COMMIT took effect and its answer was lost.
Unique indexes (`journal_entries_ns_cause_uniq`, `ledger_events_ns_cause_tx_uniq`) are the guards
`JournalCauseTaken` and `RecordedAs`. Amounts of rows are whole satang; the lines of an allocation are
in tenths of a satang (`AllocInputs`), because `validateAllocations` sums and tests the floats of
the request and the NUMERIC(12,2) column rounds each inserted line on its own afterwards
(`Rounded`). The amount they are tested against is a float too, any of those the column stores as
the row's satang (`StoredAs`). The comparison `sum - txAmount > 0.01` may go either way at exactly one
satang, so both outcomes are allowed there. The statements on `projects` write their event afterwards with the error dropped
(`owes`, `AppendProjectEvent`).

### LedgerReports

A report is a `request` (a book and a range), a `step` (the statement it runs next) and what the
statements before it have `read`; `After` is the order in which `DashboardWithRange` and
`BusinessDashboard` run them. Each statement is an expression over the committed rows, entries and
projects, which the writer's actions change in between; `overtaken` remembers whether a write came
between the first and the last statement, and whether it was only a new record. Days are numbers
and a day has a few instants: its midnight, a moment after it and its last second. That is what
tells the ranges apart that the code builds: up to the last second (`LocalDayRange`), up to the
last nanosecond, which PostgreSQL rounds up to the next midnight (`NanoRange`), in seconds
(`SecondRange`). The allocations of a row are what the writer lets pass: at most one satang and half a
satang per rounded line beyond the amount (`Fits`, `Slack`, the bound theorem `Tolerance` proves of the
writer). The summaries of the chat list their largest categories only (`SummaryLimit`) and pass over rows
without one. `PresetRange` has the presets of the web app, the shifting weeks and quarters
among them.

### EventOutbox

`Append` writes an event and, with a topic, an outbox row in one transaction. Ids are drawn from
sequences before the commit. A relay fetches a batch, publishes row by row and marks each row
afterwards; nothing claims a row, so relays overlap. The Go relay looks for the payload key
"Namespace" and updates the columns `published_at` and `last_error`; `PayloadKeys` and
`TableColumns` say what producer and table use. The Node relay gives up its batch at the first
error of its store and marks a row after a publish whose error it has swallowed.
Every run has the columns of the migrations, `"publishedAt"` and `"lastError"`: there no update of the Go
relay succeeds. The key of every producer is "namespace"; `outbox_safety` also has rows with the key
"Namespace", which only the relay's own tests (`events/relay_test.go`) write, so that its steps behind the
check of the key are seen as well. The cache invalidation after Append changes no table and is
left out. No command of
`go-core` calls Append or Replay today; they are modelled as the API the package offers.

### ChatAccounting

A message has one of the sayings the dispatcher tells apart (`Saying`): sure, unsure, without an
amount, an amount alone, a slip, a choice, a refusal, a text for the household or the business, a
sticker, anything else. A slip has the direction the vision model read, or none, and the amount it
read, or 0: `handleImage` keeps both in the question, and an amount that is not positive counts as
none, so the next amount the user types is recorded in the slip's direction. A picture that is read
a second time is taken to give the same reading. A worker's `at` is the call its handler makes next: `dispatch`, `save`
and `insert` (the upsert of the question), `write` or `share`, `clear`, `card`, `reply`. Between
two calls other workers run, the process may crash, and each call may fail the way the code lets
it: errors of the pending action are logged, an error of the write becomes the answer "failed", an
error of the card leads to a text, an error of that text is an error of the task. `pending` holds
documents per inserting worker, because `pending_actions` has no unique index and two upserts may
both insert. A document past its TTL of ten minutes is `Expired`: reads skip it, the upsert does
not. `spent` is the set of reply tokens LINE has taken; a token may be taken and the response lost.

The write is the action of `LedgerPromise`: what `PersonalLedger` shows of the writer is what this
module relies on.

### LineWebhook, ImageIntake and LineIntake

`hook` is a request being served: its step, the events left, and the count its INCR returned.
`counter`, `life` and `expiring` are the Redis key `ratelimit:line:<user>`, which of its lives it
is in, and whether it has a time to live; INCR and EXPIRE are two actions, either of which may fail
(`IncrFails` lets the event pass, as `ratelimit.go` does). `Enqueue` appends to `tasks`, its error
is logged, and the request is answered 200 all the same.

A worker's `work` is the step of `ResolveOrCreateLineUser` and then of `handleImage`,
`replyLatestImage` or `analyzeLatestImage`, with what it holds: the id and namespace it resolved,
the object it stored, whether the row could be inserted, and which of the gateway's fallbacks it is in
(`/structured`, the schema in a prompt, a plain chat, each with one model after the other).
The unique constraints of `users` and `agents` are the locks `MayRegister`: who registers the same
user waits for the first to commit. A fresh id is drawn even when the upsert then finds the row.

`LineIntake` adds the queue: `Take`, `Finish`, `Retried`, the death of the API or of the worker, and
a task that is late and only answers.

### ConversationMemory, KnowledgeBrain and NamespaceMemory

A turn is its `createdAt`, drawn before the insert (`DrawTurn`, `SaveTurn`), so turns arrive out of
order. A compaction is `Count`, `Find`, `InsertSummary`, `MarkCompacted`; the update of many
documents may fail half way. A summary is about the turns its compaction `read`, but its `text` stops at
12000 bytes: it has the oldest of them, all or at least `SurelyFit`, since a turn is cut to 4000 bytes
when it is saved. All that were read are marked.

A page is known by its slug and its content by the number of the upsert that wrote it. An
extraction is `Dedup` (SETNX), `Ask`, a `StorePage` per page and a `LinkPages` per edge; each stored page
starts goroutines that embed it and invalidate the cache (`embedding`, `invalidating`). `kept` is
the map of ids an extraction may link, in which a deleted page's id is good for nothing: the
foreign keys refuse it. A reader goes through the cache, the seeds and their neighbours,
and fills the cache last, so a fill may come behind the invalidation of what it shows.

`NamespaceMemory` adds `DeleteAll`: the stores are deleted in any order, each perhaps with an error
that is remembered while the others go on; and `Crash`, which takes the goroutines and returns the
tasks to the queue. The stores of `DeleteAll` that no modelled task touches are not shown.

## 3. Runs

| Run | States | Question | Result |
|---|---|---|---|
| `ledger_edits` | 637k | Three sessions record duplicates of two messages, edit and delete, with a failure at any statement | one record per message, answers agree, the index of `ledger_events` is never hit, books match rows, the log rebuilds them, deletion is final, `LedgerPromise` is implemented |
| `ledger_allocations` | 463k | Edits of amounts and of allocations race, projects are deleted | total within the test's satang and half a satang per rounded row of the amount; every call returns |
| `outbox_safety` | 909k | Two appenders, two Go relays and a Node relay, bad topics, crashes | rows have events, tenants stay apart, no Go relay marks what is not streamed, a projection reads its own events only |
| `outbox_columns` | – | Are the rows the Go relay refuses counted? | violated: finding |
| `outbox_payload_key` | – | Are the rows Append writes published? | violated: finding |
| `chat_records` | 950k | Two workers, three messages, any order, crashes and redelivery | records are agreed; done means answered |
| `chat_tasks` | 897k | One worker, every saying, retries, fairness | cards are backed; every task ends; the inductive invariant holds |
| `chat_claim` | – | Does a card name what was recorded? | violated: finding |
| `memory` | 702k | Compactions, extractions, a reader, a crash and a deletion of one namespace | what leaves the history is in a summary, or behind the cut of a full one; one extraction per life of a dedup key; a deletion reported done is done, and nothing else takes anything out; an undisturbed compaction leaves the tail; every task ends |
| `memory_tail` | – | Is there always a live tail? | violated: finding |
| `intake` | 729k | Requests, counters, first messages, pictures, retries and deaths | the limit holds; one user is one identity; slips and links have their picture, which goes to its sender; counters end |
| `books` | 1.85M | Reports around midnight while the books are written | the parts of a report agree, grow with new records, and a day has its records |

### Findings

Each is quoted in `PROJECT.json`.

* Append marshals `"namespace"` and the Go relay looks for `"Namespace"`: it never publishes a
  row of Append (`outbox_payload_key`).
* The Go relay's updates name `published_at` and `last_error`; the migrations create `"publishedAt"` and
  `"lastError"`. Each update is an error that is logged and dropped: no row is ever bumped, so none surfaces in alerting,
  and none is marked, so what can be published is published at every poll and the first 200 rows keep
  the others out (`outbox_columns`; with columns of the relay's names the same property holds there).
* An answer to a question is tried again after its record was made; the pending action it finds
  now belongs to another question. The writer returns the old transaction and the card names the
  new amount, which nobody recorded (`chat_claim`).
* Two compactions of one namespace: the second counts before the first marks, its find then reaches
  into the newest messages, and the history of the next prompt is short or empty
  (`memory_tail`). `RememberedUntilDeleted` holds — they are in a summary, or behind its cut — but the
  "live tail" the comment speaks of is not always there. `TailIsLeft` states what does hold.

### Divergences seen and not run

Ledger and events:

* A project's event is a second statement whose error is dropped (`projects.go:133`);
  `PROJECT_ACCOUNTING_DESIGN.md:30` says every mutation is logged.
* `PROJECT_ACCOUNTING_DESIGN.md:8` bounds allocations by the amount. The code accepts one satang
  more (`projects.go:478`) and rounds each line afterwards (`projects.go:494-497`): three lines of 0.005 on a
  record of 0.01 are stored as 0.03. `AllocationsWithinTolerance` states what the code does.
* Replay reads above the last id, and ids are drawn before commit: an event that commits late is
  never read.
* `src/modules/events/nats-publisher.ts` logs a failed publish and returns, so the Node relay
  marks rows that never reached the stream, where `outbox-relay.service.ts:10-12` says failures bump
  attempts. `MarkingIsStreamed` is claimed for Go relays.
* A relay that dies between publish and mark publishes again: delivery is at least once, where
  `prisma/schema.prisma` speaks of exactly once.
* The sale and the purchase of a business ignore the time the caller gives. `CreateBusiness`
  scans a timestamp into a string: the row is inserted and an error reported.
* The SQL of the household ledger uses columns the schema does not have, and inserts a household
  and its owner in two statements without a transaction (`household_summary.go:118`).

Reports:

* A record in the last second of a day is in no summary of a day, nor, at the end of a month, of
  the month (`summary.go:14-15`); `EachDayOnce` states it.
* The ranges of the dashboard end in nanoseconds, which PostgreSQL rounds up: a record at the next
  midnight counts in the totals, and the cashflow passes over it (`Beyond`).
* The cashflow of a range longer than a year is cut to 365 days while its totals are not.
* On days 8 to 13 of a range the week before has fewer days than the week it is compared with.
* The rows of the dashboard and their allocations are two statements; an error of the cost of
  goods becomes zero.

Chat and intake:

* `line/client.go:444` asks callers not to retry a reply, yet a failed card is followed by a text
  with the same token and the queue tries failed tasks again.
* The causation id kept with a pending action is never read, and that of an extraction job is
  a fresh uuid at every attempt.
* A text for the household of a user with several households is kept as a question about the
  user's own books, and the answer records it there (`dispatcher.go:1764`).
* A blocked user gets no answer: `webhook.go:112` logs that a friendly reply is sent, but
  `cmd/api` passes no client. An event whose enqueue fails is answered 200 and never delivered again.
* `AnalyzeImage` turns every failure into words, so the branch for a failed reading is never taken.
* A slip that is read without an amount keeps the direction of the vision model (`dispatcher.go:719-752`): the
  next amount the user types is recorded in it, although he never chose one. `RecordsAreAgreed` has
  this case as its only exception.

Memory, brain and deletion:

* `models.go:31-33` says that a message is compacted after it has been folded into a summary. The text of a
  summary stops at 12000 bytes (`service.go:677-684`) and all messages read are marked (`service.go:706-713`):
  what the cut leaves out is in no history and no summary. `RememberedUntilDeleted` states how far that
  goes: the turns behind the cut of a full summary, never one of its oldest.
* `cache.go:74-75` says that an upsert or a link never serves stale data. The invalidation is a goroutine
  behind the commit, and a reader that missed before may store its old answer behind that (`FillCache`): the
  answer is stale until its key ends.
* The dedup key of an extraction is set before the model is asked: the retry of a failed one finds it
  and does nothing for 300 seconds.
* An older embedding goroutine may overwrite the embedding of a newer content.
* The prompt's context has only the newest summary. Retrieve has no caller in the Go product; the
  response cache of the gateway is never used.
* `DeleteAll` omits transactions, journals, projects, pending actions, stored images, agent
  sessions and households. Keys of the brain carry a hash of the namespace, so the scan for the
  namespace's name misses them. Queued tasks keep their text, and write it after the deletion.

### Bounds

* Ledger: one or two transactions and two or three sessions. Conflicts are between two sessions on one
  row or one cause; the third session lets a duplicate meet a winner and a loser at once. Amounts
  {0, 1} or {1, 2}: refused, old and new value. `MaxEvents` = 4 ids (3 with allocations) allow a create, two edits and a lost
  id. Allocation lists, in tenths of a satang: a line without effect and one that rounds to nothing, one line too
  large for the smaller amount, two lines whose rows exceed an amount of one satang by two, a project twice.
* Outbox: two rows, batch size two, two appenders, two Go relays and a Node relay. Every race of the relays is
  about one row; a second row gives the batch an order, and a bad row fills half of it. The runs of the findings
  have one row and one relay, which is all they need.
* Chat: `chat_records` has two workers, three tasks and three messages (a question, an answer and a
  third message to disturb them), with `MaxRetry` 0, because a redelivered message plays the part
  of a retry; one of the slips there has a direction and no amount. `chat_tasks` and `chat_claim` have retries and one worker. The code's limit is three
  retries; one is enough for "an attempt after a partial success". The proofs cover all values.
* Memory and intake: a behaviour takes one of a few `Loads` or `Agendas`, each of which lets two or
  three things meet and leaves the others out: two compactions of a long conversation with a
  crash, two tasks of one text, a reader beside an extraction, a deletion beside either; two
  requests of one user with a death, an event on its whole way, first messages before two workers,
  a picture beside a question for the newest, a picture before another user's question
  (`MCNamespaceMemory`, `MCLineIntake`). Components that a load leaves out touch none of the
  variables the others use, and the invariants are proved for loads of any size. `SurelyFit` is 2: three turns
  of 4000 bytes with their roles are longer than 12000, two are not. `Threshold` 3 and `Tail` 1 stand
  for 40 and 12, `Limit` 2 for 30 events, one model for the gateway's list.
* Books: two transactions, three writes, five drafts chosen around midnight and the end of a
  month, all nine presets and two ranges of one's own, one the wrong way round. The limits on what is
  listed are small enough for each to be reached (`SummaryLimit` 1 stands for five categories).
* Bounds in guards: `MaxEvents` and `MaxMutations` (`PersonalLedger`), `MaxTurns`, `MaxUpserts`,
  `MaxWindows`, `MaxRetrievals` and `Loads` (`NamespaceMemory`), `MaxUsers`, `MaxObjects` and `Agendas`
  (`LineIntake`), `MaxWrites` (`LedgerReports`). They cap sequences the code does not cap; all other
  sizes are those of the constant sets.
  `PersonalLedger` stutters explicitly (`Exhausted`) when the ids are used up, and a report may always be asked
  for, so deadlock is checked there. The chat, memory and intake runs stop when their tasks are used up, hence
  `CHECK_DEADLOCK FALSE`; that no task stays behind is what their liveness properties say.

### Fairness

* `PersonalLedger`: a running session goes on (weak fairness); lock steps are strongly fair, since
  PostgreSQL queues the waiters of a row lock in order of arrival.
* `EventOutbox`: a relay loops until its context ends and the container restarts it
  (`restart: unless-stopped`), hence weak fairness of its step. Strong fairness of publish, skip,
  mark and bump says that neither NATS nor PostgreSQL refuses every attempt of what can succeed at all;
  without it nothing can be promised of a queue in front of them. Only the two findings about the relay use it.
* `ChatAccounting`, `NamespaceMemory`, `LineIntake`: weak fairness of the steps of a worker, a request
  or a task: asynq's server takes tasks while it runs. A crash is a step like another and uses up
  a try. No fairness is assumed of successes: a task may fail each time and then ends in the
  archive. Counters with a time to live end (`CounterActs`), which is Redis' promise; goroutines
  nobody waits for (`Embed`, `Invalidate`), the end of cached answers (`ForgetEntry`) and the enqueueing of
  tasks have no fairness.
* `LedgerReports` has no liveness property and no fairness.

## 4. Proofs

All theorems hold for every value of the constants under the named `ASSUME`s of the modules
(disjointness of sentinel values, amounts and instants are natural numbers, transactions and
projects are finite sets, a batch size above zero, a tail below the threshold, a month has days, the
presets are among the nine of the web app; TLC evaluates them in every run).

**PersonalLedgerProofs.** `TypeCorrect`, `BooksMatch`, `RecordedOnce`, `Answers`,
`EventIndexUnused`, `Deletion`. None of these invariants is inductive alone: that the books match
the rows after a commit depends on what the committing session's draft holds, and that depends on
nobody having changed the row since it was read. `IInv` says so: `Shape` (which labels a request
of each kind reaches), `OwnsRow` and `OwnsCash` (which lock protects a session at each label),
`DraftRow`, `DraftEntries` and `DraftCovers` (what the draft holds relative to the committed
tables), `CauseReserved` (while a session holds the cash account nobody takes its cause),
`DraftEvent`, and `RecordedHasEntry`, which ties the memory of recorded messages to the unique
index of the journals. The proof takes one step per action, and a lemma shows that a session's
facts survive the steps of the others.

**PersonalLedgerPromise.** `Tolerance`, `Rebuilding` and `Implementation`. `validateAllocations`
tests the lines of a request, the statements after it write the amount and then one row per project.
`AllocInv` follows the request through them: past the test no project is twice in the lines and their
floats exceed the amount's by a satang at most (`LinesPassed`); the rows inserted total what the rounded lines total
(`AllocationRowsTotal`, a sum regrouped by project), which is more than the floats by half a satang for each of them
(`RoundedTotal`), and a draft about to be committed is within the tolerance
of the amount it commits (`DraftWithinTolerance`). The log needs more than `IInv`: ids are drawn
before the commit, so events become visible out of order. `LogInv` says why that does no harm to any one
row: the event a session is about to commit is the youngest of its row (`DraftIsYoungest`), because the
session has held the row since before it drew the id, and a row with a deletion in the log is deleted
(`DeletionsAreDone`). With both, a commit maps to one action of `LedgerPromise` — a create to `RecordMessage` or
`Record`, an update to `Edit`, a delete to `Remove` — and every other step of the writer to a stutter.

`RecordsApart` needs the ids as well (`IdInv`): what open drafts have drawn is apart and below the
sequence, also after rollbacks, so no transaction is recorded twice. `NothingLeftLocked` strengthens
the ownership of locks to `LocksInUse`: a lock is held only at the statements between its taking and the
COMMIT. `DeadlockFreedom` follows from the order in which the code takes them — the row first, the cash account
second, neither twice. A chain of waits has at most two links (`WaitsAreShort`), for any number
of sessions. `Returning` gives each statement a place on its kind's way (`Progress`) and shows that it only
grows. Together the two are what `EveryCallReturns` adds fairness to.

**EventOutboxProofs.** `TypeCorrect`, `RowsHaveEvents`, `Fenced`, `GoRelaysMarkLast`. The strengthening is `DraftsAreFresh` (ids drawn from the sequences are
below the next one and nobody else's), `RelaysHoldRows`, `StreamHasRows` and `MarkingIsStreamed`.
The log itself: `AppendOnly` (nothing changes a committed event or what Append wrote into its row), `EventsApart` (ids
of committed and of open events differ), and for its reader `Projections` and `Replaying` (a
projection is fed events of its own namespace, in order, none twice). They do not say that none is missed: one
whose id was drawn before, and committed after, the id at the cursor is (see the divergences above).

**ChatAccountingProofs.** `TypeCorrect`, `Agreement`, `Backing`, `Answering`, for any number of
workers, tasks, messages and retries. The strengthening says what a busy worker carries: `Question`
(a pending action or a slot is about an amount some message left unsure, or about a missing
amount with the direction some answer chose or the slip it is about was read to have), `Backs` (a worker about to write writes what was
agreed, one about to send a card has a record behind it), `TasksAreSaid` and `RecordsAreLive`. The
two lemmas the rest stands on say that agreement and backing are monotone: later messages and
records never take them away. `IInv` is also an invariant of `chat_tasks`.
`LedgerUse` is a refinement: every step of the dispatcher is a step that `LedgerPromise` lets its caller take, or a
stutter. `Implementation` is its other side, so both halves of a recording meet at one interface, each proved.
`OneMessageEach` and `Standing` say what that means for a message: its transaction is nobody else's and keeps
direction and amount. `Exhaustion` needs that an active task has exactly one worker (`EachTaskOneWorker`); then the
pair of a task's try and its worker's stage only grows.

**NamespaceMemoryProofs.** `TypeCorrect`, `Remembered`, `OneExtraction`, `Deletion`,
`TailStays`. The strengthening says that what a task holds agrees with the stores: a compaction
that has summarised has its summary (unless summaries were erased), a summary of an attempt names a
try that has been; windows and upserts are numbers drawn once, so two tasks with one window would be
one, and what is stored after a deletion began never equals what was there before; ids an extraction keeps are
of pages that exist (`KeptPagesExist`; that an edge joins pages that exist is enforced by the foreign keys of
migration 001 and is no property here); a store that is no longer pending, without an error, has nothing of `before`. `TailStays`
counts: between count and find the live turns of a task that was not overtaken only grow, so taking
the oldest count-minus-tail of them leaves at least the tail. `Ending` orders the steps of a compaction
and of an extraction and shows that each step, crash or deletion leaves a task, takes it on, takes a page or a
link from what it has to store, or counts another try. `OnlyByDeletion` is the opposite of `Deletion`: what a store has is
taken out by its own deletion alone. For pages it rests on the numbers of upserts, which are above all
that the page has been.

**LineIntakeProofs.** `TypeCorrect`, `LimitIsKept`, `Identities`, `Pictures`, `Privacy`. That the limit holds
is a counting argument: within one life of a counter every event let through has a count of its own
between 1 and the limit, so the counts are an injection of those events into `1 .. Limit`. Identities: ids
are drawn once, a row is only ever given the id it has, and whoever registers a user holds
the lock of his row, so that two commits agree. Pictures: an object's number belongs to
one worker until its row is inserted; a worker that still holds it before the insertion (`Early`) has no row anywhere, and
what a worker does with a picture it found is about a row of its own namespace, which is one user's. The queue's part
says that a worker is idle exactly when it serves no task.

`CountersAreMortal` is the safety half of `CountersEnd`: a counter without an expiry either was lost or has the
request before it that sets one. `OneWorker` and `Forward` are that of `EveryTaskEnds`: a task in service has one
worker, and requests, tasks and workers go through the orders `HookOrder`, `StateOrder` and `WorkOrder`,
where a worker that asks the model goes through the ways to ask and the models before the next step.

**SumTheorems.** `SumFunctionOnSet` picks the elements of a set in an order nobody knows. The lemmas show
that it is defined and that the order does not matter. The induction they need, over the subsets of a finite
set, is stated with a set of subsets in place of a predicate (`SubsetInduction`) and follows from the library's fact
that strict inclusion is well-founded there. On it stand the empty sum, taking out any element
(`SumRemove`), disjoint unions, comparison, renaming, grouping by a key (`SumFibres`) and exchanging two
sums (`SumSwap`).

**LedgerReportsProofs.** `Days`, `Types`, `OnePiece`, `NoLess`. The books first (`BooksInv`): the live rows are
what the drafts made of them, with allocations that passed, and the posted entries are those of the live rows,
after every create, edit and deletion. `Days` needs only that and arithmetic of quotients: an instant lies in one
day and a day in one interval of `MonthDays` days, so the range of a day, which ends before the day's last second
(`LastSecond`), holds the instants of that day but those.

The report's invariant (`ReportInv`) says which statements have been read at each step, and relates what they
returned to the books of now. While no write overtook the report, each answer is one the statement would give now
(`AllFresh`). Then `OnePiece` is a matter of sums over one state of the books: the entries' debits are the rows'
amounts because each live row has one entry (`CheckOfRows`), categories and days group the rows of the range, the
projects' shares swap a sum over projects with one over rows and stay below the amounts and their tolerances (`ProjectsBelow`), the
rows listed are the newest of those counted. When only new records overtook it, sums over the range only grow, so
what was read before is below what would be read now (`Below`), hence below what the check and the
count said when they were read (`CheckAbove`, `CountAbove`); these do not change with the books, which is
why they, and not `Below`, carry `NoLess` to the end. `AllFresh`, `Below`, `CheckAbove` and `CountAbove`
were model-checked on the instance of `books` before they were proved.

**Checked by TLC only.** Liveness (`EveryCallReturns`, `EveryJobEnds`, `EveryTaskEnds`, `CountersEnd`), which is out of the prover's reach with its fairness. What can be
proved of it is that nothing goes back or waits in a circle: `Returning` and `DeadlockFreedom`, `Exhaustion`, `Ending`,
`Forward` and `CountersAreMortal`, so that standing still is all that fairness has to exclude.
Every other property of a passing run is stated by a theorem.
The properties of those theorems that no run lists (`TasksGoForward`, `EventsAreApart`, `LogIsAppendOnly` and
the like) were model-checked on the instances of the runs before they were proved.

## 5. Not modelled

`PROJECT.json` gives the reason per component. In short:

* The household ledger's statements name columns the schema does not have; a record made from chat appears
  in `ChatAccounting` as a write without a cause.
* Export, the lists of the web app and the static page only read. The signed session of the
  web app and the webhook's signature are comparisons without state.
* The text parser, the models' answers, ranking and redaction enter as choices, any of which
  may occur.
* Facts, snapshots, profiles and audit entries are written beside the handlers with their errors dropped and
  are read by no modelled decision.
* Fetch, ack and redelivery of the JetStream consumer: no command of the repository starts one.
* Web search, wiring, configuration and metrics are I/O without a state of their own; the TypeScript
  service is replaced, its outbox worker aside.
* Other users are left out of `ChatAccounting` and `NamespaceMemory` because pending action, user
  and ledger rows, turns and pages are keyed by namespace; that a namespace is one user's is
  `OneIdentity` of `LineIntake`, which has two users.

## 6. Plan

Done, in the order in which they carry the books: `LedgerPromise`, `PersonalLedger`, `EventOutbox`,
`ChatAccounting`; then what surrounds them: `ConversationMemory` and `KnowledgeBrain` under
`NamespaceMemory`, `LineWebhook` and `ImageIntake` under `LineIntake`, and `LedgerReports`. What
would come next:

1. The household ledger, once its statements fit the schema, with its two-statement creation.
2. The ledger's tables in the deletion of a namespace, beside a writer that still runs.
3. The split of an amount over projects and the parser's confidence as functions, against
   reference definitions.
