--------------------------- MODULE KnowledgeBrain ---------------------------
(***************************************************************************)
(* The knowledge graph of one namespace (internal/brain): extraction tasks *)
(* ask a model for pages and edges and write them to PostgreSQL; each page *)
(* is embedded, and the retrieval cache invalidated, by goroutines nobody  *)
(* waits for; Retrieve reads through that cache.                           *)
(* A page is known by its slug, its content by the number of the upsert    *)
(* that wrote it.                                                          *)
(***************************************************************************)
EXTENDS Naturals, FiniteSets

CONSTANTS
  Extractions,    \* extraction tasks, and the passes of the nightly reflection
  Reflections,    \* those of them that are reflections
  Texts,          \* what is to be extracted
  NoText,
  Slugs,
  Links,          \* edges a model may find, pairs of slugs
  Answers,        \* what a model may answer: [pages, links]
  Readers,        \* callers of Retrieve
  Seeds,          \* slugs whose alias is in the reader's text
  MaxExtractRetry,\* retries of a task
  MaxUpserts,     \* bound on the upserts of one page
  MaxWindows,     \* bound on the dedup keys set in a behaviour
  MaxRetrievals   \* bound on the retrievals of a behaviour

ASSUME BrainAssumption ==
  /\ Reflections \subseteq Extractions
  /\ NoText \notin Texts
  /\ Links \subseteq Slugs \X Slugs
  /\ Answers \subseteq [pages : SUBSET Slugs, links : SUBSET Links]
  /\ Seeds \subseteq Slugs
  /\ MaxExtractRetry \in Nat
  /\ MaxUpserts \in Nat
  /\ MaxWindows \in Nat
  /\ MaxRetrievals \in Nat

VARIABLES
  pages,         \* wiki_pages: the content of each slug, 0 when there is no row
  edges,         \* wiki_edges
  embedded,      \* memory_embeddings: [slug, content, dead], dead when the page it was for is gone
  upserts,       \* per slug: upserts so far
  window,        \* per text: which setting of the dedup key is alive, or 0
  windows,       \* settings so far
  extraction,    \* per task: step, text, retries, window, pages and links left, pages kept
  embedding,     \* goroutines that embed, by what they will write
  invalidating,  \* whether goroutines that invalidate the cache are left
  cache,         \* the cached result, a content per slug, or NoEntry
  reader,        \* per reader: its step and what it has read
  retrievals     \* retrievals so far

graphVars == <<pages, edges, embedded, upserts>>
dedupVars == <<window, windows>>
cacheVars == <<invalidating, cache, reader, retrievals>>
brainVars == <<graphVars, dedupVars, extraction, embedding, cacheVars>>

Contents == 0 .. MaxUpserts
Nothing == [s \in Slugs |-> 0]
NoEntry == [s \in {} |-> 0]

NotAsked(step, text, try) ==
  [step |-> step, text |-> text, try |-> try, window |-> 0,
   left |-> {}, links |-> {}, kept |-> {}]

BrainInit ==
  /\ pages = Nothing
  /\ edges = {}
  /\ embedded = {}
  /\ upserts = Nothing
  /\ window = [t \in Texts |-> 0]
  /\ windows = 0
  /\ extraction = [x \in Extractions |-> NotAsked("none", NoText, 0)]
  /\ embedding = {}
  /\ invalidating = FALSE
  /\ cache = NoEntry
  /\ reader = [r \in Readers |-> [step |-> "idle", read |-> Nothing]]
  /\ retrievals = 0

Stage(x) == extraction[x].step
Extracting == {"asking", "storing"}

-----------------------------------------------------------------------------
(* ExtractAndStore: dedup, model, pages, edges.                             *)

\* A text of the user, or the last day's conversation.
EnqueueExtract(x, t) ==
  /\ Stage(x) = "none"
  /\ extraction' = [extraction EXCEPT ![x] = NotAsked("queued", t, 0)]
  /\ UNCHANGED <<graphVars, dedupVars, embedding, cacheVars>>

\* Mutant: whoever finds the key goes on as well.
DedupIgnored(x) ==
  LET t == extraction[x].text IN
  /\ Stage(x) = "queued"
  /\ windows < MaxWindows
  /\ windows' = IF window[t] = 0 THEN windows + 1 ELSE windows
  /\ window' = [window EXCEPT ![t] = windows']
  /\ extraction' = [extraction EXCEPT ![x].step = "asking", ![x].window = window'[t]]
  /\ UNCHANGED <<graphVars, embedding, cacheVars>>

\* SETNX: whoever sets the key goes on, whoever finds it has nothing to do.
Dedup(x) ==
  LET t == extraction[x].text IN
  /\ Stage(x) = "queued"
  /\ IF window[t] = 0
     THEN /\ windows < MaxWindows
          /\ windows' = windows + 1
          /\ window' = [window EXCEPT ![t] = windows + 1]
          /\ extraction' = [extraction EXCEPT ![x].step = "asking",
                                              ![x].window = windows + 1]
     ELSE /\ extraction' = [extraction EXCEPT ![x].step = "done"]
          /\ UNCHANGED dedupVars
  /\ UNCHANGED <<graphVars, embedding, cacheVars>>

\* A Redis error lets the extraction go on, with the key set or not.
DedupFails(x) ==
  LET t == extraction[x].text IN
  /\ Stage(x) = "queued"
  /\ extraction' = [extraction EXCEPT ![x].step = "asking"]
  /\ \/ UNCHANGED dedupVars
     \/ /\ window[t] = 0
        /\ windows < MaxWindows
        /\ windows' = windows + 1
        /\ window' = [window EXCEPT ![t] = windows + 1]
  /\ UNCHANGED <<graphVars, embedding, cacheVars>>

ForgetWindow(t) ==
  /\ window[t] # 0
  /\ window' = [window EXCEPT ![t] = 0]
  /\ UNCHANGED <<graphVars, windows, extraction, embedding, cacheVars>>

\* The model's pages and edges.  What is no JSON of the schema ends the task.
Ask(x) ==
  /\ Stage(x) = "asking"
  /\ \/ \E answer \in Answers :
          extraction' = [extraction EXCEPT ![x].step = "storing",
                                           ![x].left = answer.pages,
                                           ![x].links = answer.links]
     \/ extraction' = [extraction EXCEPT ![x].step = "done"]
  /\ UNCHANGED <<graphVars, dedupVars, embedding, cacheVars>>

\* ReflectAllActive logs the error and goes on with the next namespace.  A reflection that
\* a worker's death cut short the queue begins anew: another pass stands for that.
RetryExtract(x) ==
  LET job == extraction[x] IN
  IF x \notin Reflections /\ job.try < MaxExtractRetry
  THEN NotAsked("queued", job.text, job.try + 1)
  ELSE NotAsked("archived", job.text, job.try)

\* The model call is an error, or the worker dies.
ExtractFails(x) ==
  /\ Stage(x) \in Extracting
  /\ extraction' = [extraction EXCEPT ![x] = RetryExtract(x)]
  /\ UNCHANGED <<graphVars, dedupVars, embedding, cacheVars>>

Upserted(s) ==
  /\ upserts[s] < MaxUpserts
  /\ upserts' = [upserts EXCEPT ![s] = @ + 1]
  /\ pages' = [pages EXCEPT ![s] = upserts[s] + 1]

\* UpsertPage commits the page, and two goroutines start.
StorePage(x, s) ==
  /\ Stage(x) = "storing"
  /\ s \in extraction[x].left
  /\ Upserted(s)
  /\ extraction' = [extraction EXCEPT ![x].left = @ \ {s}, ![x].kept = @ \cup {s}]
  /\ embedding' = embedding \cup
       {[slug |-> s, content |-> upserts[s] + 1, dead |-> FALSE]}
  /\ invalidating' = TRUE
  /\ UNCHANGED <<edges, embedded, dedupVars, cache, reader, retrievals>>

\* An upsert that is an error is logged, whether it has committed or not.
StorePageFails(x, s) ==
  /\ Stage(x) = "storing"
  /\ s \in extraction[x].left
  /\ \/ UNCHANGED <<pages, upserts>>
     \/ Upserted(s)
  /\ extraction' = [extraction EXCEPT ![x].left = @ \ {s}]
  /\ UNCHANGED <<edges, embedded, dedupVars, embedding, cacheVars>>

\* Only between pages this extraction has stored; kept holds the ids of rows that
\* exist, as the foreign keys demand of an edge.
LinkPages(x, e) ==
  /\ Stage(x) = "storing"
  /\ extraction[x].left = {}
  /\ e \in extraction[x].links
  /\ extraction' = [extraction EXCEPT ![x].links = @ \ {e}]
  /\ IF {e[1], e[2]} \subseteq extraction[x].kept
     THEN \/ /\ edges' = edges \cup {e}
             /\ invalidating' = TRUE
          \/ UNCHANGED <<edges, invalidating>>
     ELSE UNCHANGED <<edges, invalidating>>
  /\ UNCHANGED <<pages, embedded, upserts, dedupVars, embedding, cache, reader, retrievals>>

FinishExtract(x) ==
  /\ Stage(x) = "storing"
  /\ extraction[x].left = {} /\ extraction[x].links = {}
  /\ extraction' = [extraction EXCEPT ![x].step = "done"]
  /\ UNCHANGED <<graphVars, dedupVars, embedding, cacheVars>>

SamePage(g, m) == g.slug = m.slug /\ g.dead = m.dead

\* EmbeddingService.Upsert writes what it was given over what is there for the page;
\* its error is only logged.
Embed(g) ==
  /\ g \in embedding
  /\ embedding' = embedding \ {g}
  /\ embedded' \in {embedded, {m \in embedded : ~ SamePage(g, m)} \cup {g}}
  /\ UNCHANGED <<pages, edges, upserts, dedupVars, extraction, cacheVars>>

-----------------------------------------------------------------------------
(* The retrieval cache.                                                     *)

\* One of the goroutines ends, perhaps with an error, perhaps as the last.
Invalidate ==
  /\ invalidating
  /\ invalidating' \in BOOLEAN
  /\ cache' \in {NoEntry, cache}
  /\ UNCHANGED <<graphVars, dedupVars, extraction, embedding, reader, retrievals>>

\* The entry's time to live is over.
ForgetEntry ==
  /\ cache # NoEntry
  /\ cache' = NoEntry
  /\ UNCHANGED <<graphVars, dedupVars, extraction, embedding, invalidating, reader, retrievals>>

Reads(r, step, read) == reader' = [reader EXCEPT ![r] = [step |-> step, read |-> read]]

\* A hit is answered from the cache and changes nothing.
Lookup(r) ==
  /\ reader[r].step = "idle"
  /\ retrievals < MaxRetrievals
  /\ retrievals' = retrievals + 1
  /\ IF cache = NoEntry THEN Reads(r, "missed", Nothing) ELSE UNCHANGED reader
  /\ UNCHANGED <<graphVars, dedupVars, extraction, embedding, invalidating, cache>>

\* The pages whose alias is in the text.
SeedPages == [s \in Slugs |-> IF s \in Seeds THEN pages[s] ELSE 0]

ReadSeeds(r) ==
  /\ reader[r].step = "missed"
  /\ Reads(r, IF SeedPages = Nothing THEN "filling" ELSE "seeded", SeedPages)
  /\ UNCHANGED <<graphVars, dedupVars, extraction, embedding, invalidating, cache, retrievals>>

\* One hop from the seeds; a seed keeps what was read of it first.
Neighbours(found) ==
  {s \in Slugs : \E k \in Slugs : found[k] # 0 /\ (<<k, s>> \in edges \/ <<s, k>> \in edges)}

Expanded(found) ==
  [s \in Slugs |-> IF found[s] = 0 /\ s \in Neighbours(found) THEN pages[s] ELSE found[s]]

ReadNeighbours(r) ==
  /\ reader[r].step = "seeded"
  /\ Reads(r, "filling", Expanded(reader[r].read))
  /\ UNCHANGED <<graphVars, dedupVars, extraction, embedding, invalidating, cache, retrievals>>

\* The goroutine that stores the result; its error is only logged.
FillCache(r) ==
  /\ reader[r].step = "filling"
  /\ cache' \in {cache, reader[r].read}
  /\ Reads(r, "idle", Nothing)
  /\ UNCHANGED <<graphVars, dedupVars, extraction, embedding, invalidating, retrievals>>

-----------------------------------------------------------------------------
ExtractStep(x) ==
  \/ Dedup(x) \/ DedupFails(x) \/ Ask(x) \/ FinishExtract(x)
  \/ \E s \in Slugs : StorePage(x, s) \/ StorePageFails(x, s)
  \/ \E e \in Links : LinkPages(x, e)

ReadStep(r) == ReadSeeds(r) \/ ReadNeighbours(r) \/ FillCache(r)

BrainNext ==
  \/ \E x \in Extractions, t \in Texts : EnqueueExtract(x, t)
  \/ \E x \in Extractions : ExtractStep(x) \/ ExtractFails(x)
  \/ \E t \in Texts : ForgetWindow(t)
  \/ \E g \in embedding : Embed(g)
  \/ Invalidate
  \/ ForgetEntry
  \/ \E r \in Readers : Lookup(r) \/ ReadStep(r)

-----------------------------------------------------------------------------
(* Properties.                                                              *)

Task == [step : {"none", "queued", "done", "archived"} \cup Extracting,
         text : Texts \cup {NoText}, try : 0 .. MaxExtractRetry, window : 0 .. MaxWindows,
         left : SUBSET Slugs, links : SUBSET Links, kept : SUBSET Slugs]

Embedding == [slug : Slugs, content : Contents, dead : BOOLEAN]

\* Every variable of the graph has its type.
BrainTypeOK ==
  /\ pages \in [Slugs -> Contents]
  /\ edges \subseteq Links
  /\ embedded \subseteq Embedding
  /\ upserts \in [Slugs -> Contents]
  /\ window \in [Texts -> 0 .. MaxWindows]
  /\ windows \in 0 .. MaxWindows
  /\ extraction \in [Extractions -> Task]
  /\ embedding \subseteq Embedding
  /\ invalidating \in BOOLEAN
  /\ cache \in [Slugs -> Contents] \cup {NoEntry}
  /\ reader \in [Readers -> [step : {"idle", "missed", "seeded", "filling"},
                             read : [Slugs -> Contents]]]
  /\ retrievals \in 0 .. MaxRetrievals

\* extraction.go: within one life of the dedup key one task asks the model, however
\* many workers serve tasks of the same text, unless Redis failed.
OneExtractionPerWindow ==
  \A x, y \in Extractions :
    extraction[x].window # 0 /\ extraction[x].window = extraction[y].window => x = y

=============================================================================
