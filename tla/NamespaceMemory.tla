--------------------------- MODULE NamespaceMemory ---------------------------
(***************************************************************************)
(* All that one namespace's memory is made of, under one worker process    *)
(* that may die, and its deletion (internal/pdpa), which deletes store by  *)
(* store, in parallel and without a transaction, while the worker goes on. *)
(***************************************************************************)
EXTENDS ConversationMemory, KnowledgeBrain

\* Those of the stores DeleteAll goes through that this module models.
Stores == {"messages", "summaries", "edges", "pages", "embeddings"}

CONSTANT Loads    \* bounds on what a behaviour asks for, one of them per behaviour

Load == [turns : 0 .. MaxTurns, compactions : SUBSET Compactions,
         extractions : SUBSET Extractions, slugs : SUBSET Slugs,
         retrievals : 0 .. MaxRetrievals, crashes : Nat, deletions : Nat,
         stores : SUBSET Stores]

ASSUME LoadsAssumption == \A l \in Loads : l \in Load

VARIABLES
  load,
  crashes,      \* deaths of the worker
  deletions,    \* deletions asked for
  report,       \* of the last one: none, running, ok, failed
  pending,      \* stores whose delete is running
  failing,      \* TRUE when one of them was an error
  erased,       \* whether the summaries were ever deleted
  before        \* what was stored when the last deletion began

deletionVars == <<load, crashes, deletions, report, pending, failing, erased, before>>
vars == <<convVars, brainVars, deletionVars>>

Contained ==
  [messages |-> stored, summaries |-> summaries, pages |-> pages,
   embeddings |-> {[slug |-> m.slug, content |-> m.content] : m \in embedded}]

Init ==
  /\ ConvInit
  /\ BrainInit
  /\ load \in Loads
  /\ crashes = 0
  /\ deletions = 0
  /\ report = "none"
  /\ pending = {}
  /\ failing = FALSE
  /\ erased = FALSE
  /\ before = Contained

-----------------------------------------------------------------------------
(* DeleteAll.                                                               *)

BeginDelete ==
  /\ report # "running"
  /\ deletions' = deletions + 1
  /\ report' = "running"
  /\ pending' = load.stores
  /\ failing' = FALSE
  /\ before' = Contained
  /\ UNCHANGED <<convVars, brainVars, load, crashes, erased>>

\* Tasks that counted the turns no longer know how many there are.
DeleteMessages ==
  /\ stored' = {}
  /\ compacted' = {}
  /\ compaction' = [c \in Compactions |-> [compaction[c] EXCEPT !.overtaken = TRUE]]
  /\ UNCHANGED <<clock, drawn, summaries, brainVars>>

DeleteSummaries ==
  /\ summaries' = {}
  /\ UNCHANGED <<clock, drawn, stored, compacted, compaction, brainVars>>

DeleteEdges ==
  /\ edges' = {}
  /\ UNCHANGED <<convVars, pages, embedded, upserts, dedupVars, extraction, embedding, cacheVars>>

Orphans(ms) == {[m EXCEPT !.dead = TRUE] : m \in ms}

\* The foreign keys take the edges along, and the ids tasks hold are of no row.
DeletePages ==
  /\ pages' = Nothing
  /\ edges' = {}
  /\ extraction' = [x \in Extractions |-> [extraction[x] EXCEPT !.kept = {}]]
  /\ embedded' = Orphans(embedded)
  /\ embedding' = Orphans(embedding)
  /\ UNCHANGED <<convVars, upserts, dedupVars, cacheVars>>

DeleteEmbeddings ==
  /\ embedded' = {}
  /\ UNCHANGED <<convVars, pages, edges, upserts, dedupVars, extraction, embedding, cacheVars>>

DeleteStore(s) ==
  /\ s \in pending
  /\ pending' = pending \ {s}
  /\ erased' = (erased \/ s = "summaries")
  /\ \/ s = "messages" /\ DeleteMessages
     \/ s = "summaries" /\ DeleteSummaries
     \/ s = "edges" /\ DeleteEdges
     \/ s = "pages" /\ DeletePages
     \/ s = "embeddings" /\ DeleteEmbeddings
  /\ UNCHANGED <<load, crashes, deletions, report, failing, before>>

\* Mutant: an error of one store is forgotten.
DeleteStoreIgnored(s) ==
  /\ s \in pending
  /\ pending' = pending \ {s}
  /\ UNCHANGED <<convVars, brainVars, load, crashes, deletions, report, failing, erased, before>>

\* setErr keeps the first error; the other stores are deleted all the same.
DeleteStoreFails(s) ==
  /\ s \in pending
  /\ pending' = pending \ {s}
  /\ failing' = TRUE
  /\ UNCHANGED <<convVars, brainVars, load, crashes, deletions, report, erased, before>>

\* One of the stores that are not shown may have failed, too.  Without an error, keys
\* whose name contains the namespace are dropped from Redis: the brain's keys have its
\* hash, so they stay until their time is over.
EndDelete ==
  /\ report = "running"
  /\ pending = {}
  /\ report' \in IF failing THEN {"failed"} ELSE {"ok", "failed"}
  /\ UNCHANGED <<convVars, brainVars, load, crashes, deletions, pending, failing, erased, before>>

-----------------------------------------------------------------------------
(* The worker process dies: its goroutines are gone, and the tasks it was   *)
(* serving are recovered by the queue.                                      *)

Crash ==
  /\ crashes' = crashes + 1
  /\ drawn' = [h \in Handlers |-> 0]
  /\ compaction' = [c \in Compactions |->
       IF compaction[c].step \in Working THEN Retry(compaction[c]) ELSE compaction[c]]
  /\ extraction' = [x \in Extractions |->
       IF Stage(x) \in Extracting THEN RetryExtract(x) ELSE extraction[x]]
  /\ embedding' = {}
  /\ invalidating' = FALSE
  /\ reader' = [r \in Readers |-> [step |-> "idle", read |-> Nothing]]
  /\ UNCHANGED <<clock, stored, compacted, summaries, graphVars, dedupVars, cache, retrievals,
                 load, deletions, report, pending, failing, erased, before>>

-----------------------------------------------------------------------------
\* What the bounds allow.
Within(l) ==
  /\ clock <= l.turns + 1
  /\ \A c \in Compactions \ l.compactions : Step(c) = "none"
  /\ \A x \in Extractions \ l.extractions : Stage(x) = "none"
  /\ \A x \in Extractions : extraction[x].left \subseteq l.slugs
  /\ retrievals <= l.retrievals
  /\ crashes <= l.crashes
  /\ deletions <= l.deletions

MemoryStep ==
  \/ ConvNext /\ UNCHANGED <<brainVars, deletionVars>>
  \/ BrainNext /\ UNCHANGED <<convVars, deletionVars>>
  \/ BeginDelete
  \/ \E s \in Stores : DeleteStore(s) \/ DeleteStoreFails(s)
  \/ EndDelete
  \/ Crash

Next == MemoryStep /\ Within(load)'

Spec == Init /\ [][Next]_vars

\* The queue serves its tasks as long as it runs.
Fairness ==
  /\ \A c \in Compactions : WF_vars(CompactStep(c) /\ UNCHANGED <<brainVars, deletionVars>>)
  /\ \A x \in Extractions : WF_vars(ExtractStep(x) /\ UNCHANGED <<convVars, deletionVars>>)

FairSpec == Spec /\ Fairness

-----------------------------------------------------------------------------
(* Properties.                                                              *)

\* Every variable has its type.
TypeOK ==
  /\ ConvTypeOK
  /\ BrainTypeOK
  /\ load \in Load
  /\ crashes \in Nat
  /\ deletions \in Nat
  /\ report \in {"none", "running", "ok", "failed"}
  /\ pending \subseteq Stores
  /\ failing \in BOOLEAN
  /\ erased \in BOOLEAN

\* service.go of memory and of pdpa: until the summaries are deleted, a turn that leaves
\* the prompt's history is in the text of a summary, or is one a full summary stopped
\* before, whatever fails, is retried or runs beside it.
RememberedUntilDeleted == ~ erased => NothingForgotten

\* service.go of pdpa: a deletion that is reported done has removed all that was
\* stored when it began, in every store; what is there now was written behind it.
DoneMeansDeleted ==
  report = "ok" =>
    /\ "messages" \in load.stores => stored \cap before.messages = {}
    /\ "summaries" \in load.stores => summaries \cap before.summaries = {}
    /\ "embeddings" \in load.stores => Contained.embeddings \cap before.embeddings = {}
    /\ "pages" \in load.stores =>
         \A s \in Slugs : before.pages[s] # 0 => pages[s] # before.pages[s]

\* The queue's tasks leave it: none is retried for ever, and none waits for another.
EveryTaskEnds ==
  /\ \A c \in Compactions : Step(c) = "queued" ~> Step(c) \in {"done", "archived"}
  /\ \A x \in Extractions : Stage(x) = "queued" ~> Stage(x) \in {"done", "archived"}

-----------------------------------------------------------------------------
(* What tasks and stores keep from step to step: EveryTaskEnds without its  *)
(* fairness, and who may delete what.                                       *)

CompactionOrder(step) ==
  CASE step = "none" -> 0 [] step = "queued" -> 1 [] step = "counted" -> 2
    [] step = "found" -> 3 [] step = "summarised" -> 4 [] OTHER -> 5

ExtractionOrder(step) ==
  CASE step = "none" -> 0 [] step = "queued" -> 1 [] step = "asking" -> 2
    [] step = "storing" -> 3 [] OTHER -> 4

\* A task is tried again with the next number, or goes on; another task, or a deletion,
\* may tell it that its count is old.
CompactionForward(c) ==
  LET job == compaction[c] new == compaction'[c] IN
  \/ new = [job EXCEPT !.overtaken = new.overtaken]
  \/ job.try < new.try
  \/ job.try = new.try /\ CompactionOrder(job.step) < CompactionOrder(new.step)

\* An extraction that stores has a page or a link less to store with each step; a
\* deletion may take the pages it kept.
ExtractionForward(x) ==
  LET job == extraction[x] new == extraction'[x] IN
  \/ new = [job EXCEPT !.kept = new.kept]
  \/ job.step = "none" /\ new.step = "queued"
  \/ job.try < new.try
  \/ job.try = new.try /\ ExtractionOrder(job.step) < ExtractionOrder(new.step)
  \/ /\ job.try = new.try /\ job.step = new.step
     /\ new.left \subseteq job.left /\ new.links \subseteq job.links
     /\ new.left # job.left \/ new.links # job.links

\* queue/server.go and extraction.go: whatever fails or dies, no task goes back, so every
\* task ends unless it stands still.
TasksGoForward ==
  [][/\ \A c \in Compactions : CompactionForward(c)
     /\ \A x \in Extractions : ExtractionForward(x)]_vars

\* pdpa/service.go: only a deletion takes anything out of a store, and only out of those
\* it has not been through; tasks, retries and goroutines never do, and a page is only
\* written over by a later upsert.
OnlyDeletionDeletes ==
  [][/\ "messages" \notin pending => stored \subseteq stored' /\ compacted \subseteq compacted'
     /\ "summaries" \notin pending => summaries \subseteq summaries'
     /\ {"edges", "pages"} \cap pending = {} => edges \subseteq edges'
     /\ "pages" \notin pending => \A s \in Slugs : pages[s] <= pages'[s]
     /\ "embeddings" \notin pending =>
          \A m \in embedded : \E k \in embedded' : k.slug = m.slug]_vars

=============================================================================
