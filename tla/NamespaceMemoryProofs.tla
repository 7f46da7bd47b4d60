------------------------ MODULE NamespaceMemoryProofs ------------------------
(***************************************************************************)
(* Proofs about NamespaceMemory: IInv is inductive, for any number of      *)
(* handlers, tasks, turns, texts and pages, and gives the safety           *)
(* properties.  It has a part for each half of the memory and one for the  *)
(* deletion that goes through both.  Most of it says that what is still to *)
(* be written has never been there: the turns, summaries and contents of   *)
(* pages are known by numbers that are drawn once.                         *)
(***************************************************************************)
EXTENDS NamespaceMemory, FiniteSetTheorems, TLAPS

Embedded == [slug : Slugs, content : Contents]

\* What is kept of the last deletion's beginning has its type.
BeforeTyped ==
  /\ before.messages \subseteq Turns
  /\ before.summaries \subseteq Summary
  /\ before.pages \in [Slugs -> Contents]
  /\ before.embeddings \subseteq Embedded

\* A turn that a handler inserts is its own, and has not been stored before.
TurnsAreNew ==
  /\ \A m \in stored \cup before.messages : m < clock
  /\ \A h \in Handlers : drawn[h] # 0 =>
       drawn[h] < clock /\ drawn[h] \notin stored \cup before.messages
  /\ \A h, k \in Handlers : drawn[h] # 0 /\ drawn[h] = drawn[k] => h = k

\* A task has inserted at most one summary in each try.
SummariesAreNew ==
  \A s \in summaries \cup before.summaries :
    \/ s.try < compaction[s.by].try
    \/ s.try = compaction[s.by].try /\ Step(s.by) \in {"summarised", "done", "archived"}

\* A task marks what its summary covers, as long as that was not deleted.
SummariesStand ==
  ~ erased => \A c \in Compactions : Step(c) = "summarised" =>
                \E s \in summaries : \A m \in compaction[c].read : Covers(s, m)

\* What a task counted is still there, unless another one marked or deleted some.
CountsHold ==
  \A c \in Compactions : Step(c) = "counted" /\ ~ compaction[c].overtaken =>
    compaction[c].limit + Tail <= Cardinality(Live)

\* The deletion that runs or was reported done has met no error.
Deleting == report \in {"running", "ok"} /\ ~ failing

ConvDeleted ==
  Deleting =>
    /\ "messages" \in load.stores \ pending => stored \cap before.messages = {}
    /\ "summaries" \in load.stores \ pending => summaries \cap before.summaries = {}

ConvInv ==
  /\ ConvTypeOK /\ TurnsAreNew /\ SummariesAreNew /\ SummariesStand /\ CountsHold
  /\ RememberedUntilDeleted /\ ConvDeleted

\* A window that is set anew has never been some task's.
WindowsAreNew == \A x \in Extractions : extraction[x].window <= windows

\* The ids an extraction holds are of pages that exist.
KeptPagesExist == \A x \in Extractions : \A s \in extraction[x].kept : pages[s] # 0

\* An upsert writes what no page has been before, and one goroutine embeds it.
ContentsAreNew ==
  /\ \A s \in Slugs : pages[s] <= upserts[s] /\ before.pages[s] <= upserts[s]
  /\ \A m \in embedding \cup embedded \cup before.embeddings : m.content <= upserts[m.slug]
  /\ \A g \in embedding, m \in embedded \cup before.embeddings :
       ~ (m.slug = g.slug /\ m.content = g.content)
  /\ \A g, m \in embedding : m.slug = g.slug /\ m.content = g.content => g = m

BrainDeleted ==
  Deleting =>
    /\ "embeddings" \in load.stores \ pending =>
         \A m \in embedded, b \in before.embeddings :
           ~ (m.slug = b.slug /\ m.content = b.content)
    /\ "pages" \in load.stores \ pending =>
         \A s \in Slugs : before.pages[s] # 0 => pages[s] # before.pages[s]

BrainInv ==
  /\ BrainTypeOK /\ WindowsAreNew /\ OneExtractionPerWindow /\ KeptPagesExist
  /\ ContentsAreNew /\ BrainDeleted

DeletionInv ==
  /\ load \in Load
  /\ crashes \in Nat
  /\ deletions \in Nat
  /\ report \in {"none", "running", "ok", "failed"}
  /\ pending \subseteq Stores
  /\ failing \in BOOLEAN
  /\ erased \in BOOLEAN
  /\ BeforeTyped
  /\ report = "ok" => pending = {} /\ ~ failing

IInv == ConvInv /\ BrainInv /\ DeletionInv

-----------------------------------------------------------------------------
(* The conversation.                                                        *)

\* There are finitely many turns.
LEMMA FiniteTurns ==
  ASSUME NEW S \in SUBSET Turns
  PROVE  IsFiniteSet(S) /\ Cardinality(S) \in Nat
  <1>1. IsFiniteSet(Turns)
    BY TurnsAssumption, FS_Interval DEF Turns
  <1> QED BY <1>1, FS_Subset, FS_CardinalityType

\* The live turns are some of them.
LEMMA LiveTurns ==
  ASSUME ConvTypeOK
  PROVE  Live \in SUBSET Turns /\ IsFiniteSet(Live) /\ Cardinality(Live) \in Nat
  <1>1. Live \in SUBSET Turns
    BY DEF ConvTypeOK, Live
  <1> QED BY <1>1, FiniteTurns

\* A job that is retried has the type of a job, and no longer counts on anything.
LEMMA RetryJob ==
  ASSUME NEW job \in Job
  PROVE  /\ Retry(job) \in Job
         /\ Retry(job).step \in {"queued", "archived"}
         /\ job.try <= Retry(job).try
         /\ job.try = Retry(job).try => Retry(job).step = "archived"
  <1>1. CASE job.try < MaxRetry
    <2> DEFINE new == [NotQueued EXCEPT !.step = "queued", !.try = job.try + 1]
    <2>0. PICK n \in 0 .. MaxRetry : n = job.try + 1
      BY <1>1, RetryAssumption DEF Job
    <2>1. new \in Job /\ new.step = "queued" /\ new.try = job.try + 1
      BY <2>0 DEF NotQueued, Job
    <2>2. Retry(job) = new
      BY <1>1 DEF Retry
    <2> HIDE DEF new
    <2> QED BY <2>1, <2>2 DEF Job
  <1>2. CASE ~ job.try < MaxRetry
    <2> DEFINE new == [NotQueued EXCEPT !.step = "archived", !.try = job.try]
    <2>1. new \in Job /\ new.step = "archived" /\ new.try = job.try
      BY RetryAssumption DEF NotQueued, Job
    <2>2. Retry(job) = new
      BY <1>2 DEF Retry
    <2> HIDE DEF new
    <2> QED BY <2>1, <2>2 DEF Job
  <1> QED BY <1>1, <1>2

\* Overtaking changes the mark alone.
LEMMA OvertakenJob ==
  ASSUME NEW jobs \in [Compactions -> Job], NEW c \in Compactions, NEW d \in Compactions
  PROVE  /\ Overtake(jobs, c) \in [Compactions -> Job]
         /\ Overtake(jobs, c)[d].step = jobs[d].step
         /\ Overtake(jobs, c)[d].try = jobs[d].try
         /\ Overtake(jobs, c)[d].read = jobs[d].read
         /\ d # c /\ jobs[d].step = "counted" => Overtake(jobs, c)[d].overtaken
         /\ d = c => Overtake(jobs, c)[d] = jobs[d]
  BY DEF Overtake, Job

\* What a turn's handler does keeps the conversation's part.
LEMMA HandlerKeeps ==
  ASSUME ConvInv, DeletionInv, NEW h \in Handlers, HandlerStep(h), UNCHANGED deletionVars
  PROVE  ConvInv'
  <1> USE DEF ConvInv, convVars, deletionVars
  <1>1. ConvTypeOK'
    <2>1. CASE DrawTurn(h)
      BY <2>1, TurnsAssumption DEF DrawTurn, ConvTypeOK, Turns
    <2>2. CASE SaveTurn(h)
      <3>1. drawn[h] \in Turns
        BY <2>2 DEF SaveTurn, ConvTypeOK
      <3>2. stored' \subseteq Turns /\ compacted' \subseteq stored'
        BY <2>2, <3>1 DEF SaveTurn, ConvTypeOK
      <3>3. drawn' \in [Handlers -> Turns \cup {0}]
        BY <2>2 DEF SaveTurn, ConvTypeOK
      <3> QED BY <2>2, <3>2, <3>3 DEF SaveTurn, ConvTypeOK
    <2> QED BY <2>1, <2>2 DEF HandlerStep
  <1>2. TurnsAreNew'
    <2>1. CASE DrawTurn(h)
      <3>1. clock \in Nat /\ drawn \in [Handlers -> Turns \cup {0}]
        BY TurnsAssumption DEF ConvTypeOK, Turns
      <3>2. \A m \in stored \cup before.messages : m \in Int /\ m < clock
        BY DEF TurnsAreNew, ConvTypeOK, Turns, DeletionInv, BeforeTyped
      <3>3. \A k \in Handlers : drawn[k] # 0 => drawn[k] < clock
        BY DEF TurnsAreNew
      <3>4. \A k \in Handlers : drawn'[k] = IF k = h THEN clock ELSE drawn[k]
        BY <2>1, <3>1 DEF DrawTurn
      <3>5. clock' = clock + 1 /\ stored' = stored
        BY <2>1 DEF DrawTurn
      <3>6. \A k \in Handlers : drawn[k] \in Int
        BY <3>1, TurnsAssumption DEF Turns
      <3> QED BY <3>1, <3>2, <3>3, <3>4, <3>5, <3>6 DEF TurnsAreNew
    <2>2. CASE SaveTurn(h)
      BY <2>2 DEF SaveTurn, TurnsAreNew, ConvTypeOK, Turns
    <2> QED BY <2>1, <2>2 DEF HandlerStep
  <1>3. UNCHANGED <<compacted, summaries, compaction>>
    BY DEF HandlerStep, DrawTurn, SaveTurn
  <1>4. SummariesAreNew' /\ SummariesStand' /\ RememberedUntilDeleted'
    BY <1>3 DEF SummariesAreNew, SummariesStand, RememberedUntilDeleted, NothingForgotten, Step
  <1>5. CountsHold'
    <2>1. Live' \in SUBSET Turns /\ IsFiniteSet(Live') /\ Cardinality(Live') \in Nat
      <3>1. Live' \in SUBSET Turns
        BY <1>1 DEF ConvTypeOK, Live
      <3> QED BY <3>1, FiniteTurns
    <2>2. Live \in SUBSET Live'
      BY <1>3 DEF HandlerStep, DrawTurn, SaveTurn, Live
    <2>3. Cardinality(Live) <= Cardinality(Live')
      BY <2>1, <2>2, FS_Subset
    <2>4. \A c \in Compactions : compaction[c].limit \in Nat
      BY DEF ConvTypeOK, Job
    <2> QED BY <1>3, <2>1, <2>3, <2>4, LiveTurns, CompactionAssumption DEF CountsHold, Step
  <1>6. ConvDeleted'
    BY <1>3 DEF ConvDeleted, Deleting, HandlerStep, DrawTurn, SaveTurn, TurnsAreNew
  <1> QED BY <1>1, <1>2, <1>4, <1>5, <1>6

\* A step that changes one task's state.
CompactionStep(c, job) ==
  /\ compaction' = [compaction EXCEPT ![c] = job]
  /\ UNCHANGED <<clock, drawn, stored, compacted, deletionVars>>

\* What such a step has to show.
LEMMA CompactionKeeps ==
  ASSUME ConvInv, DeletionInv, NEW c \in Compactions, NEW job \in Job, CompactionStep(c, job),
         summaries \subseteq summaries',
         summaries' \subseteq Summary,
         \A s \in summaries' : s \in summaries \/ ~ "summaries" \in load.stores
                                 \/ s \notin before.summaries,
         \A s \in summaries' \cup before.summaries :
           \/ s \in summaries \cup before.summaries /\ s.by # c
           \/ s.by = c /\ \/ s.try < job.try
                          \/ s.try = job.try /\ job.step \in {"summarised", "done", "archived"},
         job.step = "summarised" => \E s \in summaries' : \A m \in job.read : Covers(s, m),
         job.step = "counted" /\ ~ job.overtaken => job.limit + Tail <= Cardinality(Live)
  PROVE  ConvInv'
  <1> USE DEF ConvInv, CompactionStep, deletionVars
  <1>1. compaction \in [Compactions -> Job] /\ summaries \subseteq Summary
    BY DEF ConvTypeOK, Summary
  <1>2. \A d \in Compactions : compaction'[d] = IF d = c THEN job ELSE compaction[d]
    BY <1>1
  <1>3. ConvTypeOK'
    BY <1>1 DEF ConvTypeOK, Summary
  <1>4. TurnsAreNew'
    BY DEF TurnsAreNew
  <1>5. SummariesAreNew'
    <2> SUFFICES ASSUME NEW s \in summaries' \cup before.summaries
                 PROVE  \/ s.try < compaction'[s.by].try
                        \/ s.try = compaction'[s.by].try
                           /\ compaction'[s.by].step \in {"summarised", "done", "archived"}
      BY DEF SummariesAreNew, Step
    <2>1. s.by \in Compactions
      BY DEF DeletionInv, BeforeTyped, Summary
    <2> QED BY <1>2, <2>1 DEF SummariesAreNew, Step
  <1>6. SummariesStand'
    BY <1>2 DEF SummariesStand, Step
  <1>7. CountsHold'
    BY <1>2 DEF CountsHold, Step, Live
  <1>8. RememberedUntilDeleted'
    BY DEF RememberedUntilDeleted, NothingForgotten
  <1>9. ConvDeleted'
    BY DEF ConvDeleted, Deleting
  <1> QED BY <1>3, <1>4, <1>5, <1>6, <1>7, <1>8, <1>9

\* A task that goes on without a summary of this try.
LEMMA TaskMoves ==
  ASSUME ConvInv, DeletionInv, NEW c \in Compactions, NEW job \in Job, CompactionStep(c, job),
         UNCHANGED summaries, compaction[c].try <= job.try,
         Step(c) \in {"summarised", "done", "archived"} =>
           compaction[c].try < job.try \/ job.step \in {"done", "archived"},
         job.step # "summarised",
         job.step = "counted" /\ ~ job.overtaken => job.limit + Tail <= Cardinality(Live)
  PROVE  ConvInv'
  <1>1. summaries \subseteq Summary
    BY DEF ConvInv, ConvTypeOK, Summary
  <1>2. compaction[c].try \in Nat /\ job.try \in Nat
    BY RetryAssumption DEF ConvInv, ConvTypeOK, Job
  <1>3. \A s \in summaries \cup before.summaries : s.try \in Nat
    BY <1>1, RetryAssumption DEF DeletionInv, BeforeTyped, Summary
  <1>4. \A s \in summaries \cup before.summaries : s.by = c =>
           \/ s.try < job.try
           \/ s.try = job.try /\ job.step \in {"summarised", "done", "archived"}
    <2> SUFFICES ASSUME NEW s \in summaries \cup before.summaries, s.by = c
                 PROVE  \/ s.try < job.try
                        \/ s.try = job.try /\ job.step \in {"summarised", "done", "archived"}
      OBVIOUS
    <2>1. \/ s.try < compaction[c].try
          \/ s.try = compaction[c].try /\ Step(c) \in {"summarised", "done", "archived"}
      BY DEF ConvInv, SummariesAreNew, Step
    <2>2. CASE s.try < compaction[c].try
      BY <1>2, <1>3, <2>2
    <2>3. CASE s.try = compaction[c].try /\ Step(c) \in {"summarised", "done", "archived"}
      BY <1>2, <2>3
    <2> QED BY <2>1, <2>2, <2>3
  <1> QED BY <1>1, <1>4, CompactionKeeps

\* What a task does, or the failure of what it does, keeps the conversation's part.
LEMMA EnqueueKeeps ==
  ASSUME ConvInv, DeletionInv, NEW c \in Compactions, EnqueueCompact(c), UNCHANGED deletionVars
  PROVE  ConvInv'
  <1> USE DEF EnqueueCompact, Step
  <1>1. compaction[c] \in Job
    BY DEF ConvInv, ConvTypeOK
  <1> DEFINE job == [compaction[c] EXCEPT !.step = "queued"]
  <1>2. job \in Job /\ job.step = "queued" /\ job.try = compaction[c].try
    BY <1>1 DEF Job
  <1>3. compaction' = [compaction EXCEPT ![c] = job]
    OBVIOUS
  <1>4. CompactionStep(c, job)
    BY <1>3 DEF CompactionStep
  <1>5. compaction[c].try <= job.try
    BY <1>1, <1>2, RetryAssumption DEF Job
  <1> HIDE DEF job
  <1> QED BY <1>2, <1>4, <1>5, TaskMoves

\* A compaction that counts holds no turns yet.
LEMMA CountKeeps ==
  ASSUME ConvInv, DeletionInv, NEW c \in Compactions, Count(c), UNCHANGED deletionVars
  PROVE  ConvInv'
  <1> USE DEF Count, Step
  <1>1. compaction[c] \in Job
    BY DEF ConvInv, ConvTypeOK
  <1>2. compaction[c].try \in Nat
    BY <1>1, RetryAssumption DEF Job
  <1>3. Cardinality(Live) \in Nat
    BY LiveTurns DEF ConvInv
  <1>4. CASE Cardinality(Live) < Threshold
    <2> DEFINE job == [compaction[c] EXCEPT !.step = "done"]
    <2>1. job \in Job /\ job.step = "done" /\ job.try = compaction[c].try
      BY <1>1 DEF Job
    <2>2. CompactionStep(c, job)
      BY <1>4 DEF CompactionStep
    <2>3. compaction[c].try <= job.try
      BY <1>2, <2>1
    <2> HIDE DEF job
    <2> QED BY <2>1, <2>2, <2>3, TaskMoves
  <1>5. CASE ~ Cardinality(Live) < Threshold
    <2> DEFINE limit == Cardinality(Live) - Tail
               job == [compaction[c] EXCEPT !.step = "counted", !.limit = limit,
                                            !.overtaken = FALSE]
    <2>1. limit \in Nat /\ limit + Tail <= Cardinality(Live)
      BY <1>3, <1>5, CompactionAssumption
    <2>2. PICK n \in Nat : n = limit
      BY <2>1
    <2>3. /\ job \in Job /\ job.step = "counted" /\ job.try = compaction[c].try
          /\ job.limit = limit
      BY <1>1, <2>2 DEF Job, Working
    <2>4. CompactionStep(c, job)
      BY <1>5 DEF CompactionStep
    <2>5. compaction[c].try <= job.try
      BY <1>2, <2>3
    <2> HIDE DEF job, limit
    <2> QED BY <2>1, <2>3, <2>4, <2>5, TaskMoves
  <1> QED BY <1>4, <1>5

\* The turns it finds are live ones.
LEMMA FindKeeps ==
  ASSUME ConvInv, DeletionInv, NEW c \in Compactions, Find(c), UNCHANGED deletionVars
  PROVE  ConvInv'
  <1> USE DEF Find, Step
  <1>1. compaction[c] \in Job
    BY DEF ConvInv, ConvTypeOK
  <1>2. PICK R \in SUBSET Live :
          compaction' = [compaction EXCEPT ![c].step = IF R = {} THEN "done" ELSE "found",
                                           ![c].read = R]
    OBVIOUS
  <1> DEFINE job == [compaction[c] EXCEPT !.step = IF R = {} THEN "done" ELSE "found",
                                          !.read = R]
  <1>3. R \in SUBSET Turns
    BY LiveTurns DEF ConvInv
  <1>4. job \in Job /\ job.step \in {"done", "found"} /\ job.try = compaction[c].try
    BY <1>1, <1>3 DEF Job, Working
  <1>5. CompactionStep(c, job)
    BY <1>2 DEF CompactionStep
  <1>6. compaction[c].try \in Nat
    BY <1>1, RetryAssumption DEF Job
  <1>7. compaction[c].try <= job.try
    BY <1>4, <1>6
  <1> HIDE DEF job
  <1> QED BY <1>4, <1>5, <1>7, TaskMoves

\* The summary it inserts covers the turns it holds.
LEMMA InsertSummaryKeeps ==
  ASSUME ConvInv, DeletionInv, NEW c \in Compactions, InsertSummary(c), UNCHANGED deletionVars
  PROVE  ConvInv'
  <1> USE DEF InsertSummary, Step
  <1>1. compaction[c] \in Job
    BY DEF ConvInv, ConvTypeOK
  <1>2. compaction[c].try \in 0 .. MaxRetry /\ compaction[c].read \in SUBSET Turns
    BY <1>1 DEF Job
  <1>t. PICK text \in SUBSET compaction[c].read :
          /\ IsText(text, compaction[c].read)
          /\ summaries' = summaries \cup
               {[by |-> c, try |-> compaction[c].try, read |-> compaction[c].read,
                 text |-> text]}
    OBVIOUS
  <1> DEFINE job == [compaction[c] EXCEPT !.step = "summarised"]
             new == [by |-> c, try |-> compaction[c].try, read |-> compaction[c].read,
                     text |-> text]
  <1>3. /\ job \in Job /\ job.step = "summarised" /\ job.try = compaction[c].try
        /\ job.read = compaction[c].read
    BY <1>1 DEF Job, Working
  <1>4. /\ new \in Summary /\ new.by = c /\ new.try = compaction[c].try
        /\ new.read = compaction[c].read /\ new.text = text
    BY <1>2 DEF Summary
  <1>5. CompactionStep(c, job) /\ summaries' = summaries \cup {new}
    BY <1>t DEF CompactionStep
  <1> HIDE DEF job, new
  <1>6. summaries' \subseteq Summary
    BY <1>4, <1>5 DEF ConvInv, ConvTypeOK, Summary
  <1>7. \A s \in summaries \cup before.summaries : s.by = c => s.try < job.try
    BY <1>3 DEF ConvInv, SummariesAreNew
  <1>8. new \notin before.summaries
    BY <1>2, <1>3, <1>4, <1>7, RetryAssumption
  <1>9. \A s \in summaries' \cup before.summaries :
          \/ s \in summaries \cup before.summaries /\ s.by # c
          \/ s.by = c /\ \/ s.try < job.try
                         \/ s.try = job.try /\ job.step \in {"summarised", "done", "archived"}
    BY <1>3, <1>4, <1>5, <1>7
  <1>10. \A m \in job.read : Covers(new, m)
    BY <1>t, <1>3, <1>4 DEF Covers, IsText, Oldest
  <1> QED BY <1>3, <1>4, <1>5, <1>6, <1>8, <1>9, <1>10, CompactionKeeps

\* Some of the turns a task read are marked, and the task leaves its step.
LEMMA MarkKeeps ==
  ASSUME ConvInv, DeletionInv, NEW c \in Compactions, NEW job \in Job,
         NEW marked \in SUBSET compaction[c].read, Step(c) = "summarised",
         compacted' = compacted \cup (marked \cap stored),
         compaction' = [Overtake(compaction, c) EXCEPT ![c] = job],
         UNCHANGED <<clock, drawn, stored, summaries, deletionVars>>,
         job.step \in {"done", "queued", "archived"}, compaction[c].try <= job.try,
         compaction[c].try = job.try => job.step \in {"done", "archived"}
  PROVE  ConvInv'
  <1> USE DEF ConvInv, deletionVars
  <1>1. compaction \in [Compactions -> Job]
    BY DEF ConvTypeOK
  <1>2. Overtake(compaction, c) \in [Compactions -> Job]
    BY <1>1, OvertakenJob
  <1>3. compaction' \in [Compactions -> Job] /\ compaction'[c] = job
    BY <1>2
  <1>4. \A d \in Compactions \ {c} :
          /\ compaction'[d] = Overtake(compaction, c)[d]
          /\ compaction'[d].step = compaction[d].step
          /\ compaction'[d].try = compaction[d].try
          /\ compaction'[d].read = compaction[d].read
          /\ compaction[d].step = "counted" => compaction'[d].overtaken
    BY <1>1, <1>2, OvertakenJob
  <1>5. ConvTypeOK'
    BY <1>3 DEF ConvTypeOK
  <1>6. TurnsAreNew'
    BY DEF TurnsAreNew
  <1>7. SummariesAreNew'
    <2> SUFFICES ASSUME NEW s \in summaries \cup before.summaries
                 PROVE  \/ s.try < compaction'[s.by].try
                        \/ s.try = compaction'[s.by].try
                           /\ compaction'[s.by].step \in {"summarised", "done", "archived"}
      BY DEF SummariesAreNew, Step
    <2>1. s.by \in Compactions /\ s.try \in Nat
      BY RetryAssumption DEF DeletionInv, BeforeTyped, Summary, ConvTypeOK
    <2>2. compaction[c].try \in Nat /\ job.try \in Nat
      BY <1>1, RetryAssumption DEF Job
    <2>3. \/ s.try < compaction[s.by].try
          \/ s.try = compaction[s.by].try /\ Step(s.by) \in {"summarised", "done", "archived"}
      BY DEF SummariesAreNew
    <2>4. CASE s.by = c
      <3>1. s.try <= compaction[c].try
        BY <2>1, <2>2, <2>3, <2>4
      <3> QED BY <1>3, <2>1, <2>2, <2>4, <3>1
    <2>5. CASE s.by # c
      BY <1>4, <2>1, <2>3, <2>5 DEF Step
    <2> QED BY <2>4, <2>5
  <1>8. SummariesStand'
    BY <1>3, <1>4 DEF SummariesStand, Step
  <1>9. CountsHold'
    BY <1>3, <1>4 DEF CountsHold, Step
  <1>10. RememberedUntilDeleted'
    <2> SUFFICES ASSUME ~ erased, NEW m \in compacted'
                 PROVE  \E s \in summaries : Covers(s, m)
      BY DEF RememberedUntilDeleted, NothingForgotten
    <2>1. CASE m \in compacted
      BY <2>1 DEF RememberedUntilDeleted, NothingForgotten
    <2>2. CASE m \notin compacted
      <3>1. PICK s \in summaries : \A k \in compaction[c].read : Covers(s, k)
        BY DEF SummariesStand
      <3> QED BY <2>2, <3>1
    <2> QED BY <2>1, <2>2
  <1>11. ConvDeleted'
    BY DEF ConvDeleted, Deleting
  <1> QED BY <1>5, <1>6, <1>7, <1>8, <1>9, <1>10, <1>11

\* The turns it marks have their summary.
LEMMA MarkCompactedKeeps ==
  ASSUME ConvInv, DeletionInv, NEW c \in Compactions, MarkCompacted(c), UNCHANGED deletionVars
  PROVE  ConvInv'
  <1> USE DEF MarkCompacted, Step
  <1>1. compaction \in [Compactions -> Job]
    BY DEF ConvInv, ConvTypeOK
  <1>2. compaction[c].try \in Nat
    BY <1>1, RetryAssumption DEF Job
  <1> DEFINE job == [compaction[c] EXCEPT !.step = "done"]
  <1>3. job \in Job /\ job.step = "done" /\ job.try = compaction[c].try
    BY <1>1 DEF Job
  <1>4. [compaction EXCEPT ![c].step = "done"] = [compaction EXCEPT ![c] = job]
    BY <1>1
  <1> HIDE DEF job
  <1>5. compaction' = [Overtake(compaction, c) EXCEPT ![c] = job]
    BY <1>1, <1>4 DEF Overtake
  <1>6. compaction[c].try <= job.try
    BY <1>2, <1>3
  <1> QED BY <1>3, <1>5, <1>6, MarkKeeps

\* A compaction that fails after its summary may have marked some of the turns.
LEMMA CompactFailsKeeps ==
  ASSUME ConvInv, DeletionInv, NEW c \in Compactions, CompactFails(c), UNCHANGED deletionVars
  PROVE  ConvInv'
  <1> USE DEF CompactFails, Step
  <1>1. compaction[c] \in Job
    BY DEF ConvInv, ConvTypeOK
  <1>2. PICK job \in Job : job = Retry(compaction[c])
    BY <1>1, RetryJob
  <1>3. /\ job.step \in {"queued", "archived"} /\ compaction[c].try <= job.try
        /\ compaction[c].try = job.try => job.step = "archived"
    BY <1>1, <1>2, RetryJob
  <1>4. compaction[c].try \in Nat /\ job.try \in Nat
    BY <1>1, RetryAssumption DEF Job
  <1>5. PICK marked \in IF Step(c) = "summarised" THEN SUBSET compaction[c].read ELSE {{}} :
          /\ compacted' = compacted \cup (marked \cap stored)
          /\ compaction' = [IF marked = {} THEN compaction ELSE Overtake(compaction, c)
                             EXCEPT ![c] = job]
    BY <1>2
  <1>6. CASE marked = {}
    <2>1. CompactionStep(c, job)
      BY <1>5, <1>6 DEF CompactionStep
    <2>2. Step(c) \in {"summarised", "done", "archived"} =>
            compaction[c].try < job.try \/ job.step \in {"done", "archived"}
      BY <1>3, <1>4
    <2> QED BY <1>3, <2>1, <2>2, TaskMoves
  <1>7. CASE marked # {}
    <2>1. Step(c) = "summarised" /\ marked \in SUBSET compaction[c].read
      BY <1>5, <1>7
    <2>2. compaction' = [Overtake(compaction, c) EXCEPT ![c] = job]
      BY <1>5, <1>7
    <2> QED BY <1>3, <1>5, <2>1, <2>2, MarkKeeps
  <1> QED BY <1>6, <1>7

\* The handlers and the memory queue keep the conversation's part.
LEMMA ConvKeeps ==
  ASSUME ConvInv, DeletionInv, ConvNext, UNCHANGED deletionVars
  PROVE  ConvInv'
  BY HandlerKeeps, EnqueueKeeps, CountKeeps, FindKeeps, InsertSummaryKeeps,
     MarkCompactedKeeps, CompactFailsKeeps DEF ConvNext, CompactStep

-----------------------------------------------------------------------------
(* The knowledge graph.                                                     *)

\* A step of one extraction task that leaves the graph as it is.
TaskStep(x, job) ==
  /\ extraction' = [extraction EXCEPT ![x] = job]
  /\ UNCHANGED <<graphVars, embedding, cacheVars, deletionVars>>

\* What such a step has to show: its window is new, its own or none.
LEMMA TaskKeeps ==
  ASSUME BrainInv, DeletionInv, NEW x \in Extractions, NEW job \in Task, TaskStep(x, job),
         window' \in [Texts -> 0 .. MaxWindows], windows' \in 0 .. MaxWindows,
         windows <= windows',
         \/ job.window = 0
         \/ job.window = extraction[x].window
         \/ windows < job.window /\ job.window <= windows',
         job.kept \subseteq extraction[x].kept
  PROVE  BrainInv'
  <1> USE DEF BrainInv, TaskStep, graphVars, cacheVars, deletionVars
  <1>1. extraction \in [Extractions -> Task]
    BY DEF BrainTypeOK
  <1>2. \A y \in Extractions : extraction'[y] = IF y = x THEN job ELSE extraction[y]
    BY <1>1
  <1>3. BrainTypeOK'
    BY <1>1 DEF BrainTypeOK
  <1>4. windows \in Nat /\ windows' \in Nat
    BY BrainAssumption DEF BrainTypeOK
  <1>5. \A y \in Extractions : extraction[y].window \in Nat /\ extraction[y].window <= windows
    BY <1>1, BrainAssumption DEF WindowsAreNew, Task
  <1>6. job.window \in Nat
    BY BrainAssumption DEF Task
  <1>7. WindowsAreNew'
    BY <1>2, <1>4, <1>5, <1>6 DEF WindowsAreNew
  <1>8. OneExtractionPerWindow'
    BY <1>2, <1>4, <1>5, <1>6 DEF OneExtractionPerWindow
  <1>9. KeptPagesExist'
    BY <1>2 DEF KeptPagesExist
  <1>10. ContentsAreNew' /\ BrainDeleted'
    BY DEF ContentsAreNew, BrainDeleted, Deleting
  <1> QED BY <1>3, <1>7, <1>8, <1>9, <1>10

\* A task begins, and begins again, with nothing.
LEMMA NotAskedTask ==
  ASSUME NEW step \in {"none", "queued", "done", "archived"}, NEW t \in Texts \cup {NoText},
         NEW try \in 0 .. MaxExtractRetry
  PROVE  /\ NotAsked(step, t, try) \in Task
         /\ NotAsked(step, t, try).window = 0
         /\ NotAsked(step, t, try).kept = {}
  BY BrainAssumption DEF NotAsked, Task

\* An extraction tried again holds no window.
LEMMA RetryTask ==
  ASSUME BrainInv, NEW x \in Extractions
  PROVE  /\ RetryExtract(x) \in Task
         /\ RetryExtract(x).window = 0
         /\ RetryExtract(x).kept = {}
  <1>1. extraction[x] \in Task
    BY DEF BrainInv, BrainTypeOK
  <1>2. extraction[x].try \in 0 .. MaxExtractRetry /\ extraction[x].text \in Texts \cup {NoText}
    BY <1>1 DEF Task
  <1>3. CASE x \notin Reflections /\ extraction[x].try < MaxExtractRetry
    <2>1. extraction[x].try + 1 \in 0 .. MaxExtractRetry
      BY <1>2, <1>3, BrainAssumption
    <2> QED BY <1>2, <1>3, <2>1, NotAskedTask DEF RetryExtract
  <1>4. CASE ~ (x \notin Reflections /\ extraction[x].try < MaxExtractRetry)
    BY <1>2, <1>4, NotAskedTask DEF RetryExtract
  <1> QED BY <1>3, <1>4

\* The steps of a task before and after it stores.
LEMMA QueueKeeps ==
  ASSUME BrainInv, DeletionInv, NEW x \in Extractions, UNCHANGED deletionVars,
         \/ \E t \in Texts : EnqueueExtract(x, t)
         \/ ExtractFails(x)
  PROVE  BrainInv'
  <1>1. window \in [Texts -> 0 .. MaxWindows] /\ windows \in 0 .. MaxWindows
    BY DEF BrainInv, BrainTypeOK
  <1>2. PICK job \in Task : /\ extraction' = [extraction EXCEPT ![x] = job]
                            /\ job.window = 0 /\ job.kept = {}
    <2>1. 0 \in 0 .. MaxExtractRetry
      BY BrainAssumption
    <2> QED BY <2>1, NotAskedTask, RetryTask DEF EnqueueExtract, ExtractFails
  <1>3. TaskStep(x, job) /\ UNCHANGED dedupVars
    BY <1>2 DEF TaskStep, EnqueueExtract, ExtractFails
  <1>4. windows <= windows'
    BY <1>1, <1>3, BrainAssumption DEF dedupVars
  <1> QED BY <1>1, <1>2, <1>3, <1>4, TaskKeeps DEF dedupVars

\* A task goes on with the window it had, or with one just drawn.
LEMMA DedupKeeps ==
  ASSUME BrainInv, DeletionInv, NEW x \in Extractions, UNCHANGED deletionVars,
         Dedup(x) \/ DedupFails(x)
  PROVE  BrainInv'
  <1> USE DEF dedupVars
  <1>1. window \in [Texts -> 0 .. MaxWindows] /\ windows \in 0 .. MaxWindows
    BY DEF BrainInv, BrainTypeOK
  <1>2. extraction[x] \in Task
    BY DEF BrainInv, BrainTypeOK
  <1>3. /\ windows' \in {windows, windows + 1} /\ windows' \in 0 .. MaxWindows
        /\ window' \in [Texts -> 0 .. MaxWindows] /\ windows <= windows'
    BY <1>1, BrainAssumption DEF Dedup, DedupFails
  <1>4. PICK st \in {"asking", "done"}, n \in 0 .. MaxWindows :
          /\ extraction' = [extraction EXCEPT ![x].step = st, ![x].window = n]
          /\ \/ n = extraction[x].window
             \/ n = windows' /\ windows' = windows + 1
    <2>1. CASE Dedup(x)
      <3>1. CASE window[extraction[x].text] = 0
        <4>1. windows' \in 0 .. MaxWindows /\ windows' = windows + 1
          BY <1>3, <2>1, <3>1 DEF Dedup
        <4>2. extraction' = [extraction EXCEPT ![x].step = "asking", ![x].window = windows']
          BY <2>1, <3>1 DEF Dedup
        <4> QED BY <4>1, <4>2
      <3>2. CASE window[extraction[x].text] # 0
        <4>1. extraction' = [extraction EXCEPT ![x].step = "done"]
          BY <2>1, <3>2 DEF Dedup
        <4>2. extraction' = [extraction EXCEPT ![x].step = "done",
                                               ![x].window = extraction[x].window]
          BY <1>2, <4>1 DEF Task
        <4> QED BY <1>2, <4>2 DEF Task
      <3> QED BY <3>1, <3>2
    <2>2. CASE DedupFails(x)
      <3>1. extraction' = [extraction EXCEPT ![x].step = "asking"]
        BY <2>2 DEF DedupFails
      <3>2. extraction' = [extraction EXCEPT ![x].step = "asking",
                                             ![x].window = extraction[x].window]
        BY <1>2, <3>1 DEF Task
      <3> QED BY <1>2, <3>2 DEF Task
    <2> QED BY <2>1, <2>2
  <1> DEFINE job == [extraction[x] EXCEPT !.step = st, !.window = n]
  <1>5. job \in Task /\ job.window = n /\ job.kept = extraction[x].kept
    BY <1>2 DEF Task, Extracting
  <1>6. TaskStep(x, job)
    BY <1>4 DEF TaskStep, Dedup, DedupFails
  <1> HIDE DEF job
  <1>7. \/ job.window = extraction[x].window
        \/ windows < job.window /\ job.window <= windows'
    BY <1>1, <1>4, <1>5, BrainAssumption
  <1> QED BY <1>3, <1>5, <1>6, <1>7, TaskKeeps

\* The model's answer and the end of a task leave its window and the pages it kept.
LEMMA AskKeeps ==
  ASSUME BrainInv, DeletionInv, NEW x \in Extractions, UNCHANGED deletionVars,
         Ask(x) \/ FinishExtract(x)
  PROVE  BrainInv'
  <1>1. window \in [Texts -> 0 .. MaxWindows] /\ windows \in 0 .. MaxWindows
    BY DEF BrainInv, BrainTypeOK
  <1>2. extraction[x] \in Task
    BY DEF BrainInv, BrainTypeOK
  <1>3. PICK job \in Task : /\ extraction' = [extraction EXCEPT ![x] = job]
                            /\ job.window = extraction[x].window
                            /\ job.kept = extraction[x].kept
    <2>1. CASE \E answer \in Answers :
                 extraction' = [extraction EXCEPT ![x].step = "storing",
                                                  ![x].left = answer.pages,
                                                  ![x].links = answer.links]
      <3>1. PICK answer \in Answers :
              extraction' = [extraction EXCEPT ![x].step = "storing",
                                               ![x].left = answer.pages,
                                               ![x].links = answer.links]
        BY <2>1
      <3>2. answer.pages \in SUBSET Slugs /\ answer.links \in SUBSET Links
        BY BrainAssumption
      <3> DEFINE new == [extraction[x] EXCEPT !.step = "storing", !.left = answer.pages,
                                              !.links = answer.links]
      <3>3. /\ new \in Task /\ new.window = extraction[x].window
            /\ new.kept = extraction[x].kept
        BY <1>2, <3>2 DEF Task, Extracting
      <3>4. extraction' = [extraction EXCEPT ![x] = new]
        BY <3>1
      <3> QED BY <3>3, <3>4
    <2>2. CASE extraction' = [extraction EXCEPT ![x].step = "done"]
      <3> DEFINE new == [extraction[x] EXCEPT !.step = "done"]
      <3>1. /\ new \in Task /\ new.window = extraction[x].window
            /\ new.kept = extraction[x].kept
        BY <1>2 DEF Task
      <3>2. extraction' = [extraction EXCEPT ![x] = new]
        BY <2>2
      <3> QED BY <3>1, <3>2
    <2> QED BY <2>1, <2>2 DEF Ask, FinishExtract
  <1>4. TaskStep(x, job) /\ UNCHANGED dedupVars
    BY <1>3 DEF TaskStep, Ask, FinishExtract
  <1>5. windows <= windows'
    BY <1>1, <1>4, BrainAssumption DEF dedupVars
  <1> QED BY <1>1, <1>3, <1>4, <1>5, TaskKeeps DEF dedupVars

\* A window is forgotten, and its number is not used again.
LEMMA ForgetWindowKeeps ==
  ASSUME BrainInv, DeletionInv, NEW t \in Texts, ForgetWindow(t), UNCHANGED deletionVars
  PROVE  BrainInv'
  <1> USE DEF BrainInv, ForgetWindow, graphVars, cacheVars, deletionVars
  <1>1. BrainTypeOK'
    BY BrainAssumption DEF BrainTypeOK
  <1> QED BY <1>1 DEF WindowsAreNew, OneExtractionPerWindow, KeptPagesExist,
                      ContentsAreNew, BrainDeleted, Deleting

\* A page that is written is one that was not there, and so is its embedding.
LEMMA UpsertKeeps ==
  ASSUME BrainInv, DeletionInv, NEW x \in Extractions, NEW s \in Slugs, Upserted(s),
         NEW job \in Task, extraction' = [extraction EXCEPT ![x] = job],
         job.window = extraction[x].window, job.kept \subseteq extraction[x].kept \cup {s},
         embedding' \subseteq embedding \cup
           {[slug |-> s, content |-> upserts[s] + 1, dead |-> FALSE]},
         invalidating' \in BOOLEAN,
         UNCHANGED <<edges, embedded, dedupVars, cache, reader, retrievals, deletionVars>>
  PROVE  BrainInv'
  <1> USE DEF BrainInv, dedupVars, deletionVars
  <1>1. /\ extraction \in [Extractions -> Task] /\ pages \in [Slugs -> Contents]
        /\ upserts \in [Slugs -> Contents]
    BY DEF BrainTypeOK
  <1>2. upserts[s] + 1 \in Contents /\ upserts[s] + 1 \in Nat \ {0}
    BY <1>1, BrainAssumption DEF Upserted, Contents
  <1>3. \A y \in Extractions : extraction'[y] = IF y = x THEN job ELSE extraction[y]
    BY <1>1
  <1>4. \A k \in Slugs : /\ upserts'[k] = IF k = s THEN upserts[s] + 1 ELSE upserts[k]
                         /\ pages'[k] = IF k = s THEN upserts[s] + 1 ELSE pages[k]
    BY <1>1 DEF Upserted
  <1>5. upserts' \in [Slugs -> Contents] /\ pages' \in [Slugs -> Contents]
    BY <1>1, <1>2 DEF Upserted
  <1>6. PICK new \in Embedding :
          new = [slug |-> s, content |-> upserts[s] + 1, dead |-> FALSE]
    BY <1>2 DEF Embedding
  <1>7. embedding' \subseteq embedding \cup {new} /\ new.slug = s /\ new.content = upserts[s] + 1
    BY <1>6
  <1>8. BrainTypeOK'
    BY <1>1, <1>5, <1>7 DEF BrainTypeOK
  <1>9. WindowsAreNew' /\ OneExtractionPerWindow'
    BY <1>3 DEF WindowsAreNew, OneExtractionPerWindow
  <1>10. KeptPagesExist'
    <2>1. \A y \in Extractions : extraction[y].kept \subseteq Slugs
      BY <1>1 DEF Task
    <2> QED BY <1>2, <1>3, <1>4, <2>1 DEF KeptPagesExist
  <1>12. \A k \in Slugs : upserts[k] \in Nat
    BY <1>1, BrainAssumption DEF Contents
  <1>13. /\ \A m \in embedding \cup embedded \cup before.embeddings :
              m.slug \in Slugs /\ m.content \in Nat
         /\ \A k \in Slugs : pages[k] \in Nat /\ before.pages[k] \in Nat
    BY <1>1, BrainAssumption
    DEF BrainTypeOK, Embedding, Contents, DeletionInv, BeforeTyped, Embedded
  <1>14. ContentsAreNew'
    <2>1. \A k \in Slugs : pages'[k] <= upserts'[k] /\ before.pages[k] <= upserts'[k]
      BY <1>4, <1>12, <1>13 DEF ContentsAreNew
    <2>2. \A m \in embedding \cup embedded \cup before.embeddings :
            m.content <= upserts[m.slug]
      BY DEF ContentsAreNew
    <2>3. \A m \in embedding' \cup embedded \cup before.embeddings :
            m.content <= upserts'[m.slug]
      BY <1>4, <1>7, <1>12, <1>13, <2>2
    <2>4. \A m \in embedding \cup embedded \cup before.embeddings :
            ~ (m.slug = new.slug /\ m.content = new.content)
      BY <1>7, <1>12, <1>13, <2>2
    <2>5. \A g \in embedding', m \in embedded \cup before.embeddings :
            ~ (m.slug = g.slug /\ m.content = g.content)
      BY <1>7, <2>4 DEF ContentsAreNew
    <2>6. \A g, m \in embedding' : m.slug = g.slug /\ m.content = g.content => g = m
      BY <1>7, <2>4 DEF ContentsAreNew
    <2> QED BY <2>1, <2>3, <2>5, <2>6 DEF ContentsAreNew
  <1>15. BrainDeleted'
    BY <1>4, <1>12, <1>13 DEF BrainDeleted, Deleting, ContentsAreNew
  <1> QED BY <1>8, <1>9, <1>10, <1>14, <1>15

\* A page that is stored exists, and its id is what the task keeps,
LEMMA StorePageKeeps ==
  ASSUME BrainInv, DeletionInv, NEW x \in Extractions, NEW s \in Slugs, StorePage(x, s),
         UNCHANGED deletionVars
  PROVE  BrainInv'
  <1> USE DEF StorePage
  <1>1. extraction[x] \in Task
    BY DEF BrainInv, BrainTypeOK
  <1> DEFINE job == [extraction[x] EXCEPT !.left = @ \ {s}, !.kept = @ \cup {s}]
  <1>2. /\ job \in Task /\ job.window = extraction[x].window
        /\ job.kept = extraction[x].kept \cup {s}
    BY <1>1 DEF Task
  <1>3. extraction' = [extraction EXCEPT ![x] = job]
    OBVIOUS
  <1> HIDE DEF job
  <1> QED BY <1>2, <1>3, UpsertKeeps

\* and one whose upsert is an error is not kept, though it may exist.
LEMMA StorePageFailsKeeps ==
  ASSUME BrainInv, DeletionInv, NEW x \in Extractions, NEW s \in Slugs, StorePageFails(x, s),
         UNCHANGED deletionVars
  PROVE  BrainInv'
  <1> USE DEF StorePageFails
  <1>1. extraction[x] \in Task
    BY DEF BrainInv, BrainTypeOK
  <1> DEFINE job == [extraction[x] EXCEPT !.left = @ \ {s}]
  <1>2. /\ job \in Task /\ job.window = extraction[x].window
        /\ job.kept = extraction[x].kept
    BY <1>1 DEF Task
  <1>3. extraction' = [extraction EXCEPT ![x] = job]
    OBVIOUS
  <1> HIDE DEF job
  <1>4. CASE Upserted(s)
    <2>1. invalidating' \in BOOLEAN
      BY DEF cacheVars, BrainInv, BrainTypeOK
    <2> QED BY <1>2, <1>3, <1>4, <2>1, UpsertKeeps DEF cacheVars
  <1>5. CASE UNCHANGED <<pages, upserts>>
    <2>1. TaskStep(x, job)
      BY <1>3, <1>5 DEF TaskStep, graphVars
    <2>2. /\ window \in [Texts -> 0 .. MaxWindows] /\ windows \in 0 .. MaxWindows
          /\ windows \in Nat /\ UNCHANGED dedupVars
      BY BrainAssumption DEF BrainInv, BrainTypeOK
    <2> QED BY <1>2, <2>1, <2>2, TaskKeeps DEF dedupVars
  <1> QED BY <1>4, <1>5

\* An edge joins two pages whose ids the task keeps.
LEMMA LinkPagesKeeps ==
  ASSUME BrainInv, DeletionInv, NEW x \in Extractions, NEW e \in Links, LinkPages(x, e),
         UNCHANGED deletionVars
  PROVE  BrainInv'
  <1> USE DEF LinkPages, BrainInv, dedupVars, deletionVars
  <1>1. extraction \in [Extractions -> Task]
    BY DEF BrainTypeOK
  <1> DEFINE job == [extraction[x] EXCEPT !.links = @ \ {e}]
  <1>2. /\ job \in Task /\ job.window = extraction[x].window
        /\ job.kept = extraction[x].kept
    BY <1>1 DEF Task
  <1>3. extraction' = [extraction EXCEPT ![x] = job]
    OBVIOUS
  <1> HIDE DEF job
  <1>4. \A y \in Extractions : extraction'[y] = IF y = x THEN job ELSE extraction[y]
    BY <1>1, <1>3
  <1>5. /\ edges' \in {edges, edges \cup {e}} /\ invalidating' \in BOOLEAN
        /\ edges' # edges => {e[1], e[2]} \subseteq extraction[x].kept
    BY DEF BrainTypeOK
  <1>6. BrainTypeOK'
    BY <1>1, <1>2, <1>3, <1>5 DEF BrainTypeOK
  <1>7. WindowsAreNew' /\ OneExtractionPerWindow' /\ KeptPagesExist'
    BY <1>2, <1>4 DEF WindowsAreNew, OneExtractionPerWindow, KeptPagesExist
  <1>8. ContentsAreNew' /\ BrainDeleted'
    BY DEF ContentsAreNew, BrainDeleted, Deleting
  <1> QED BY <1>6, <1>7, <1>8

\* What one goroutine writes, no other has written.
LEMMA EmbedKeeps ==
  ASSUME BrainInv, DeletionInv, NEW g \in embedding, Embed(g), UNCHANGED deletionVars
  PROVE  BrainInv'
  <1> USE DEF Embed, BrainInv, dedupVars, cacheVars, deletionVars
  <1>1. embedded' \subseteq embedded \cup {g} /\ embedding' = embedding \ {g}
    OBVIOUS
  <1>2. BrainTypeOK'
    BY <1>1 DEF BrainTypeOK
  <1>3. WindowsAreNew' /\ OneExtractionPerWindow' /\ KeptPagesExist'
    BY DEF WindowsAreNew, OneExtractionPerWindow, KeptPagesExist
  <1>4. ContentsAreNew'
    <2>1. \A h \in embedding', m \in embedded' \cup before.embeddings :
            ~ (m.slug = h.slug /\ m.content = h.content)
      <3> SUFFICES ASSUME NEW h \in embedding \ {g}, NEW m \in embedded' \cup before.embeddings,
                          m.slug = h.slug, m.content = h.content
                   PROVE  FALSE
        BY <1>1
      <3>1. CASE m = g
        BY <3>1 DEF ContentsAreNew
      <3>2. CASE m # g
        BY <1>1, <3>2 DEF ContentsAreNew
      <3> QED BY <3>1, <3>2
    <2> QED BY <1>1, <2>1 DEF ContentsAreNew
  <1>5. BrainDeleted'
    BY <1>1 DEF BrainDeleted, Deleting, ContentsAreNew
  <1> QED BY <1>2, <1>3, <1>4, <1>5

\* The retrieval cache and its readers leave the graph and its tasks alone.
LEMMA CacheKeeps ==
  ASSUME BrainInv, DeletionInv, BrainTypeOK',
         UNCHANGED <<graphVars, dedupVars, extraction, embedding, deletionVars>>
  PROVE  BrainInv'
  BY DEF BrainInv, graphVars, dedupVars, deletionVars, WindowsAreNew, OneExtractionPerWindow,
         KeptPagesExist, ContentsAreNew, BrainDeleted, Deleting

\* The retrieval cache is no part of the graph.
LEMMA InvalidateKeeps ==
  ASSUME BrainInv, DeletionInv, Invalidate \/ ForgetEntry, UNCHANGED deletionVars
  PROVE  BrainInv'
  <1>1. UNCHANGED <<graphVars, dedupVars, extraction, embedding>>
    BY DEF Invalidate, ForgetEntry
  <1>2. BrainTypeOK'
    BY <1>1 DEF Invalidate, ForgetEntry, BrainInv, BrainTypeOK, graphVars, dedupVars
  <1> QED BY <1>1, <1>2, CacheKeeps

\* What is read of the graph has the graph's type.
LEMMA ReadTypes ==
  ASSUME BrainTypeOK, NEW r \in Readers
  PROVE  /\ SeedPages \in [Slugs -> Contents]
         /\ Expanded(reader[r].read) \in [Slugs -> Contents]
         /\ Nothing \in [Slugs -> Contents]
  BY BrainAssumption DEF BrainTypeOK, SeedPages, Expanded, Nothing, Contents

\* A reader changes the cache alone.
LEMMA ReaderKeeps ==
  ASSUME BrainInv, DeletionInv, NEW r \in Readers, Lookup(r) \/ ReadStep(r),
         UNCHANGED deletionVars
  PROVE  BrainInv'
  <1> USE DEF BrainInv
  <1>1. UNCHANGED <<graphVars, dedupVars, extraction, embedding, invalidating>>
    BY DEF Lookup, ReadStep, ReadSeeds, ReadNeighbours, FillCache
  <1>2. \/ UNCHANGED reader
        \/ \E st \in {"idle", "missed", "seeded", "filling"}, f \in [Slugs -> Contents] :
             Reads(r, st, f)
    BY ReadTypes DEF Lookup, ReadStep, ReadSeeds, ReadNeighbours, FillCache
  <1>3. reader' \in [Readers -> [step : {"idle", "missed", "seeded", "filling"},
                                 read : [Slugs -> Contents]]]
    BY <1>2 DEF Reads, BrainTypeOK
  <1>4. cache' \in [Slugs -> Contents] \cup {NoEntry} /\ retrievals' \in 0 .. MaxRetrievals
    BY BrainAssumption DEF Lookup, ReadStep, ReadSeeds, ReadNeighbours, FillCache, BrainTypeOK
  <1>5. BrainTypeOK'
    BY <1>1, <1>3, <1>4 DEF BrainTypeOK, graphVars, dedupVars
  <1> QED BY <1>1, <1>5, CacheKeeps

\* The extractions, their goroutines and the readers keep the graph's part.
LEMMA BrainKeeps ==
  ASSUME BrainInv, DeletionInv, BrainNext, UNCHANGED deletionVars
  PROVE  BrainInv'
  BY QueueKeeps, DedupKeeps, AskKeeps, ForgetWindowKeeps, StorePageKeeps, StorePageFailsKeeps,
     LinkPagesKeeps, EmbedKeeps, InvalidateKeeps, ReaderKeeps DEF BrainNext, ExtractStep

-----------------------------------------------------------------------------
(* The deletion, and the worker's death.                                    *)

\* What is stored when a deletion begins has its type.
LEMMA ContainedTyped ==
  ASSUME ConvTypeOK, BrainTypeOK
  PROVE  /\ Contained.messages = stored /\ Contained.messages \subseteq Turns
         /\ Contained.summaries = summaries /\ Contained.summaries \subseteq Summary
         /\ Contained.pages = pages /\ Contained.pages \in [Slugs -> Contents]
         /\ Contained.embeddings \subseteq Embedded
         /\ \A b \in Contained.embeddings :
              \E m \in embedded : b.slug = m.slug /\ b.content = m.content
         /\ \A b \in Embedded : b \in Contained.embeddings =>
              \E m \in embedded : b.slug = m.slug /\ b.content = m.content
  <1>1. \A m \in embedded : [slug |-> m.slug, content |-> m.content] \in Embedded
    BY DEF BrainTypeOK, Embedding, Embedded
  <1> QED BY <1>1 DEF Contained, ConvTypeOK, BrainTypeOK, Summary

\* At the beginning of a deletion everything there is is before it.
LEMMA BeginDeleteKeeps ==
  ASSUME IInv, BeginDelete
  PROVE  IInv'
  <1> USE DEF IInv, BeginDelete, convVars, brainVars
  <1> DEFINE now == Contained
  <1>1. ConvTypeOK /\ BrainTypeOK
    BY DEF ConvInv, BrainInv
  <1>2. before' = now
    OBVIOUS
  <1>3. /\ now.messages = stored /\ now.messages \subseteq Turns
        /\ now.summaries = summaries /\ now.summaries \subseteq Summary
        /\ now.pages = pages /\ now.pages \in [Slugs -> Contents]
        /\ now.embeddings \subseteq Embedded
        /\ \A b \in now.embeddings : \E m \in embedded : b.slug = m.slug /\ b.content = m.content
    BY <1>1, ContainedTyped
  <1> HIDE DEF now
  <1>4. UNCHANGED <<convVars, brainVars>>
    OBVIOUS
  <1>5. load.stores \subseteq Stores
    BY DEF DeletionInv, Load
  <1>6. DeletionInv'
    <2>1. BeforeTyped'
      BY <1>2, <1>3 DEF BeforeTyped
    <2>2. deletions' \in Nat /\ crashes' \in Nat
      BY DEF DeletionInv
    <2> QED BY <1>5, <2>1, <2>2 DEF DeletionInv
  <1>7. ConvInv'
    <2>1. TurnsAreNew' /\ SummariesAreNew'
      BY <1>2, <1>3 DEF ConvInv, TurnsAreNew, SummariesAreNew, Step
    <2>2. ConvDeleted'
      BY DEF ConvDeleted
    <2> QED BY <2>1, <2>2 DEF ConvInv, ConvTypeOK, SummariesStand, CountsHold,
                              RememberedUntilDeleted, NothingForgotten, Live, Step
  <1>8. BrainInv'
    <2>1. BrainTypeOK' /\ WindowsAreNew' /\ OneExtractionPerWindow' /\ KeptPagesExist'
      BY DEF BrainInv, BrainTypeOK, WindowsAreNew, OneExtractionPerWindow, KeptPagesExist,
             graphVars, dedupVars, cacheVars
    <2>2. UNCHANGED <<pages, embedded, upserts, embedding>>
      BY DEF graphVars
    <2>3. ContentsAreNew'
      BY <1>2, <1>3, <2>2 DEF BrainInv, ContentsAreNew
    <2>4. BrainDeleted'
      BY DEF BrainDeleted
    <2> QED BY <2>1, <2>3, <2>4 DEF BrainInv
  <1> QED BY <1>6, <1>7, <1>8

\* A step that leaves the conversation, or the graph, as it is.
LEMMA ConvStays ==
  ASSUME ConvInv, UNCHANGED <<convVars, load, before>>, ~ erased' => ~ erased, ConvDeleted'
  PROVE  ConvInv'
  BY DEF ConvInv, convVars, ConvTypeOK, TurnsAreNew, SummariesAreNew, SummariesStand, CountsHold,
         RememberedUntilDeleted, NothingForgotten, Live, Step

\* Steps elsewhere keep the brain's invariant.
LEMMA BrainStays ==
  ASSUME BrainInv, UNCHANGED <<brainVars, load, before>>, BrainDeleted'
  PROVE  BrainInv'
  <1> USE DEF BrainInv, brainVars
  <1>1. BrainTypeOK' /\ WindowsAreNew' /\ OneExtractionPerWindow' /\ KeptPagesExist'
    BY DEF BrainTypeOK, WindowsAreNew, OneExtractionPerWindow, KeptPagesExist,
           graphVars, dedupVars, cacheVars
  <1>2. ContentsAreNew'
    BY DEF ContentsAreNew, graphVars
  <1> QED BY <1>1, <1>2

\* The deletion of the turns overtakes the compactions at work.
LEMMA DeleteMessagesKeeps ==
  ASSUME ConvInv, DeletionInv, DeleteMessages, pending' = pending \ {"messages"},
         UNCHANGED <<load, report, failing, erased, before>>
  PROVE  ConvInv'
  <1> USE DEF DeleteMessages, ConvInv
  <1>1. compaction \in [Compactions -> Job]
    BY DEF ConvTypeOK
  <1>2. \A c \in Compactions :
          /\ compaction'[c] \in Job /\ compaction'[c].overtaken
          /\ compaction'[c].step = compaction[c].step
          /\ compaction'[c].try = compaction[c].try
          /\ compaction'[c].read = compaction[c].read
    BY <1>1 DEF Job
  <1>3. compaction' \in [Compactions -> Job]
    BY <1>2
  <1>4. ConvTypeOK'
    BY <1>3 DEF ConvTypeOK
  <1>5. TurnsAreNew'
    BY DEF TurnsAreNew
  <1>6. SummariesAreNew'
    <2>1. \A s \in summaries \cup before.summaries : s.by \in Compactions
      BY DEF DeletionInv, BeforeTyped, ConvTypeOK, Summary
    <2> QED BY <1>2, <2>1 DEF SummariesAreNew, Step
  <1>7. SummariesStand' /\ CountsHold' /\ RememberedUntilDeleted' /\ ConvDeleted'
    BY <1>2 DEF SummariesStand, CountsHold, RememberedUntilDeleted, NothingForgotten,
                ConvDeleted, Deleting, Step
  <1> QED BY <1>4, <1>5, <1>6, <1>7

\* Once summaries are erased nothing is expected of the turns they covered.
LEMMA DeleteSummariesKeeps ==
  ASSUME ConvInv, DeletionInv, DeleteSummaries, pending' = pending \ {"summaries"}, erased',
         UNCHANGED <<load, report, failing, before>>
  PROVE  ConvInv'
  BY DEF DeleteSummaries, ConvInv, ConvTypeOK, TurnsAreNew, SummariesAreNew, SummariesStand,
         CountsHold, RememberedUntilDeleted, ConvDeleted, Deleting, Live, Step

\* Orphans are the embeddings they were, but for the mark.
LEMMA OrphanEmbeddings ==
  ASSUME NEW E \in SUBSET Embedding
  PROVE  /\ Orphans(E) \subseteq Embedding
         /\ \A m \in Orphans(E) : m.dead
         /\ \A m \in Orphans(E) : \E k \in E : m.slug = k.slug /\ m.content = k.content
  BY DEF Orphans, Embedding

\* Pages take their edges along; ids and embeddings that are left are of no row.
LEMMA DeletePagesKeeps ==
  ASSUME BrainInv, DeletionInv, DeletePages, pending' = pending \ {"pages"},
         UNCHANGED <<load, report, failing, before>>
  PROVE  BrainInv'
  <1> USE DEF DeletePages, BrainInv, dedupVars, cacheVars
  <1>1. extraction \in [Extractions -> Task] /\ embedded \in SUBSET Embedding
        /\ embedding \in SUBSET Embedding
    BY DEF BrainTypeOK
  <1>2. \A x \in Extractions : /\ extraction'[x] \in Task /\ extraction'[x].kept = {}
                               /\ extraction'[x].window = extraction[x].window
    BY <1>1 DEF Task
  <1>3. extraction' \in [Extractions -> Task]
    BY <1>2
  <1>4. Nothing \in [Slugs -> Contents] /\ \A s \in Slugs : Nothing[s] = 0
    BY BrainAssumption DEF Nothing, Contents
  <1>5. BrainTypeOK'
    BY <1>1, <1>3, <1>4, OrphanEmbeddings DEF BrainTypeOK
  <1>6. WindowsAreNew' /\ OneExtractionPerWindow' /\ KeptPagesExist'
    BY <1>2 DEF WindowsAreNew, OneExtractionPerWindow, KeptPagesExist
  <1>7. \A m \in embedded' : \E k \in embedded : m.slug = k.slug /\ m.content = k.content
    BY <1>1, OrphanEmbeddings
  <1>8. \A m \in embedding' : m.dead /\ m \in Embedding
                              /\ \E k \in embedding : m.slug = k.slug /\ m.content = k.content
    BY <1>1, OrphanEmbeddings
  <1>9. ContentsAreNew'
    <2>1. \A s \in Slugs : upserts[s] \in Nat /\ pages'[s] = 0
      BY <1>4, BrainAssumption DEF BrainTypeOK, Contents
    <2>2. \A s \in Slugs : pages'[s] <= upserts'[s] /\ before.pages[s] <= upserts'[s]
      BY <2>1 DEF ContentsAreNew
    <2>3. \A m \in embedding' \cup embedded' \cup before.embeddings :
            m.content <= upserts'[m.slug]
      BY <1>7, <1>8 DEF ContentsAreNew
    <2>4. \A g \in embedding', m \in embedded' \cup before.embeddings :
            ~ (m.slug = g.slug /\ m.content = g.content)
      BY <1>7, <1>8 DEF ContentsAreNew
    <2>5. \A g, m \in embedding' : m.slug = g.slug /\ m.content = g.content => g = m
      <3> SUFFICES ASSUME NEW g \in embedding', NEW m \in embedding',
                          m.slug = g.slug, m.content = g.content
                   PROVE  g = m
        OBVIOUS
      <3>1. g \in Embedding /\ m \in Embedding /\ g.dead = TRUE /\ m.dead = TRUE
        BY <1>8 DEF Embedding
      <3> QED BY <3>1 DEF Embedding
    <2> QED BY <2>2, <2>3, <2>4, <2>5 DEF ContentsAreNew
  <1>10. BrainDeleted'
    BY <1>4, <1>7 DEF BrainDeleted, Deleting
  <1> QED BY <1>5, <1>6, <1>9, <1>10

\* The deletion of the embeddings leaves the graph alone.
LEMMA DeleteEmbeddingsKeeps ==
  ASSUME BrainInv, DeletionInv, DeleteEmbeddings, pending' = pending \ {"embeddings"},
         UNCHANGED <<load, report, failing, before>>
  PROVE  BrainInv'
  BY DEF DeleteEmbeddings, BrainInv, dedupVars, cacheVars, BrainTypeOK, WindowsAreNew,
         OneExtractionPerWindow, KeptPagesExist, ContentsAreNew, BrainDeleted,
         Deleting

\* A graph without edges is closed.
LEMMA DeleteEdgesKeeps ==
  ASSUME BrainInv, DeletionInv, DeleteEdges, pending' = pending \ {"edges"},
         UNCHANGED <<load, report, failing, before>>
  PROVE  BrainInv'
  BY DEF DeleteEdges, BrainInv, dedupVars, cacheVars, BrainTypeOK, WindowsAreNew,
         OneExtractionPerWindow, KeptPagesExist, ContentsAreNew, BrainDeleted,
         Deleting

\* Each store's delete keeps the invariant.
LEMMA DeleteStoreKeeps ==
  ASSUME IInv, NEW s \in Stores, DeleteStore(s)
  PROVE  IInv'
  <1> USE DEF IInv, DeleteStore
  <1>1. DeletionInv'
    BY DEF DeletionInv, BeforeTyped
  <1>2. CASE s = "messages"
    <2>1. DeleteMessages /\ UNCHANGED brainVars /\ erased' = erased
      BY <1>2 DEF DeleteMessages, DeletionInv
    <2>2. ConvInv'
      BY <1>2, <2>1, DeleteMessagesKeeps
    <2>3. BrainDeleted'
      BY <1>2, <2>1 DEF BrainInv, BrainDeleted, Deleting, brainVars, graphVars
    <2> QED BY <1>1, <2>1, <2>2, <2>3, BrainStays
  <1>3. CASE s = "summaries"
    <2>1. DeleteSummaries /\ UNCHANGED brainVars /\ erased'
      BY <1>3 DEF DeleteSummaries
    <2>2. ConvInv'
      BY <1>3, <2>1, DeleteSummariesKeeps
    <2>3. BrainDeleted'
      BY <1>3, <2>1 DEF BrainInv, BrainDeleted, Deleting, brainVars, graphVars
    <2> QED BY <1>1, <2>1, <2>2, <2>3, BrainStays
  <1>4. CASE s \in {"edges", "pages", "embeddings"}
    <2>1. UNCHANGED convVars /\ erased' = erased
      BY <1>4 DEF DeletionInv, DeleteEdges, DeletePages, DeleteEmbeddings
    <2>2. ConvDeleted'
      BY <1>4, <2>1 DEF ConvInv, ConvDeleted, Deleting, convVars
    <2>3. ConvInv'
      BY <2>1, <2>2, ConvStays
    <2>4. BrainInv'
      BY <1>4, DeleteEdgesKeeps, DeletePagesKeeps, DeleteEmbeddingsKeeps
    <2> QED BY <1>1, <2>3, <2>4
  <1> QED BY <1>2, <1>3, <1>4 DEF Stores

\* One that is an error, and the end of the deletion, claim no more than is so.
LEMMA DeleteEndsKeeps ==
  ASSUME IInv, (\E s \in Stores : DeleteStoreFails(s)) \/ EndDelete
  PROVE  IInv'
  <1> USE DEF IInv, DeleteStoreFails, EndDelete
  <1>1. DeletionInv'
    <2>1. CASE \E s \in Stores : DeleteStoreFails(s)
      BY <2>1 DEF DeletionInv, BeforeTyped
    <2>2. CASE EndDelete
      <3>1. report' \in {"ok", "failed"} /\ (report' = "ok" => ~ failing)
        BY <2>2
      <3>2. failing' = failing /\ pending' = {}
        BY <2>2
      <3> QED BY <2>2, <3>1, <3>2 DEF DeletionInv, BeforeTyped
    <2> QED BY <2>1, <2>2
  <1>2. UNCHANGED <<convVars, brainVars, load, before, erased>>
    OBVIOUS
  <1>3. Deleting' => Deleting /\ pending' = pending
    BY DEF Deleting, DeletionInv
  <1>4. ConvDeleted' /\ BrainDeleted'
    BY <1>2, <1>3
    DEF ConvInv, ConvDeleted, BrainInv, BrainDeleted, convVars, brainVars, graphVars
  <1> QED BY <1>1, <1>2, <1>4, ConvStays, BrainStays

\* A crash ends the goroutines, and a task at work is tried again or archived.
LEMMA CrashKeeps ==
  ASSUME IInv, Crash
  PROVE  IInv'
  <1> USE DEF IInv, Crash
  <1>1. DeletionInv'
    <2>1. crashes' \in Nat
      BY DEF DeletionInv
    <2>2. UNCHANGED <<load, deletions, report, pending, failing, erased, before>>
      OBVIOUS
    <2>3. BeforeTyped'
      BY <2>2 DEF DeletionInv, BeforeTyped
    <2> HIDE DEF Crash
    <2> QED BY <2>1, <2>2, <2>3 DEF DeletionInv
  <1>2. ConvInv'
    <2> USE DEF ConvInv
    <2>1. compaction \in [Compactions -> Job]
      BY DEF ConvTypeOK
    <2>2. \A c \in Compactions :
            \/ compaction'[c] = compaction[c] /\ Step(c) \notin Working
            \/ compaction'[c] = Retry(compaction[c])
      BY DEF Step
    <2>3. \A c \in Compactions :
            /\ Retry(compaction[c]) \in Job
            /\ Retry(compaction[c]).step \in {"queued", "archived"}
            /\ compaction[c].try <= Retry(compaction[c]).try
            /\ compaction[c].try = Retry(compaction[c]).try =>
                 Retry(compaction[c]).step = "archived"
      BY <2>1, RetryJob
    <2>4. compaction' \in [Compactions -> Job]
      BY <2>1, <2>3
    <2>5. \A c \in Compactions : compaction[c].try \in Nat /\ compaction'[c].try \in Nat
      BY <2>1, <2>4, RetryAssumption DEF Job
    <2>6. drawn' \in [Handlers -> Turns \cup {0}] /\ \A h \in Handlers : drawn'[h] = 0
      OBVIOUS
    <2>7. ConvTypeOK'
      BY <2>4, <2>6 DEF ConvTypeOK
    <2>8. TurnsAreNew'
      BY <2>6 DEF TurnsAreNew
    <2>9. SummariesAreNew'
      <3> SUFFICES ASSUME NEW m \in summaries \cup before.summaries
                   PROVE  \/ m.try < compaction'[m.by].try
                          \/ m.try = compaction'[m.by].try
                             /\ compaction'[m.by].step \in {"summarised", "done", "archived"}
        BY DEF SummariesAreNew, Step
      <3>1. m.by \in Compactions /\ m.try \in Nat
        BY RetryAssumption DEF DeletionInv, BeforeTyped, Summary, ConvTypeOK
      <3>2. \/ m.try < compaction[m.by].try
            \/ m.try = compaction[m.by].try /\ Step(m.by) \in {"summarised", "done", "archived"}
        BY DEF SummariesAreNew
      <3>3. CASE compaction'[m.by] = compaction[m.by]
        BY <3>2, <3>3 DEF Step
      <3>4. CASE compaction'[m.by] = Retry(compaction[m.by])
        BY <2>3, <2>5, <3>1, <3>2, <3>4
      <3> QED BY <2>2, <3>1, <3>3, <3>4
    <2>10. SummariesStand' /\ CountsHold'
      BY <2>2, <2>3 DEF SummariesStand, CountsHold, Step, Working, Live
    <2> QED BY <2>7, <2>8, <2>9, <2>10 DEF RememberedUntilDeleted, NothingForgotten,
                                           ConvDeleted, Deleting
  <1>3. BrainInv'
    <2> USE DEF BrainInv, graphVars, dedupVars
    <2>1. extraction \in [Extractions -> Task]
      BY DEF BrainTypeOK
    <2>2. \A x \in Extractions :
            \/ extraction'[x] = extraction[x]
            \/ extraction'[x] = RetryExtract(x)
      OBVIOUS
    <2>3. \A x \in Extractions :
            /\ RetryExtract(x) \in Task /\ RetryExtract(x).window = 0
            /\ RetryExtract(x).kept = {}
      BY RetryTask
    <2>4. extraction' \in [Extractions -> Task]
      BY <2>1, <2>3
    <2>5. reader' \in [Readers -> [step : {"idle", "missed", "seeded", "filling"},
                                   read : [Slugs -> Contents]]]
      BY ReadTypes
    <2>6. BrainTypeOK'
      BY <2>4, <2>5 DEF BrainTypeOK
    <2>7. WindowsAreNew' /\ OneExtractionPerWindow'
      <3>1. windows \in Nat
        BY BrainAssumption DEF BrainTypeOK
      <3> QED BY <2>2, <2>3, <3>1 DEF WindowsAreNew, OneExtractionPerWindow
    <2>8. KeptPagesExist'
      BY <2>2, <2>3 DEF KeptPagesExist
    <2> QED BY <2>6, <2>7, <2>8 DEF ContentsAreNew, BrainDeleted, Deleting
  <1> QED BY <1>1, <1>2, <1>3

-----------------------------------------------------------------------------
(* The theorems.                                                            *)

\* The initial state satisfies the inductive invariant.
LEMMA InitIInv == Init => IInv
  <1> SUFFICES ASSUME Init PROVE IInv
    OBVIOUS
  <1> USE DEF Init, ConvInit, BrainInit
  <1>1. ConvTypeOK
    BY TurnsAssumption, RetryAssumption DEF ConvTypeOK, Turns, NotQueued, Job
  <1>2. Nothing \in [Slugs -> Contents] /\ \A s \in Slugs : Nothing[s] = 0
    BY BrainAssumption DEF Nothing, Contents
  <1>3. \A x \in Extractions : /\ extraction[x] \in Task /\ extraction[x].window = 0
                               /\ extraction[x].kept = {}
    <2>1. 0 \in 0 .. MaxExtractRetry
      BY BrainAssumption
    <2> QED BY <2>1, NotAskedTask
  <1>4. extraction \in [Extractions -> Task]
    BY <1>3
  <1>5. BrainTypeOK
    <2>1. reader \in [Readers -> [step : {"idle", "missed", "seeded", "filling"},
                                  read : [Slugs -> Contents]]]
      BY <1>2
    <2>2. windows \in 0 .. MaxWindows /\ window \in [Texts -> 0 .. MaxWindows]
          /\ retrievals \in 0 .. MaxRetrievals
      BY BrainAssumption
    <2> QED BY <1>2, <1>4, <2>1, <2>2 DEF BrainTypeOK
  <1>6. before.messages = {} /\ before.summaries = {} /\ before.pages = Nothing
        /\ before.embeddings = {}
    BY DEF Contained
  <1>7. DeletionInv
    <2>1. load \in Load
      BY LoadsAssumption
    <2> QED BY <1>2, <1>6, <2>1 DEF DeletionInv, BeforeTyped
  <1>8. ConvInv
    <2>1. \A c \in Compactions : Step(c) = "none"
      BY DEF Step, NotQueued
    <2> QED BY <1>1, <1>6, <2>1 DEF ConvInv, TurnsAreNew, SummariesAreNew, SummariesStand,
              CountsHold, RememberedUntilDeleted, NothingForgotten, ConvDeleted, Deleting
  <1>9. BrainInv
    BY <1>2, <1>3, <1>5, <1>6
    DEF BrainInv, WindowsAreNew, OneExtractionPerWindow, KeptPagesExist,
        ContentsAreNew, BrainDeleted, Deleting
  <1> QED BY <1>7, <1>8, <1>9 DEF IInv

\* Every step keeps it.
LEMMA NextIInv == IInv /\ [Next]_vars => IInv'
  <1> SUFFICES ASSUME IInv, [Next]_vars PROVE IInv'
    OBVIOUS
  <1>1. ASSUME UNCHANGED deletionVars PROVE DeletionInv'
    BY <1>1 DEF IInv, DeletionInv, BeforeTyped, deletionVars
  <1>2. CASE ConvNext /\ UNCHANGED <<brainVars, deletionVars>>
    <2>1. BrainDeleted'
      BY <1>2 DEF IInv, BrainInv, BrainDeleted, Deleting, brainVars, graphVars, deletionVars
    <2>2. UNCHANGED <<brainVars, load, before>>
      BY <1>2 DEF deletionVars
    <2> QED BY <1>1, <1>2, <2>1, <2>2, ConvKeeps, BrainStays DEF IInv
  <1>3. CASE BrainNext /\ UNCHANGED <<convVars, deletionVars>>
    <2>1. ConvDeleted'
      BY <1>3 DEF IInv, ConvInv, ConvDeleted, Deleting, convVars, deletionVars
    <2>2. UNCHANGED <<convVars, load, before>> /\ erased' = erased
      BY <1>3 DEF deletionVars
    <2> QED BY <1>1, <1>3, <2>1, <2>2, BrainKeeps, ConvStays DEF IInv
  <1>4. CASE UNCHANGED vars
    <2>1. UNCHANGED <<convVars, brainVars, load, before>> /\ erased' = erased
          /\ UNCHANGED deletionVars
      BY <1>4 DEF vars, deletionVars
    <2>2. ConvDeleted' /\ BrainDeleted'
      BY <2>1 DEF IInv, ConvInv, ConvDeleted, BrainInv, BrainDeleted, Deleting, convVars,
                  brainVars, graphVars, deletionVars
    <2> QED BY <1>1, <2>1, <2>2, ConvStays, BrainStays DEF IInv
  <1> QED BY <1>2, <1>3, <1>4, BeginDeleteKeeps, DeleteStoreKeeps, DeleteEndsKeeps, CrashKeeps
          DEF Next, MemoryStep

\* The invariant holds of every behaviour.
THEOREM Invariance == Spec => []IInv
  BY InitIInv, NextIInv, PTL DEF Spec

\* Every variable has its type, and every id a task holds is of a row that may exist.
THEOREM TypeCorrect == Spec => []TypeOK
  <1>1. IInv => TypeOK
    BY DEF IInv, ConvInv, BrainInv, DeletionInv, TypeOK
  <1> QED BY <1>1, Invariance, PTL

\* service.go:642: what leaves the prompt's history is in the text of a summary or lies
\* behind the end of a full one, whatever fails, is retried, dies or runs beside it, until
\* the user has the summaries deleted.
THEOREM Remembered == Spec => []RememberedUntilDeleted
  <1>1. IInv => RememberedUntilDeleted
    BY DEF IInv, ConvInv
  <1> QED BY <1>1, Invariance, PTL

\* extraction.go: one task of a text asks the model within one life of its dedup key.
THEOREM OneExtraction == Spec => []OneExtractionPerWindow
  <1>1. IInv => OneExtractionPerWindow
    BY DEF IInv, BrainInv
  <1> QED BY <1>1, Invariance, PTL

\* service.go of pdpa: what was stored when a deletion began that is reported done is
\* gone, although the worker, its retries and its goroutines went on meanwhile.
THEOREM Deletion == Spec => []DoneMeansDeleted
  <1>1. IInv => DoneMeansDeleted
    <2> SUFFICES ASSUME IInv, report = "ok" PROVE DoneMeansDeleted
      BY DEF DoneMeansDeleted
    <2> USE DEF IInv, ConvInv, BrainInv
    <2>1. Deleting /\ pending = {}
      BY DEF DeletionInv, Deleting
    <2>2. "messages" \in load.stores => stored \cap before.messages = {}
      BY <2>1 DEF ConvDeleted
    <2>3. "summaries" \in load.stores => summaries \cap before.summaries = {}
      BY <2>1 DEF ConvDeleted
    <2>4. "embeddings" \in load.stores => Contained.embeddings \cap before.embeddings = {}
      <3> SUFFICES ASSUME "embeddings" \in load.stores, NEW b \in Contained.embeddings,
                          b \in before.embeddings
                   PROVE  FALSE
        OBVIOUS
      <3>1. PICK k \in embedded : b.slug = k.slug /\ b.content = k.content
        BY ContainedTyped
      <3> QED BY <2>1, <3>1 DEF BrainDeleted
    <2>5. "pages" \in load.stores =>
            \A s \in Slugs : before.pages[s] # 0 => pages[s] # before.pages[s]
      BY <2>1 DEF BrainDeleted
    <2> QED BY <2>2, <2>3, <2>4, <2>5 DEF DoneMeansDeleted
  <1> QED BY <1>1, Invariance, PTL

\* service.go:642: a compaction leaves the tail alone, however many turns arrive between
\* its count and its find, unless another one or a deletion came in between.
THEOREM TailStays == Spec => TailIsLeft
  <1>1. IInv /\ [Next]_vars =>
          [\A c \in Compactions :
             Step(c) = "counted" /\ compaction'[c].step = "found" =>
               compaction[c].overtaken
               \/ Cardinality(Live \ compaction'[c].read) >= Tail]_convVars
    <2> SUFFICES ASSUME IInv, Next, NEW c \in Compactions,
                        Step(c) = "counted", compaction'[c].step = "found",
                        ~ compaction[c].overtaken
                 PROVE  Cardinality(Live \ compaction'[c].read) >= Tail
      BY DEF vars, convVars
    <2> USE DEF IInv, ConvInv, Step
    <2>1. compaction \in [Compactions -> Job]
      BY DEF ConvTypeOK
    <2>2. Find(c)
      <3>1. CASE ConvNext
        <4>1. ASSUME NEW h \in Handlers, HandlerStep(h) PROVE FALSE
          BY <4>1 DEF HandlerStep, DrawTurn, SaveTurn
        <4>2. ASSUME NEW d \in Compactions, EnqueueCompact(d) PROVE FALSE
          BY <2>1, <4>2 DEF EnqueueCompact
        <4>3. ASSUME NEW d \in Compactions, Count(d) PROVE FALSE
          BY <2>1, <4>3 DEF Count
        <4>4. ASSUME NEW d \in Compactions, Find(d), d # c PROVE FALSE
          BY <2>1, <4>4 DEF Find
        <4>5. ASSUME NEW d \in Compactions, InsertSummary(d) PROVE FALSE
          BY <2>1, <4>5 DEF InsertSummary
        <4>6. ASSUME NEW d \in Compactions, MarkCompacted(d) PROVE FALSE
          <5>1. c # d
            BY <4>6 DEF MarkCompacted
          <5>2. compaction'[c].step \in {"counted"}
            BY <2>1, <4>6, <5>1 DEF MarkCompacted, Overtake
          <5> QED BY <5>2
        <4>7. ASSUME NEW d \in Compactions, CompactFails(d) PROVE FALSE
          <5>1. CASE d = c
            <6>1. compaction'[c] = Retry(compaction[c])
              BY <2>1, <4>7, <5>1 DEF CompactFails, Overtake
            <6> QED BY <2>1, <6>1, RetryJob
          <5>2. CASE d # c
            <6>1. compaction'[c].step = "counted"
              BY <2>1, <4>7, <5>2, OvertakenJob DEF CompactFails
            <6> QED BY <6>1
          <5> QED BY <5>1, <5>2
        <4> QED BY <3>1, <4>1, <4>2, <4>3, <4>4, <4>5, <4>6, <4>7 DEF ConvNext, CompactStep
      <3>2. CASE UNCHANGED compaction
        BY <3>2
      <3>3. CASE \E s \in Stores : DeleteStore(s)
        <4>1. CASE DeleteMessages
          <5>1. compaction'[c].step = compaction[c].step
            BY <2>1, <4>1 DEF DeleteMessages, Job
          <5> QED BY <5>1
        <4>2. CASE UNCHANGED compaction
          BY <4>2
        <4> QED BY <3>3, <4>1, <4>2
              DEF DeleteStore, DeleteSummaries, DeleteEdges, DeletePages, DeleteEmbeddings, convVars
      <3>4. CASE Crash
        <4>1. compaction'[c] = Retry(compaction[c])
          BY <2>1, <3>4 DEF Crash, Working
        <4> QED BY <2>1, <4>1, RetryJob
      <3> QED BY <3>1, <3>2, <3>3, <3>4
            DEF Next, MemoryStep, BeginDelete, DeleteStoreFails, EndDelete, convVars
    <2>3. PICK R \in SUBSET Live :
            /\ IsOldest(R, Live, compaction[c].limit)
            /\ compaction' = [compaction EXCEPT ![c].step = IF R = {} THEN "done" ELSE "found",
                                                ![c].read = R]
      BY <2>2 DEF Find
    <2>4. compaction'[c].read = R
      BY <2>1, <2>3 DEF Job
    <2>5. Cardinality(R) <= compaction[c].limit
      BY <2>3 DEF IsOldest
    <2>6. compaction[c].limit + Tail <= Cardinality(Live) /\ compaction[c].limit \in Nat
      BY <2>1 DEF CountsHold, Job
    <2>7. IsFiniteSet(Live) /\ Cardinality(Live) \in Nat /\ Live \cap R = R
      BY LiveTurns
    <2>8. Cardinality(R) \in Nat
      BY <2>7, FS_Subset, FS_CardinalityType
    <2>9. Cardinality(Live \ R) = Cardinality(Live) - Cardinality(R)
      <3>1. Cardinality(Live \ R) = Cardinality(Live) - Cardinality(Live \cap R)
        BY <2>7, FS_Difference
      <3> QED BY <2>7, <3>1
    <2> QED BY <2>4, <2>5, <2>6, <2>7, <2>8, <2>9, CompactionAssumption
  <1> QED BY <1>1, Invariance, PTL DEF Spec, TailIsLeft

-----------------------------------------------------------------------------
(* Tasks go forward.                                                        *)

CompactionsForward == \A c \in Compactions : CompactionForward(c)
ExtractionsForward == \A x \in Extractions : ExtractionForward(x)

\* A job that is retried is ahead of the one that failed, and so is its archive.
LEMMA RetryForward ==
  ASSUME NEW job \in Job, job.step \in Working \cup {"queued"}
  PROVE  \/ job.try < Retry(job).try
         \/ job.try = Retry(job).try
            /\ CompactionOrder(job.step) < CompactionOrder(Retry(job).step)
  <1>1. job.try \in Nat /\ Retry(job).try \in Nat
    BY RetryJob, RetryAssumption DEF Job
  <1>2. CompactionOrder("archived") = 5 /\ CompactionOrder(job.step) < 5
    BY DEF CompactionOrder, Working
  <1>3. CASE job.try = Retry(job).try
    <2>1. Retry(job).step = "archived"
      BY <1>3, RetryJob
    <2> QED BY <1>2, <1>3, <2>1
  <1>4. CASE job.try # Retry(job).try
    BY <1>1, <1>4, RetryJob
  <1> QED BY <1>3, <1>4

\* The same for an extraction.
LEMMA RetryExtractForward ==
  ASSUME BrainTypeOK, NEW x \in Extractions, Stage(x) \in Extracting
  PROVE  \/ extraction[x].try < RetryExtract(x).try
         \/ extraction[x].try = RetryExtract(x).try
            /\ ExtractionOrder(extraction[x].step) < ExtractionOrder(RetryExtract(x).step)
  <1>1. extraction[x].try \in Nat
    BY BrainAssumption DEF BrainTypeOK, Task
  <1>2. ExtractionOrder("archived") = 4 /\ ExtractionOrder(extraction[x].step) < 4
    BY DEF ExtractionOrder, Stage, Extracting
  <1>3. CASE x \notin Reflections /\ extraction[x].try < MaxExtractRetry
    BY <1>1, <1>3 DEF RetryExtract, NotAsked
  <1>4. CASE ~ (x \notin Reflections /\ extraction[x].try < MaxExtractRetry)
    BY <1>2, <1>4 DEF RetryExtract, NotAsked
  <1> QED BY <1>3, <1>4

\* What a task of the memory queue does takes it on; the mark that a count is old
\* changes no other.
LEMMA CompactionMoves ==
  ASSUME ConvTypeOK, NEW c \in Compactions, EnqueueCompact(c) \/ CompactStep(c) \/ CompactFails(c)
  PROVE  CompactionsForward
  <1>t. compaction \in [Compactions -> Job] /\ compaction[c] \in Job
    BY DEF ConvTypeOK
  <1>o. /\ CompactionOrder("none") = 0 /\ CompactionOrder("queued") = 1
        /\ CompactionOrder("counted") = 2 /\ CompactionOrder("found") = 3
        /\ CompactionOrder("summarised") = 4 /\ CompactionOrder("done") = 5
    BY DEF CompactionOrder
  <1>1. ASSUME NEW job, NEW jobs \in {compaction, Overtake(compaction, c)},
               compaction' = [jobs EXCEPT ![c] = job],
               \/ compaction[c].try < job.try
               \/ compaction[c].try = job.try
                  /\ CompactionOrder(compaction[c].step) < CompactionOrder(job.step)
        PROVE  CompactionsForward
    <2>1. jobs \in [Compactions -> Job]
      BY <1>t, OvertakenJob
    <2>2. compaction'[c] = job /\ \A d \in Compactions \ {c} : compaction'[d] = jobs[d]
      BY <1>1, <2>1
    <2>3. CompactionForward(c)
      BY <1>1, <2>2 DEF CompactionForward
    <2>4. ASSUME NEW d \in Compactions \ {c} PROVE CompactionForward(d)
      <3>1. compaction[d] \in Job
        BY <1>t
      <3>2. jobs[d] = compaction[d] \/ jobs[d] = [compaction[d] EXCEPT !.overtaken = TRUE]
        BY DEF Overtake
      <3>3. compaction'[d] = [compaction[d] EXCEPT !.overtaken = compaction'[d].overtaken]
        BY <2>2, <3>1, <3>2 DEF Job
      <3> QED BY <3>3 DEF CompactionForward
    <2> QED BY <2>3, <2>4 DEF CompactionsForward
  <1>2. CASE EnqueueCompact(c)
    <2> DEFINE job == [compaction[c] EXCEPT !.step = "queued"]
    <2>1. job.step = "queued" /\ job.try = compaction[c].try
      BY <1>t DEF Job
    <2>2. compaction' = [compaction EXCEPT ![c] = job]
      BY <1>2 DEF EnqueueCompact
    <2>3. CompactionOrder(compaction[c].step) < CompactionOrder(job.step)
      BY <1>2, <1>o, <2>1 DEF EnqueueCompact, Step
    <2> HIDE DEF job
    <2> QED BY <2>1, <2>2, <2>3, <1>1
  <1>3. CASE Count(c)
    <2> DEFINE job == IF Cardinality(Live) < Threshold THEN [compaction[c] EXCEPT !.step = "done"]
                      ELSE [compaction[c] EXCEPT !.step = "counted",
                                                 !.limit = Cardinality(Live) - Tail,
                                                 !.overtaken = FALSE]
    <2>1. job.step \in {"done", "counted"} /\ job.try = compaction[c].try
      BY <1>t DEF Job
    <2>2. compaction' = [compaction EXCEPT ![c] = job]
      BY <1>3, <1>t DEF Count
    <2> HIDE DEF job
    <2>3. CompactionOrder(compaction[c].step) < CompactionOrder(job.step)
      BY <1>3, <1>o, <2>1 DEF Count, Step
    <2> QED BY <2>1, <2>2, <2>3, <1>1
  <1>4. CASE Find(c)
    <2>0. PICK R : compaction' = [compaction EXCEPT ![c].step = IF R = {} THEN "done" ELSE "found",
                                                    ![c].read = R]
      BY <1>4 DEF Find
    <2> DEFINE job == [compaction[c] EXCEPT !.step = IF R = {} THEN "done" ELSE "found",
                                            !.read = R]
    <2>1. job.step \in {"done", "found"} /\ job.try = compaction[c].try
      BY <1>t DEF Job
    <2>2. compaction' = [compaction EXCEPT ![c] = job]
      BY <2>0, <1>t
    <2> HIDE DEF job
    <2>3. CompactionOrder(compaction[c].step) < CompactionOrder(job.step)
      BY <1>4, <1>o, <2>1 DEF Find, Step
    <2> QED BY <2>1, <2>2, <2>3, <1>1
  <1>5. CASE InsertSummary(c)
    <2> DEFINE job == [compaction[c] EXCEPT !.step = "summarised"]
    <2>1. job.step = "summarised" /\ job.try = compaction[c].try
      BY <1>t DEF Job
    <2>2. compaction' = [compaction EXCEPT ![c] = job]
      BY <1>5 DEF InsertSummary
    <2> HIDE DEF job
    <2>3. CompactionOrder(compaction[c].step) < CompactionOrder(job.step)
      BY <1>5, <1>o, <2>1 DEF InsertSummary, Step
    <2> QED BY <2>1, <2>2, <2>3, <1>1
  <1>6. CASE MarkCompacted(c)
    <2> DEFINE job == [compaction[c] EXCEPT !.step = "done"]
    <2> DEFINE ended == [compaction EXCEPT ![c].step = "done"]
    <2>1. job \in Job /\ job.step = "done" /\ job.try = compaction[c].try
      BY <1>t DEF Job
    <2>2. ended = [compaction EXCEPT ![c] = job]
      OBVIOUS
    <2> HIDE DEF job, ended
    <2>3. compaction' = Overtake(ended, c)
      BY <1>6 DEF MarkCompacted, ended
    <2>4. ended[c] = job /\ \A d \in Compactions \ {c} : ended[d] = compaction[d]
      BY <2>2, <1>t
    <2>5. \A d \in Compactions :
            Overtake(ended, c)[d] = IF d = c THEN job ELSE Overtake(compaction, c)[d]
      BY <2>4 DEF Overtake
    <2>6. compaction' = [Overtake(compaction, c) EXCEPT ![c] = job]
      BY <2>3, <2>5 DEF Overtake
    <2>7. CompactionOrder(compaction[c].step) < CompactionOrder(job.step)
      BY <1>6, <1>o, <2>1 DEF MarkCompacted, Step
    <2> QED BY <2>1, <2>6, <2>7, <1>1
  <1>7. CASE CompactFails(c)
    <2>1. \/ compaction' = [compaction EXCEPT ![c] = Retry(compaction[c])]
          \/ compaction' = [Overtake(compaction, c) EXCEPT ![c] = Retry(compaction[c])]
      BY <1>7 DEF CompactFails
    <2>2. \/ compaction[c].try < Retry(compaction[c]).try
          \/ compaction[c].try = Retry(compaction[c]).try
             /\ CompactionOrder(compaction[c].step) < CompactionOrder(Retry(compaction[c]).step)
      BY <1>7, <1>t, RetryForward DEF CompactFails, Step
    <2> QED BY <2>1, <2>2, <1>1
  <1> QED BY <1>2, <1>3, <1>4, <1>5, <1>6, <1>7 DEF CompactStep

\* What a task of the brain does takes it on.
LEMMA ExtractionMoves ==
  ASSUME BrainTypeOK, NEW x \in Extractions,
         ExtractStep(x) \/ ExtractFails(x) \/ \E t \in Texts : EnqueueExtract(x, t)
  PROVE  ExtractionsForward
  <1>t. extraction \in [Extractions -> Task] /\ extraction[x] \in Task
    BY DEF BrainTypeOK
  <1>o. /\ ExtractionOrder("queued") = 1 /\ ExtractionOrder("asking") = 2
        /\ ExtractionOrder("storing") = 3 /\ ExtractionOrder("done") = 4
    BY DEF ExtractionOrder
  <1>0. ASSUME NEW job, extraction' = [extraction EXCEPT ![x] = job],
               \/ extraction[x].step = "none" /\ job.step = "queued"
               \/ extraction[x].try < job.try
               \/ extraction[x].try = job.try
                  /\ ExtractionOrder(extraction[x].step) < ExtractionOrder(job.step)
               \/ /\ extraction[x].try = job.try /\ extraction[x].step = job.step
                  /\ job.left \subseteq extraction[x].left /\ job.links \subseteq extraction[x].links
                  /\ job.left # extraction[x].left \/ job.links # extraction[x].links
        PROVE  ExtractionsForward
    <2>1. extraction'[x] = job /\ \A y \in Extractions \ {x} : extraction'[y] = extraction[y]
      BY <1>0, <1>t
    <2>2. ExtractionForward(x)
      BY <1>0, <2>1 DEF ExtractionForward
    <2>3. ASSUME NEW y \in Extractions \ {x} PROVE ExtractionForward(y)
      <3>1. extraction[y] \in Task
        BY <1>t
      <3>2. extraction'[y] = [extraction[y] EXCEPT !.kept = extraction'[y].kept]
        BY <2>1, <3>1 DEF Task
      <3> QED BY <3>2 DEF ExtractionForward
    <2> QED BY <2>2, <2>3 DEF ExtractionsForward
  <1>1. CASE \E t \in Texts : EnqueueExtract(x, t)
    <2>0. PICK t \in Texts : EnqueueExtract(x, t)
      BY <1>1
    <2> DEFINE job == NotAsked("queued", t, 0)
    <2>1. job.step = "queued"
      BY DEF NotAsked
    <2>2. extraction' = [extraction EXCEPT ![x] = job] /\ extraction[x].step = "none"
      BY <2>0 DEF EnqueueExtract, Stage
    <2> HIDE DEF job
    <2> QED BY <2>1, <2>2, <1>0
  <1>2. ASSUME extraction[x].step \in {"queued", "asking", "storing"},
               NEW job, extraction' = [extraction EXCEPT ![x] = job],
               job.try = extraction[x].try,
               \/ job.step = "done"
               \/ job.step = "asking" /\ extraction[x].step = "queued"
               \/ job.step = "storing" /\ extraction[x].step = "asking"
        PROVE  ExtractionsForward
    <2>1. ExtractionOrder(extraction[x].step) < ExtractionOrder(job.step)
      BY <1>2, <1>o
    <2> QED BY <2>1, <1>2, <1>0
  <1>3. CASE Dedup(x) \/ DedupFails(x)
    <2>1. PICK n : \/ extraction' = [extraction EXCEPT ![x].step = "asking", ![x].window = n]
                   \/ extraction' = [extraction EXCEPT ![x].step = "asking"]
                   \/ extraction' = [extraction EXCEPT ![x].step = "done"]
      BY <1>3 DEF Dedup, DedupFails
    <2>2. extraction[x].step = "queued"
      BY <1>3 DEF Dedup, DedupFails, Stage
    <2>3. CASE extraction' = [extraction EXCEPT ![x].step = "asking", ![x].window = n]
      <3> DEFINE job == [extraction[x] EXCEPT !.step = "asking", !.window = n]
      <3>1. job.step = "asking" /\ job.try = extraction[x].try
        BY <1>t DEF Task
      <3>2. extraction' = [extraction EXCEPT ![x] = job]
        BY <2>3, <1>t
      <3> HIDE DEF job
      <3> QED BY <2>2, <3>1, <3>2, <1>2
    <2>4. CASE extraction' = [extraction EXCEPT ![x].step = "asking"]
      <3> DEFINE job == [extraction[x] EXCEPT !.step = "asking"]
      <3>1. job.step = "asking" /\ job.try = extraction[x].try
        BY <1>t DEF Task
      <3>2. extraction' = [extraction EXCEPT ![x] = job]
        BY <2>4, <1>t
      <3> HIDE DEF job
      <3> QED BY <2>2, <3>1, <3>2, <1>2
    <2>5. CASE extraction' = [extraction EXCEPT ![x].step = "done"]
      <3> DEFINE job == [extraction[x] EXCEPT !.step = "done"]
      <3>1. job.step = "done" /\ job.try = extraction[x].try
        BY <1>t DEF Task
      <3>2. extraction' = [extraction EXCEPT ![x] = job]
        BY <2>5, <1>t
      <3> HIDE DEF job
      <3> QED BY <2>2, <3>1, <3>2, <1>2
    <2> QED BY <2>1, <2>3, <2>4, <2>5
  <1>4. CASE Ask(x) \/ FinishExtract(x)
    <2>1. extraction[x].step \in {"asking", "storing"}
      BY <1>4 DEF Ask, FinishExtract, Stage
    <2>2. CASE extraction' = [extraction EXCEPT ![x].step = "done"]
      <3> DEFINE job == [extraction[x] EXCEPT !.step = "done"]
      <3>1. job.step = "done" /\ job.try = extraction[x].try
        BY <1>t DEF Task
      <3>2. extraction' = [extraction EXCEPT ![x] = job]
        BY <2>2, <1>t
      <3> HIDE DEF job
      <3> QED BY <2>1, <3>1, <3>2, <1>2
    <2>3. CASE extraction' # [extraction EXCEPT ![x].step = "done"]
      <3>0. PICK answer \in Answers :
              extraction' = [extraction EXCEPT ![x].step = "storing",
                                               ![x].left = answer.pages,
                                               ![x].links = answer.links]
        BY <1>4, <2>3 DEF Ask, FinishExtract
      <3> DEFINE job == [extraction[x] EXCEPT !.step = "storing", !.left = answer.pages,
                                              !.links = answer.links]
      <3>1. job.step = "storing" /\ job.try = extraction[x].try
        BY <1>t DEF Task
      <3>2. extraction' = [extraction EXCEPT ![x] = job]
        BY <3>0, <1>t
      <3>3. extraction[x].step = "asking"
        BY <1>4, <2>3 DEF Ask, FinishExtract, Stage
      <3> HIDE DEF job
      <3> QED BY <3>1, <3>2, <3>3, <1>2
    <2> QED BY <2>2, <2>3
  <1>5. ASSUME NEW s \in Slugs, StorePage(x, s) \/ StorePageFails(x, s)
        PROVE  ExtractionsForward
    <2>1. s \in extraction[x].left
      BY <1>5 DEF StorePage, StorePageFails
    <2>2. CASE extraction' = [extraction EXCEPT ![x].left = @ \ {s}, ![x].kept = @ \cup {s}]
      <3> DEFINE job == [extraction[x] EXCEPT !.left = @ \ {s}, !.kept = @ \cup {s}]
      <3>1. /\ job.step = extraction[x].step /\ job.try = extraction[x].try
            /\ job.left = extraction[x].left \ {s} /\ job.links = extraction[x].links
        BY <1>t DEF Task
      <3>2. extraction' = [extraction EXCEPT ![x] = job]
        BY <2>2, <1>t
      <3> HIDE DEF job
      <3>3. job.left \subseteq extraction[x].left /\ job.left # extraction[x].left
        BY <2>1, <3>1
      <3>4. job.links \subseteq extraction[x].links
        BY <3>1
      <3> QED BY <3>1, <3>2, <3>3, <3>4, <1>0
    <2>3. CASE extraction' = [extraction EXCEPT ![x].left = @ \ {s}]
      <3> DEFINE job == [extraction[x] EXCEPT !.left = @ \ {s}]
      <3>1. /\ job.step = extraction[x].step /\ job.try = extraction[x].try
            /\ job.left = extraction[x].left \ {s} /\ job.links = extraction[x].links
        BY <1>t DEF Task
      <3>2. extraction' = [extraction EXCEPT ![x] = job]
        BY <2>3, <1>t
      <3> HIDE DEF job
      <3>3. job.left \subseteq extraction[x].left /\ job.left # extraction[x].left
        BY <2>1, <3>1
      <3>4. job.links \subseteq extraction[x].links
        BY <3>1
      <3> QED BY <3>1, <3>2, <3>3, <3>4, <1>0
    <2> QED BY <1>5, <2>2, <2>3 DEF StorePage, StorePageFails
  <1>6. ASSUME NEW e \in Links, LinkPages(x, e)
        PROVE  ExtractionsForward
    <2>1. e \in extraction[x].links
      BY <1>6 DEF LinkPages
    <2> DEFINE job == [extraction[x] EXCEPT !.links = @ \ {e}]
    <2>2. /\ job.step = extraction[x].step /\ job.try = extraction[x].try
          /\ job.links = extraction[x].links \ {e} /\ job.left = extraction[x].left
      BY <1>t DEF Task
    <2>3. extraction' = [extraction EXCEPT ![x] = job]
      BY <1>6, <1>t DEF LinkPages
    <2> HIDE DEF job
    <2>4. job.links \subseteq extraction[x].links /\ job.links # extraction[x].links
      BY <2>1, <2>2
    <2>5. job.left \subseteq extraction[x].left
      BY <2>2
    <2> QED BY <2>2, <2>3, <2>4, <2>5, <1>0
  <1>7. CASE ExtractFails(x)
    <2>1. extraction' = [extraction EXCEPT ![x] = RetryExtract(x)]
      BY <1>7 DEF ExtractFails
    <2>2. \/ extraction[x].try < RetryExtract(x).try
          \/ extraction[x].try = RetryExtract(x).try
             /\ ExtractionOrder(extraction[x].step) < ExtractionOrder(RetryExtract(x).step)
      BY <1>7, RetryExtractForward DEF ExtractFails
    <2> QED BY <2>1, <2>2, <1>0
  <1> QED BY <1>1, <1>3, <1>4, <1>5, <1>6, <1>7 DEF ExtractStep

\* A task that nothing happens to stands still.
LEMMA TasksStand ==
  /\ ConvTypeOK /\ UNCHANGED compaction => CompactionsForward
  /\ BrainTypeOK /\ UNCHANGED extraction => ExtractionsForward
  <1>1. ASSUME ConvTypeOK, UNCHANGED compaction, NEW c \in Compactions
        PROVE  CompactionForward(c)
    <2>1. compaction[c] \in Job
      BY <1>1 DEF ConvTypeOK
    <2>2. compaction'[c] = [compaction[c] EXCEPT !.overtaken = compaction'[c].overtaken]
      BY <1>1, <2>1 DEF Job
    <2> QED BY <2>2 DEF CompactionForward
  <1>2. ASSUME BrainTypeOK, UNCHANGED extraction, NEW x \in Extractions
        PROVE  ExtractionForward(x)
    <2>1. extraction[x] \in Task
      BY <1>2 DEF BrainTypeOK
    <2>2. extraction'[x] = [extraction[x] EXCEPT !.kept = extraction'[x].kept]
      BY <1>2, <2>1 DEF Task
    <2> QED BY <2>2 DEF ExtractionForward
  <1> QED BY <1>1, <1>2 DEF CompactionsForward, ExtractionsForward

\* A deletion takes no task back,
LEMMA DeletionForward ==
  ASSUME ConvTypeOK, BrainTypeOK, NEW s \in Stores, DeleteStore(s)
  PROVE  CompactionsForward /\ ExtractionsForward
  <1>1. CASE DeleteMessages
    <2>1. UNCHANGED extraction
      BY <1>1 DEF DeleteMessages, brainVars
    <2>2. ASSUME NEW c \in Compactions PROVE CompactionForward(c)
      <3>1. compaction[c] \in Job
        BY DEF ConvTypeOK
      <3>2. compaction'[c] = [compaction[c] EXCEPT !.overtaken = TRUE]
        BY <1>1 DEF DeleteMessages
      <3>3. compaction'[c] = [compaction[c] EXCEPT !.overtaken = compaction'[c].overtaken]
        BY <3>1, <3>2 DEF Job
      <3> QED BY <3>3 DEF CompactionForward
    <2> QED BY <2>1, <2>2, TasksStand DEF CompactionsForward
  <1>2. CASE DeletePages
    <2>1. UNCHANGED compaction
      BY <1>2 DEF DeletePages, convVars
    <2>2. ASSUME NEW x \in Extractions PROVE ExtractionForward(x)
      <3>1. extraction[x] \in Task
        BY DEF BrainTypeOK
      <3>2. extraction'[x] = [extraction[x] EXCEPT !.kept = {}]
        BY <1>2 DEF DeletePages
      <3>3. extraction'[x] = [extraction[x] EXCEPT !.kept = extraction'[x].kept]
        BY <3>1, <3>2 DEF Task
      <3> QED BY <3>3 DEF ExtractionForward
    <2> QED BY <2>1, <2>2, TasksStand DEF ExtractionsForward
  <1>3. CASE DeleteSummaries \/ DeleteEdges \/ DeleteEmbeddings
    <2>1. UNCHANGED <<compaction, extraction>>
      BY <1>3 DEF DeleteSummaries, DeleteEdges, DeleteEmbeddings, convVars, brainVars
    <2> QED BY <2>1, TasksStand
  <1> QED BY <1>1, <1>2, <1>3 DEF DeleteStore

\* and neither does the worker's death.
LEMMA CrashForward ==
  ASSUME ConvTypeOK, BrainTypeOK, Crash
  PROVE  CompactionsForward /\ ExtractionsForward
  <1>1. ASSUME NEW c \in Compactions PROVE CompactionForward(c)
    <2>1. compaction[c] \in Job
      BY DEF ConvTypeOK
    <2>2. CASE compaction[c].step \in Working
      <3>1. compaction'[c] = Retry(compaction[c])
        BY <2>2 DEF Crash
      <3> QED BY <2>1, <2>2, <3>1, RetryForward DEF CompactionForward
    <2>3. CASE compaction[c].step \notin Working
      <3>1. compaction'[c] = compaction[c]
        BY <2>3 DEF Crash
      <3>2. compaction'[c] = [compaction[c] EXCEPT !.overtaken = compaction'[c].overtaken]
        BY <2>1, <3>1 DEF Job
      <3> QED BY <3>2 DEF CompactionForward
    <2> QED BY <2>2, <2>3
  <1>2. ASSUME NEW x \in Extractions PROVE ExtractionForward(x)
    <2>1. extraction[x] \in Task
      BY DEF BrainTypeOK
    <2>2. CASE Stage(x) \in Extracting
      <3>1. extraction'[x] = RetryExtract(x)
        BY <2>2 DEF Crash
      <3> QED BY <2>2, <3>1, RetryExtractForward DEF ExtractionForward
    <2>3. CASE Stage(x) \notin Extracting
      <3>1. extraction'[x] = extraction[x]
        BY <2>3 DEF Crash
      <3>2. extraction'[x] = [extraction[x] EXCEPT !.kept = extraction'[x].kept]
        BY <2>1, <3>1 DEF Task
      <3> QED BY <3>2 DEF ExtractionForward
    <2> QED BY <2>2, <2>3
  <1> QED BY <1>1, <1>2 DEF CompactionsForward, ExtractionsForward

\* queue/server.go and extraction.go: whatever fails, is retried or dies, and whatever a
\* deletion takes from under it, no task of the memory goes back.
THEOREM Ending == Spec => TasksGoForward
  <1>1. IInv /\ [Next]_vars => [CompactionsForward /\ ExtractionsForward]_vars
    <2> SUFFICES ASSUME IInv, Next PROVE CompactionsForward /\ ExtractionsForward
      OBVIOUS
    <2>0. ConvTypeOK /\ BrainTypeOK
      BY DEF IInv, ConvInv, BrainInv
    <2>1. CASE ConvNext /\ UNCHANGED <<brainVars, deletionVars>>
      <3>1. UNCHANGED extraction
        BY <2>1 DEF brainVars
      <3>2. ASSUME NEW h \in Handlers, HandlerStep(h) PROVE UNCHANGED compaction
        BY <3>2 DEF HandlerStep, DrawTurn, SaveTurn
      <3> QED BY <2>0, <2>1, <3>1, <3>2, TasksStand, CompactionMoves DEF ConvNext
    <2>2. CASE BrainNext /\ UNCHANGED <<convVars, deletionVars>>
      <3>1. UNCHANGED compaction
        BY <2>2 DEF convVars
      <3>2. \/ \E x \in Extractions : ExtractStep(x) \/ ExtractFails(x)
                                        \/ \E t \in Texts : EnqueueExtract(x, t)
            \/ UNCHANGED extraction
        BY <2>2 DEF BrainNext, ForgetWindow, Embed, Invalidate, ForgetEntry, Lookup, ReadStep,
                    ReadSeeds, ReadNeighbours, FillCache
      <3> QED BY <2>0, <3>1, <3>2, TasksStand, ExtractionMoves
    <2>3. CASE BeginDelete \/ EndDelete \/ \E s \in Stores : DeleteStoreFails(s)
      <3>1. UNCHANGED <<compaction, extraction>>
        BY <2>3 DEF BeginDelete, EndDelete, DeleteStoreFails, convVars, brainVars
      <3> QED BY <2>0, <3>1, TasksStand
    <2> QED BY <2>0, <2>1, <2>2, <2>3, DeletionForward, CrashForward DEF Next, MemoryStep
  <1> QED BY <1>1, Invariance, PTL
        DEF Spec, TasksGoForward, CompactionsForward, ExtractionsForward

-----------------------------------------------------------------------------
(* Who may delete.                                                          *)

\* What the conversation and the brain keep from a step to the next.
ConversationGrows ==
  stored \subseteq stored' /\ compacted \subseteq compacted' /\ summaries \subseteq summaries'

PagesKept == \A s \in Slugs : pages[s] <= pages'[s]

EmbeddingsKept == \A m \in embedded : \E k \in embedded' : k.slug = m.slug

\* What stands still is kept.
LEMMA BrainStandsStill ==
  ASSUME BrainInv
  PROVE  /\ UNCHANGED pages => PagesKept
         /\ UNCHANGED embedded => EmbeddingsKept
  <1>1. \A s \in Slugs : pages[s] \in Nat
    BY BrainAssumption DEF BrainInv, BrainTypeOK, Contents
  <1> QED BY <1>1 DEF PagesKept, EmbeddingsKept

\* A turn, a task and its failure only add to the conversation.
LEMMA ConversationKept ==
  ASSUME ConvInv, ConvNext
  PROVE  ConversationGrows
  <1>1. ASSUME NEW h \in Handlers, HandlerStep(h) PROVE ConversationGrows
    BY <1>1 DEF HandlerStep, DrawTurn, SaveTurn, ConversationGrows
  <1>2. ASSUME NEW c \in Compactions, EnqueueCompact(c) PROVE ConversationGrows
    BY <1>2 DEF EnqueueCompact, ConversationGrows
  <1>3. ASSUME NEW c \in Compactions, CompactStep(c) PROVE ConversationGrows
    BY <1>3 DEF CompactStep, Count, Find, InsertSummary, MarkCompacted, ConversationGrows
  <1>4. ASSUME NEW c \in Compactions, CompactFails(c) PROVE ConversationGrows
    BY <1>4 DEF CompactFails, ConversationGrows
  <1> QED BY <1>1, <1>2, <1>3, <1>4 DEF ConvNext

\* What an upsert writes is later than all that the page has been.
LEMMA UpsertedKeepsPages ==
  ASSUME BrainInv, NEW s \in Slugs, Upserted(s)
  PROVE  PagesKept
  <1>1. pages \in [Slugs -> Contents] /\ upserts \in [Slugs -> Contents]
    BY DEF BrainInv, BrainTypeOK
  <1>2. \A k \in Slugs : pages[k] \in Nat /\ upserts[k] \in Nat
    BY <1>1, BrainAssumption DEF Contents
  <1>3. \A k \in Slugs : pages'[k] = IF k = s THEN upserts[s] + 1 ELSE pages[k]
    BY <1>1 DEF Upserted
  <1>4. pages[s] <= upserts[s]
    BY DEF BrainInv, ContentsAreNew
  <1> QED BY <1>2, <1>3, <1>4 DEF PagesKept

\* An embedding is only written over by another one of its page.
LEMMA EmbedKeepsSlugs ==
  ASSUME NEW g \in embedding, Embed(g)
  PROVE  EmbeddingsKept
  <1>1. CASE embedded' = embedded
    BY <1>1 DEF EmbeddingsKept
  <1>2. CASE embedded' = {m \in embedded : ~ SamePage(g, m)} \cup {g}
    <2> SUFFICES ASSUME NEW m \in embedded PROVE \E k \in embedded' : k.slug = m.slug
      BY DEF EmbeddingsKept
    <2>1. CASE SamePage(g, m)
      <3>1. g \in embedded' /\ g.slug = m.slug
        BY <1>2, <2>1 DEF SamePage
      <3> QED BY <3>1
    <2>2. CASE ~ SamePage(g, m)
      BY <1>2, <2>2
    <2> QED BY <2>1, <2>2
  <1> QED BY <1>1, <1>2 DEF Embed

\* The extractions, their goroutines and the readers delete nothing.
LEMMA BrainKept ==
  ASSUME BrainInv, BrainNext
  PROVE  edges \subseteq edges' /\ PagesKept /\ EmbeddingsKept
  <1>1. ASSUME NEW x \in Extractions, NEW s \in Slugs, StorePage(x, s) \/ StorePageFails(x, s)
        PROVE  edges \subseteq edges' /\ PagesKept /\ EmbeddingsKept
    <2>1. UNCHANGED <<edges, embedded>> /\ (Upserted(s) \/ UNCHANGED pages)
      BY <1>1 DEF StorePage, StorePageFails
    <2> QED BY <2>1, UpsertedKeepsPages, BrainStandsStill
  <1>2. ASSUME NEW x \in Extractions, NEW e \in Links, LinkPages(x, e)
        PROVE  edges \subseteq edges' /\ PagesKept /\ EmbeddingsKept
    <2>1. UNCHANGED <<pages, embedded>> /\ edges \subseteq edges'
      BY <1>2 DEF LinkPages
    <2> QED BY <2>1, BrainStandsStill
  <1>3. ASSUME NEW g \in embedding, Embed(g)
        PROVE  edges \subseteq edges' /\ PagesKept /\ EmbeddingsKept
    <2>1. UNCHANGED <<pages, edges>>
      BY <1>3 DEF Embed
    <2> QED BY <1>3, <2>1, EmbedKeepsSlugs, BrainStandsStill
  <1>4. ASSUME UNCHANGED graphVars
        PROVE  edges \subseteq edges' /\ PagesKept /\ EmbeddingsKept
    BY <1>4, BrainStandsStill DEF graphVars
  <1>5. ASSUME NEW x \in Extractions,
               Dedup(x) \/ DedupFails(x) \/ Ask(x) \/ FinishExtract(x) \/ ExtractFails(x)
                 \/ \E t \in Texts : EnqueueExtract(x, t)
        PROVE  UNCHANGED graphVars
    BY <1>5 DEF Dedup, DedupFails, Ask, FinishExtract, ExtractFails, EnqueueExtract
  <1>6. (\E t \in Texts : ForgetWindow(t)) \/ Invalidate \/ ForgetEntry => UNCHANGED graphVars
    BY DEF ForgetWindow, Invalidate, ForgetEntry
  <1>7. ASSUME NEW r \in Readers, Lookup(r) \/ ReadStep(r) PROVE UNCHANGED graphVars
    BY <1>7 DEF Lookup, ReadStep, ReadSeeds, ReadNeighbours, FillCache
  <1> QED BY <1>1, <1>2, <1>3, <1>4, <1>5, <1>6, <1>7 DEF BrainNext, ExtractStep

\* service.go of pdpa: whatever fails, is retried or runs beside it, only the deletion of
\* a store takes anything out of it, and a page is only written over by a later upsert.
THEOREM OnlyByDeletion == Spec => OnlyDeletionDeletes
  <1> DEFINE Conversation ==
               /\ "messages" \notin pending => stored \subseteq stored' /\ compacted \subseteq compacted'
               /\ "summaries" \notin pending => summaries \subseteq summaries'
             Brain ==
               /\ {"edges", "pages"} \cap pending = {} => edges \subseteq edges'
               /\ "pages" \notin pending => PagesKept
               /\ "embeddings" \notin pending => EmbeddingsKept
  <1>1. IInv /\ [Next]_vars => [Conversation /\ Brain]_vars
    <2> SUFFICES ASSUME IInv, Next PROVE Conversation /\ Brain
      OBVIOUS
    <2>0. ConvInv /\ BrainInv
      BY DEF IInv
    <2>1. UNCHANGED convVars => Conversation
      BY DEF convVars
    <2>2. UNCHANGED <<edges, pages, embedded>> => Brain
      BY <2>0, BrainStandsStill
    <2>3. CASE ConvNext /\ UNCHANGED <<brainVars, deletionVars>>
      <3>1. Conversation
        BY <2>0, <2>3, ConversationKept DEF ConversationGrows
      <3> QED BY <2>2, <2>3, <3>1 DEF brainVars, graphVars
    <2>4. CASE BrainNext /\ UNCHANGED <<convVars, deletionVars>>
      <3>1. Brain
        BY <2>0, <2>4, BrainKept
      <3> QED BY <2>1, <2>4, <3>1
    <2>5. CASE BeginDelete \/ EndDelete \/ \E s \in Stores : DeleteStoreFails(s)
      <3>1. UNCHANGED <<convVars, brainVars>>
        BY <2>5 DEF BeginDelete, EndDelete, DeleteStoreFails
      <3> QED BY <2>1, <2>2, <3>1 DEF brainVars, graphVars
    <2>6. CASE Crash
      <3>1. UNCHANGED <<stored, compacted, summaries, edges, pages, embedded>>
        BY <2>6 DEF Crash, graphVars
      <3> QED BY <2>2, <3>1
    <2>7. ASSUME NEW s \in Stores, DeleteStore(s) PROVE Conversation /\ Brain
      <3> USE <2>7 DEF DeleteStore
      <3>1. CASE s = "messages" /\ DeleteMessages
        <4>1. UNCHANGED <<summaries, edges, pages, embedded>>
          BY <3>1 DEF DeleteMessages, brainVars, graphVars
        <4> QED BY <2>2, <3>1, <4>1
      <3>2. CASE s = "summaries" /\ DeleteSummaries
        <4>1. UNCHANGED <<stored, compacted, edges, pages, embedded>>
          BY <3>2 DEF DeleteSummaries, brainVars, graphVars
        <4> QED BY <2>2, <3>2, <4>1
      <3>3. CASE s = "edges" /\ DeleteEdges
        <4>1. UNCHANGED <<convVars, pages, embedded>>
          BY <3>3 DEF DeleteEdges
        <4> QED BY <2>0, <2>1, <3>3, <4>1, BrainStandsStill
      <3>4. CASE s = "pages" /\ DeletePages
        <4>1. UNCHANGED convVars /\ embedded' = Orphans(embedded)
          BY <3>4 DEF DeletePages
        <4>2. EmbeddingsKept
          <5> SUFFICES ASSUME NEW m \in embedded PROVE \E k \in embedded' : k.slug = m.slug
            BY DEF EmbeddingsKept
          <5>1. m \in Embedding
            BY <2>0 DEF BrainInv, BrainTypeOK
          <5>2. [m EXCEPT !.dead = TRUE] \in embedded'
            BY <4>1 DEF Orphans
          <5>3. [m EXCEPT !.dead = TRUE].slug = m.slug
            BY <5>1 DEF Embedding
          <5> QED BY <5>2, <5>3
        <4> QED BY <2>1, <3>4, <4>1, <4>2
      <3>5. CASE s = "embeddings" /\ DeleteEmbeddings
        <4>1. UNCHANGED <<convVars, pages, edges>>
          BY <3>5 DEF DeleteEmbeddings
        <4> QED BY <2>0, <2>1, <3>5, <4>1, BrainStandsStill
      <3> QED BY <3>1, <3>2, <3>3, <3>4, <3>5
    <2> QED BY <2>3, <2>4, <2>5, <2>6, <2>7 DEF Next, MemoryStep
  <1> QED BY <1>1, Invariance, PTL DEF Spec, OnlyDeletionDeletes, PagesKept, EmbeddingsKept

=============================================================================
