------------------------- MODULE ConversationMemory -------------------------
(***************************************************************************)
(* The conversation of one namespace in MongoDB (internal/memory): the     *)
(* turns handlers save, and the compaction tasks of the memory queue that  *)
(* copy old turns into a summary and mark them.  Every query filters by    *)
(* namespace, so one namespace stands for all.                             *)
(***************************************************************************)
EXTENDS Integers, FiniteSets

CONSTANTS
  Handlers,      \* workers that serve messages of the namespace
  Compactions,   \* compaction tasks
  Threshold,     \* live turns from which a compaction works (40)
  Tail,          \* newest turns it leaves (12)
  SurelyFit,     \* turns a summary has room for however long they are (2)
  MaxRetry,      \* retries of a task
  MaxTurns       \* bound on the turns of a behaviour

ASSUME CompactionAssumption ==
  /\ Threshold \in Nat
  /\ Tail \in Nat
  /\ Tail < Threshold
ASSUME RoomAssumption == SurelyFit \in Nat
ASSUME TurnsAssumption == MaxTurns \in Nat
ASSUME RetryAssumption == MaxRetry \in Nat

VARIABLES
  clock,       \* the createdAt the next turn gets
  drawn,       \* per handler: the createdAt of the turn it is inserting, or 0
  stored,      \* conversation_messages, by createdAt
  compacted,   \* those whose compacted flag is set
  summaries,   \* memory_summaries: [by, try, read, text], by the turns read and those
               \* the text has
  compaction   \* per task: its step, the limit it counted, the turns it read,
               \* its retries, and whether the live turns shrank since it counted

convVars == <<clock, drawn, stored, compacted, summaries, compaction>>

NotQueued == [step |-> "none", limit |-> 0, read |-> {}, try |-> 0, overtaken |-> FALSE]

ConvInit ==
  /\ clock = 1
  /\ drawn = [h \in Handlers |-> 0]
  /\ stored = {}
  /\ compacted = {}
  /\ summaries = {}
  /\ compaction = [c \in Compactions |-> NotQueued]

Turns == 1 .. MaxTurns
Live == stored \ compacted

-----------------------------------------------------------------------------
(* SaveConversationMessage: createdAt is drawn before the insert, so turns  *)
(* of two handlers may arrive out of order.                                 *)

DrawTurn(h) ==
  /\ drawn[h] = 0
  /\ clock <= MaxTurns
  /\ drawn' = [drawn EXCEPT ![h] = clock]
  /\ clock' = clock + 1
  /\ UNCHANGED <<stored, compacted, summaries, compaction>>

\* The caller logs an insert that fails and goes on.
SaveTurn(h) ==
  /\ drawn[h] # 0
  /\ stored' \in {stored, stored \cup {drawn[h]}}
  /\ drawn' = [drawn EXCEPT ![h] = 0]
  /\ UNCHANGED <<clock, compacted, summaries, compaction>>

\* The newest live turns, which GetContext puts in the prompt.
RecentHistory == {m \in Live : Cardinality({k \in Live : k > m}) < Tail}

-----------------------------------------------------------------------------
(* CompactConversationIfNeeded, from the queue.                             *)

Step(c) == compaction[c].step
Working == {"counted", "found", "summarised"}

EnqueueCompact(c) ==
  /\ Step(c) = "none"
  /\ compaction' = [compaction EXCEPT ![c].step = "queued"]
  /\ UNCHANGED <<clock, drawn, stored, compacted, summaries>>

\* Mutant: the tail is not subtracted.
CountAll(c) ==
  /\ Step(c) = "queued"
  /\ compaction' =
       IF Cardinality(Live) < Threshold
       THEN [compaction EXCEPT ![c].step = "done"]
       ELSE [compaction EXCEPT ![c].step = "counted",
                               ![c].limit = Cardinality(Live),
                               ![c].overtaken = FALSE]
  /\ UNCHANGED <<clock, drawn, stored, compacted, summaries>>

\* Nothing to do below the threshold.
Count(c) ==
  /\ Step(c) = "queued"
  /\ compaction' =
       IF Cardinality(Live) < Threshold
       THEN [compaction EXCEPT ![c].step = "done"]
       ELSE [compaction EXCEPT ![c].step = "counted",
                               ![c].limit = Cardinality(Live) - Tail,
                               ![c].overtaken = FALSE]
  /\ UNCHANGED <<clock, drawn, stored, compacted, summaries>>

\* R is where S, sorted by createdAt, is cut off.
Oldest(R, S) == R \subseteq S /\ \A m \in R, k \in S \ R : m < k

\* R is what sorting S by createdAt and taking the first n yields.
IsOldest(R, S, n) ==
  /\ Oldest(R, S)
  /\ Cardinality(R) <= n
  /\ Cardinality(R) = n \/ R = S

\* Mutant: the first marks are made before the summary exists.
FindAndMark(c) ==
  /\ Step(c) = "counted"
  /\ \E R \in SUBSET Live :
       /\ IsOldest(R, Live, compaction[c].limit)
       /\ compaction' =
            [compaction EXCEPT ![c].step = IF R = {} THEN "done" ELSE "found",
                               ![c].read = R]
       /\ compacted' = compacted \cup R
  /\ UNCHANGED <<clock, drawn, stored, summaries>>

Find(c) ==
  /\ Step(c) = "counted"
  /\ \E R \in SUBSET Live :
       /\ IsOldest(R, Live, compaction[c].limit)
       /\ compaction' =
            [compaction EXCEPT ![c].step = IF R = {} THEN "done" ELSE "found",
                               ![c].read = R]
  /\ UNCHANGED <<clock, drawn, stored, compacted, summaries>>

\* The text stops before the first turn that would make it longer than 12000 bytes.  A
\* turn has at most 4000 and its role, so some turns always fit.
IsText(T, R) == Oldest(T, R) /\ (Cardinality(T) >= SurelyFit \/ T = R)

\* Mutant: the text is of the newest turns that fit.
InsertNewest(c) ==
  /\ Step(c) = "found"
  /\ \E text \in SUBSET compaction[c].read :
       /\ \A m \in text, k \in compaction[c].read \ text : k < m
       /\ Cardinality(text) >= SurelyFit \/ text = compaction[c].read
       /\ summaries' = summaries \cup
            {[by |-> c, try |-> compaction[c].try, read |-> compaction[c].read, text |-> text]}
  /\ compaction' = [compaction EXCEPT ![c].step = "summarised"]
  /\ UNCHANGED <<clock, drawn, stored, compacted>>

InsertSummary(c) ==
  /\ Step(c) = "found"
  /\ \E text \in SUBSET compaction[c].read :
       /\ IsText(text, compaction[c].read)
       /\ summaries' = summaries \cup
            {[by |-> c, try |-> compaction[c].try, read |-> compaction[c].read, text |-> text]}
  /\ compaction' = [compaction EXCEPT ![c].step = "summarised"]
  /\ UNCHANGED <<clock, drawn, stored, compacted>>

\* Tasks between their count and their find now work with an old count.
Overtake(jobs, c) ==
  [d \in Compactions |->
     IF d # c /\ jobs[d].step = "counted" THEN [jobs[d] EXCEPT !.overtaken = TRUE]
     ELSE jobs[d]]

\* Mutant: the turns are deleted, not marked.
DeleteCompacted(c) ==
  /\ Step(c) = "summarised"
  /\ stored' = stored \ compaction[c].read
  /\ compacted' = compacted \ compaction[c].read
  /\ compaction' = Overtake([compaction EXCEPT ![c].step = "done"], c)
  /\ UNCHANGED <<clock, drawn, summaries>>

MarkCompacted(c) ==
  /\ Step(c) = "summarised"
  /\ compacted' = compacted \cup (compaction[c].read \cap stored)
  /\ compaction' = Overtake([compaction EXCEPT ![c].step = "done"], c)
  /\ UNCHANGED <<clock, drawn, stored, summaries>>

\* Mutant: one retry too many.
RetryOnceMore(job) ==
  IF job.try <= MaxRetry
  THEN [NotQueued EXCEPT !.step = "queued", !.try = job.try + 1]
  ELSE [NotQueued EXCEPT !.step = "archived", !.try = job.try]

\* Mutant: the retries are not counted.
RetryForEver(job) == [NotQueued EXCEPT !.step = "queued", !.try = job.try]

\* A task that returns an error, or whose worker died, is retried from its start,
\* then archived.
Retry(job) ==
  IF job.try < MaxRetry
  THEN [NotQueued EXCEPT !.step = "queued", !.try = job.try + 1]
  ELSE [NotQueued EXCEPT !.step = "archived", !.try = job.try]

\* The update of many documents is not one transaction: some may be marked when it
\* fails.
CompactFails(c) ==
  /\ Step(c) \in Working \cup {"queued"}
  /\ \E marked \in IF Step(c) = "summarised" THEN SUBSET compaction[c].read ELSE {{}} :
       /\ compacted' = compacted \cup (marked \cap stored)
       /\ compaction' =
            [IF marked = {} THEN compaction ELSE Overtake(compaction, c)
              EXCEPT ![c] = Retry(compaction[c])]
  /\ UNCHANGED <<clock, drawn, stored, summaries>>

-----------------------------------------------------------------------------
HandlerStep(h) == DrawTurn(h) \/ SaveTurn(h)

CompactStep(c) == Count(c) \/ Find(c) \/ InsertSummary(c) \/ MarkCompacted(c)

ConvNext ==
  \/ \E h \in Handlers : HandlerStep(h)
  \/ \E c \in Compactions : EnqueueCompact(c) \/ CompactStep(c) \/ CompactFails(c)

-----------------------------------------------------------------------------
(* Properties.                                                              *)

Job == [step : {"none", "queued", "done", "archived"} \cup Working, limit : Nat,
        read : SUBSET Turns, try : 0 .. MaxRetry, overtaken : BOOLEAN]

Summary == [by : Compactions, try : 0 .. MaxRetry, read : SUBSET Turns, text : SUBSET Turns]

\* Every variable of the conversation has its type.
ConvTypeOK ==
  /\ clock \in 1 .. MaxTurns + 1
  /\ drawn \in [Handlers -> Turns \cup {0}]
  /\ stored \subseteq Turns
  /\ compacted \subseteq stored
  /\ summaries \subseteq Summary
  /\ compaction \in [Compactions -> Job]

\* The summary has the turn, or it is full and stops before it.
Covers(s, m) ==
  /\ m \in s.read
  /\ \/ m \in s.text
     \/ Cardinality(s.text) >= SurelyFit /\ \A k \in s.text : k < m

\* service.go: the summary is inserted before its turns are marked.  A turn that
\* leaves the prompt's history is in the text of a summary, or is newer than all a full
\* one has, whatever fails, is retried or runs beside it: a turn is lost by the length
\* of the summary alone, and never one of the oldest.
NothingForgotten == \A m \in compacted : \E s \in summaries : Covers(s, m)

\* service.go:642: a compaction "leaves the 12 most recent messages uncompacted so
\* GetContext always has a live tail to return".
LiveTail == compacted # {} => Cardinality(RecentHistory) = Tail

\* What a compaction reads leaves the tail alone, whatever turns arrive meanwhile
\* and in whatever order, unless the live turns shrank since it counted them.
TailIsLeft ==
  [][\A c \in Compactions :
       Step(c) = "counted" /\ compaction'[c].step = "found" =>
         compaction[c].overtaken \/ Cardinality(Live \ compaction'[c].read) >= Tail]_convVars

=============================================================================
