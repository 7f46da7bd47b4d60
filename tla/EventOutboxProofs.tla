-------------------------- MODULE EventOutboxProofs --------------------------
(***************************************************************************)
(* Proofs about EventOutbox: IInv is inductive, for any number of relays   *)
(* and appenders, and gives the safety properties.                         *)
(***************************************************************************)
EXTENDS EventOutbox, TLAPS

\* The initial state satisfies the inductive invariant.
LEMMA InitIInv == Init => IInv
  BY BoundAssumption, ProcessesAssumption
  DEF Init, IInv, TypeOK, DraftsAreFresh, RelaysHoldRows, StreamHasRows, MarkingIsStreamed,
    OutboxRowsHaveEvents, StreamIsFenced, Relays, Rows, Ids, Absent, NoDraft, Open, Streamed

\* A draft is open exactly when it has drawn an event id.
LEMMA OpenDrafts ==
  ASSUME TypeOK, NEW a \in Appenders
  PROVE  /\ Open(a) <=> drafts[a].event # 0
         /\ Open(a) => drafts[a] \in Draft
         /\ NoDraft.event = 0
  BY BoundAssumption DEF TypeOK, Open, NoDraft, Draft, Ids

\* A row is there exactly when it is pending or published.
LEMMA PresentRows ==
  ASSUME TypeOK, NEW i \in Ids
  PROVE  /\ i \in Rows <=> outbox[i].status \in {"pending", "published"}
         /\ i \in Rows <=> outbox[i] \in Row
         /\ i \notin Rows <=> outbox[i] = Absent
  BY DEF TypeOK, Rows, Row, Absent

\* The steps of an appender before its commit leave what is committed alone.
LEMMA DraftInv ==
  ASSUME IInv, NEW a \in Appenders, InsertEvent(a) \/ InsertOutbox(a) \/ AbortAppend(a)
  PROVE  IInv'
  <1> USE BoundAssumption DEF IInv
  <1>1. UNCHANGED <<events, outbox, batch, marking, stream, cursor, projected>>
    BY DEF InsertEvent, InsertOutbox, AbortAppend, relayVars, replayVars
  <1>2. TypeOK'
    <2>1. CASE InsertEvent(a)
      BY <2>1 DEF InsertEvent, TypeOK, Draft, Ids, relayVars, replayVars
    <2>2. CASE InsertOutbox(a)
      <3>1. drafts[a] \in Draft
        BY <2>2, OpenDrafts DEF InsertOutbox, Open
      <3>2. nextRow \in Ids
        BY <2>2 DEF InsertOutbox, TypeOK, Ids
      <3>3. [drafts[a] EXCEPT !.row = nextRow] \in Draft
        BY <3>1, <3>2 DEF Draft
      <3> QED BY <2>2, <3>2, <3>3 DEF InsertOutbox, TypeOK, Ids, relayVars, replayVars
    <2>3. CASE AbortAppend(a)
      BY <2>3 DEF AbortAppend, TypeOK, relayVars, replayVars
    <2> QED BY <2>1, <2>2, <2>3
  <1>3. DraftsAreFresh'
    <2>1. CASE InsertEvent(a)
      <3>1. PICK d \in Draft : /\ drafts' = [drafts EXCEPT ![a] = d]
                               /\ d.event = nextEvent /\ d.row = 0
        <4>1. PICK n \in Namespaces, t \in Topics \cup {<<>>}, k \in PayloadKeys :
                 drafts' = [drafts EXCEPT ![a] =
                   [event |-> nextEvent, ns |-> n, topic |-> t, key |-> k, row |-> 0]]
          BY <2>1 DEF InsertEvent
        <4>2. nextEvent \in Ids
          BY <2>1 DEF InsertEvent, TypeOK, Ids
        <4> DEFINE new == [event |-> nextEvent, ns |-> n, topic |-> t, key |-> k, row |-> 0]
        <4>3. new \in Draft /\ new.event = nextEvent /\ new.row = 0
          BY <4>2 DEF Draft
        <4> QED BY <4>1, <4>3
      <3>2. nextEvent' = nextEvent + 1 /\ nextRow' = nextRow /\ nextEvent \in Nat /\ nextRow \in Nat
            /\ nextRow > 0
        BY <2>1 DEF InsertEvent, TypeOK, Ids
      <3>3. drafts'[a] = d /\ \A b \in Appenders \ {a} : drafts'[b] = drafts[b]
        BY <3>1 DEF TypeOK
      <3>4. \A b \in Appenders \ {a} : Open(b)' <=> Open(b)
        BY <3>3 DEF Open
      <3>5. \A b \in Appenders : Open(b) =>
               drafts[b].event \in Nat /\ drafts[b].event < nextEvent
        BY OpenDrafts DEF DraftsAreFresh, Draft, Ids
      <3>6. \A i \in Rows : outbox[i].event \in Nat /\ outbox[i].event < nextEvent
        BY PresentRows DEF DraftsAreFresh, Row, Rows, Ids
      <3>7. \A e \in events : e.id \in Nat /\ e.id < nextEvent
        BY DEF DraftsAreFresh, TypeOK, Ids
      <3>8. Rows' = Rows
        BY <1>1 DEF Rows
      <3>9. ASSUME NEW b \in Appenders, Open(b)'
            PROVE  /\ drafts'[b].event < nextEvent'
                   /\ \A i \in Rows' : outbox'[i].event # drafts'[b].event
                   /\ drafts'[b].row < nextRow'
                   /\ drafts'[b].row # 0 =>
                        outbox'[drafts'[b].row] = Absent /\ drafts'[b].topic # <<>>
        <4>1. CASE b = a
          BY <4>1, <1>1, <3>1, <3>2, <3>3, <3>6, <3>8
        <4>2. CASE b # a
          BY <4>2, <3>9, <1>1, <3>2, <3>3, <3>4, <3>5, <3>8 DEF DraftsAreFresh
        <4> QED BY <4>1, <4>2
      <3>10. ASSUME NEW b \in Appenders, NEW c \in Appenders \ {b}, Open(b)', Open(c)'
             PROVE  /\ drafts'[c].event # drafts'[b].event
                    /\ drafts'[b].row # 0 => drafts'[c].row # drafts'[b].row
        BY <3>10, <3>1, <3>2, <3>3, <3>4, <3>5 DEF DraftsAreFresh
      <3>11. \A e \in events' : e.id < nextEvent'
        BY <1>1, <3>2, <3>7
      <3>12. \A i \in Rows' : outbox'[i].event < nextEvent' /\ i < nextRow'
        BY <1>1, <3>2, <3>6, <3>8 DEF DraftsAreFresh
      <3> QED BY <3>9, <3>10, <3>11, <3>12 DEF DraftsAreFresh
    <2>2. CASE InsertOutbox(a)
      <3>1. drafts[a] \in Draft /\ Open(a)
        BY <2>2, OpenDrafts DEF InsertOutbox, Open
      <3>2. drafts' = [drafts EXCEPT ![a].row = nextRow] /\ nextRow' = nextRow + 1
            /\ nextRow \in Ids /\ nextEvent' = nextEvent /\ drafts[a].topic # <<>>
        BY <2>2 DEF InsertOutbox, TypeOK, Ids
      <3>3. /\ drafts'[a].event = drafts[a].event
            /\ drafts'[a].row = nextRow
            /\ drafts'[a].topic = drafts[a].topic
            /\ \A b \in Appenders \ {a} : drafts'[b] = drafts[b]
        BY <3>1, <3>2 DEF TypeOK, Draft
      <3>4. nextRow \notin Rows
        BY DEF DraftsAreFresh, Rows, TypeOK, Ids
      <3>5. \A b \in Appenders : Open(b)' => Open(b)
        BY <3>1, <3>3 DEF Open
      <3>6. \A b \in Appenders : Open(b) => drafts[b].row \in Nat /\ drafts[b].row < nextRow
        BY OpenDrafts DEF DraftsAreFresh, Draft, Ids
      <3> QED BY <1>1, <3>1, <3>2, <3>3, <3>4, <3>5, <3>6
          DEF DraftsAreFresh, Rows, TypeOK, Ids
    <2>3. CASE AbortAppend(a)
      BY <2>3, <1>1 DEF AbortAppend, DraftsAreFresh, Rows, Open
    <2> QED BY <2>1, <2>2, <2>3
  <1> QED BY <1>1, <1>2, <1>3
      DEF RelaysHoldRows, StreamHasRows, MarkingIsStreamed, OutboxRowsHaveEvents, StreamIsFenced,
        Rows, Streamed

\* A commit adds one event and at most one row, both new.
LEMMA CommitInv ==
  ASSUME IInv, NEW a \in Appenders, CommitAppend(a)
  PROVE  IInv'
  <1> USE BoundAssumption DEF IInv, CommitAppend
  <1>1. drafts[a] \in Draft /\ Open(a)
    BY OpenDrafts DEF Open
  <1>2. UNCHANGED <<nextEvent, nextRow, batch, marking, stream, cursor, projected>>
    BY DEF relayVars, replayVars
  <1>3. CASE drafts[a].row = 0
    <2>1. outbox' = outbox
      BY <1>3
    <2>2. TypeOK'
      BY <1>1, <1>2, <2>1 DEF TypeOK, Draft, Ids
    <2>3. DraftsAreFresh'
      BY <1>1, <1>2, <2>1 DEF DraftsAreFresh, Rows, Open, TypeOK, Draft
    <2> QED BY <1>2, <2>1, <2>2, <2>3
        DEF RelaysHoldRows, StreamHasRows, MarkingIsStreamed, OutboxRowsHaveEvents, StreamIsFenced,
          Rows, Streamed
  <1>4. CASE drafts[a].row # 0
    <2> DEFINE k == drafts[a].row
    <2> DEFINE new == PendingRow(drafts[a])
    <2> HIDE DEF k, new
    <2>1. k \in Ids /\ outbox[k] = Absent /\ k \notin Rows
      BY <1>1, <1>4 DEF k, Draft, DraftsAreFresh, Rows
    <2>2. /\ new.status = "pending" /\ new.event = drafts[a].event
          /\ new.ns = drafts[a].ns /\ new.event \in Ids
      BY <1>1 DEF new, PendingRow, Draft
    <2>3. new \in Row
      BY <1>1, <1>4 DEF new, PendingRow, Row, Draft, DraftsAreFresh
    <2>4. outbox' = [outbox EXCEPT ![k] = new]
      BY <1>4 DEF k, new
    <2>5. Rows' = Rows \cup {k}
      BY <2>1, <2>2, <2>4 DEF Rows, TypeOK, Absent
    <2>6. \A i \in Rows : outbox'[i] = outbox[i]
      BY <2>1, <2>4 DEF Rows, TypeOK
    <2>7. outbox'[k] = new
      BY <2>1, <2>4 DEF TypeOK
    <2>8. TypeOK'
      BY <1>1, <1>2, <2>3, <2>4 DEF TypeOK, Draft
    <2>9. DraftsAreFresh'
      <3>1. \A b \in Appenders \ {a} : drafts'[b] = drafts[b]
        BY DEF TypeOK
      <3>2. drafts'[a] = NoDraft
        BY DEF TypeOK
      <3>3. \A b \in Appenders : Open(b)' => Open(b) /\ b # a
        BY <3>1, <3>2 DEF Open
      <3>4. \A e \in events' : e.id < nextEvent
        BY <1>1 DEF DraftsAreFresh
      <3>5. \A i \in Rows' : outbox'[i].event < nextEvent' /\ i < nextRow'
        BY <1>1, <1>2, <2>2, <2>5, <2>6, <2>7 DEF DraftsAreFresh, k
      <3>6. ASSUME NEW b \in Appenders, Open(b)'
            PROVE  /\ drafts'[b].event < nextEvent'
                   /\ \A i \in Rows' : outbox'[i].event # drafts'[b].event
                   /\ drafts'[b].row < nextRow'
                   /\ drafts'[b].row # 0 =>
                        outbox'[drafts'[b].row] = Absent /\ drafts'[b].topic # <<>>
        <4>1. b # a /\ Open(b) /\ drafts'[b] = drafts[b] /\ drafts[b] \in Draft
          BY <3>1, <3>3, <3>6, OpenDrafts
        <4>2. drafts[b].event # drafts[a].event
          BY <1>1, <4>1 DEF DraftsAreFresh
        <4>3. drafts[b].row # 0 => drafts[b].row # k /\ drafts[b].row \in Ids
          BY <1>1, <1>4, <4>1 DEF DraftsAreFresh, Draft, k
        <4>4. drafts[b].row # 0 => outbox'[drafts[b].row] = outbox[drafts[b].row]
          BY <4>3, <2>4 DEF TypeOK
        <4> QED BY <1>2, <2>2, <2>5, <2>6, <2>7, <4>1, <4>2, <4>4 DEF DraftsAreFresh
      <3> QED BY <3>1, <3>3, <3>4, <3>5, <3>6, <1>2 DEF DraftsAreFresh
    <2>10. OutboxRowsHaveEvents'
      <3>1. \A i \in Rows : outbox[i].event # new.event
        BY <1>1, <2>2 DEF DraftsAreFresh
      <3>2. [id |-> new.event, ns |-> new.ns] \in events'
        BY <2>2
      <3> QED BY <2>5, <2>6, <2>7, <3>1, <3>2 DEF OutboxRowsHaveEvents
    <2>11. RelaysHoldRows' /\ StreamHasRows' /\ MarkingIsStreamed' /\ StreamIsFenced'
      BY <1>2, <2>5, <2>6
      DEF RelaysHoldRows, StreamHasRows, MarkingIsStreamed, StreamIsFenced, Streamed
    <2> QED BY <2>8, <2>9, <2>10, <2>11
  <1> QED BY <1>3, <1>4

-----------------------------------------------------------------------------
(* The relays.                                                              *)

\* What a relay may do to the outbox: a row keeps what Append wrote into it.
RowsKept ==
  /\ outbox' \in [Ids -> Row \cup {Absent}]
  /\ Rows' = Rows
  /\ \A i \in Rows : outbox'[i].event = outbox[i].event /\ outbox'[i].ns = outbox[i].ns
  /\ \A i \in Rows : outbox'[i].topic = outbox[i].topic /\ outbox'[i].key = outbox[i].key

\* Another status, or another count of attempts, on one row.
LEMMA UpdateKeepsRows ==
  ASSUME TypeOK, NEW r \in Relays, NEW i \in Rows,
         NEW st \in {"pending", "published"}, NEW b \in BOOLEAN,
         \/ Update(r, i, [[outbox[i] EXCEPT !.status = st] EXCEPT !.bumped = b])
         \/ UNCHANGED outbox
  PROVE  /\ RowsKept
         /\ \A k \in Ids \ {i} : outbox'[k] = outbox[k]
         /\ outbox'[i].status \in {st, outbox[i].status}
  <1> DEFINE new == [[outbox[i] EXCEPT !.status = st] EXCEPT !.bumped = b]
  <1>1. i \in Ids /\ outbox[i] \in Row
    BY PresentRows DEF Rows
  <1>2. /\ new \in Row /\ new.status = st
        /\ new.event = outbox[i].event /\ new.ns = outbox[i].ns
        /\ new.topic = outbox[i].topic /\ new.key = outbox[i].key
    BY <1>1 DEF Row
  <1> HIDE DEF new
  <1>3. outbox' = [outbox EXCEPT ![i] = new] \/ outbox' = outbox
    BY DEF Update, new
  <1>4. \A x \in Row : x # Absent
    BY DEF Row, Absent
  <1>5. outbox \in [Ids -> Row \cup {Absent}]
    BY DEF TypeOK
  <1> QED BY <1>1, <1>2, <1>3, <1>4, <1>5 DEF RowsKept, Rows

\* BumpAttempts keeps the rows and their status, and shrinks the batch.
LEMMA BumpKeeps ==
  ASSUME TypeOK, NEW r \in Relays, NEW i \in Rows, BumpAttempts(r, i)
  PROVE  /\ RowsKept
         /\ \A k \in Ids : outbox'[k].status = outbox[k].status
         /\ batch' \in [Relays -> SUBSET Ids]
         /\ \A q \in Relays : batch'[q] \subseteq batch[q]
  <1>1. i \in Ids /\ outbox[i] \in Row
    BY PresentRows DEF Rows
  <1>2. [outbox[i] EXCEPT !.bumped = TRUE]
          = [[outbox[i] EXCEPT !.status = outbox[i].status] EXCEPT !.bumped = TRUE]
    BY <1>1 DEF Row
  <1>3. outbox[i].status \in {"pending", "published"}
    BY <1>1 DEF Row
  <1>4. \/ Update(r, i, [[outbox[i] EXCEPT !.status = outbox[i].status] EXCEPT !.bumped = TRUE])
        \/ UNCHANGED outbox
    BY <1>2 DEF BumpAttempts
  <1>5. RowsKept /\ \A k \in Ids : outbox'[k].status = outbox[k].status
    BY <1>1, <1>3, <1>4, UpdateKeepsRows
  <1>6. batch' = [batch EXCEPT ![r] = @ \ {i}] \/ batch' = [batch EXCEPT ![r] = {}]
    BY DEF BumpAttempts, Done, GiveUpBatch
  <1> QED BY <1>5, <1>6 DEF TypeOK

\* A relay step keeps the invariant when what it holds are rows, what it publishes
\* is fenced, and what it marks is in the stream.
LEMMA RelayKeeps ==
  ASSUME IInv, RowsKept,
         UNCHANGED <<events, nextEvent, nextRow, drafts, replayVars>>,
         batch' \in [Relays -> SUBSET Rows],
         marking' \in [Relays -> Rows \cup {0}],
         stream \subseteq stream',
         \A m \in stream' \ stream :
           /\ m.row \in Rows /\ m.subject \in Seq(STRING)
           /\ NamespaceOf(m.subject) = outbox[m.row].ns
           /\ Len(m.subject) >= 3,
         \A g \in GoRelays : marking'[g] # 0 =>
           marking'[g] = marking[g] \/ \E m \in stream' : m.row = marking'[g]
  PROVE  IInv'
  <1> USE DEF IInv, RowsKept
  <1>1. Rows \subseteq Ids
    BY DEF Rows
  <1>3. TypeOK'
    BY <1>1 DEF TypeOK, replayVars
  <1>4. DraftsAreFresh'
    <2>1. \A i \in Ids : outbox[i] = Absent => outbox'[i] = Absent
      BY DEF Rows
    <2>2. \A a \in Appenders : Open(a) /\ drafts[a].row # 0 => drafts[a].row \in Ids
      BY OpenDrafts DEF Draft
    <2> QED BY <2>1, <2>2 DEF DraftsAreFresh, Open
  <1>5. RelaysHoldRows'
    BY DEF RelaysHoldRows
  <1>6. StreamHasRows' /\ StreamIsFenced'
    BY DEF StreamHasRows, StreamIsFenced
  <1>7. OutboxRowsHaveEvents'
    BY DEF OutboxRowsHaveEvents
  <1>8. MarkingIsStreamed'
    <2> SUFFICES ASSUME NEW g \in GoRelays, marking'[g] # 0
                 PROVE  \E m \in stream' : m.row = marking'[g]
      BY DEF MarkingIsStreamed, Streamed
    <2>1. CASE marking'[g] = marking[g]
      BY <2>1 DEF MarkingIsStreamed, Streamed
    <2> QED BY <2>1
  <1> QED BY <1>3, <1>4, <1>5, <1>6, <1>7, <1>8

\* Every subject a relay builds ends in the namespace of its row.
LEMMA SubjectEndsInNamespace ==
  ASSUME NEW r \in Relays, NEW row \in Row, IsNamespacedSubject(Subject(r, row))
  PROVE  /\ Subject(r, row) \in Seq(STRING)
         /\ NamespaceOf(Subject(r, row)) = row.ns
         /\ Len(Subject(r, row)) >= 3
  <1>1. row.topic \in Seq(STRING) /\ row.topic # <<>> /\ row.ns \in STRING
    BY TopicsAssumption, NamespacesAssumption DEF Row
  <1>2. Append(row.topic, row.ns) \in Seq(STRING) /\ Last(Append(row.topic, row.ns)) = row.ns
    BY <1>1 DEF Last
  <1>3. Subject(r, row) \in Seq(STRING) /\ Last(Subject(r, row)) = row.ns
    BY <1>1, <1>2 DEF Subject, BuildSubject
  <1> QED BY <1>3 DEF NamespaceOf, IsNamespacedSubject

\* Every step of a relay keeps the invariant.
LEMMA RelayInv ==
  ASSUME IInv, NEW r \in Relays, RelayStep(r) \/ RelayCrash(r)
  PROVE  IInv'
  <1> USE DEF IInv
  <1>t. TypeOK /\ Rows \subseteq Ids /\ Pending \subseteq Rows
    BY DEF Rows, Pending, Absent
  <1>h. /\ batch \in [Relays -> SUBSET Rows]
        /\ marking \in [Relays -> Rows \cup {0}]
    BY DEF TypeOK, RelaysHoldRows
  <1>g. GoRelays \subseteq Relays
    BY DEF Relays
  <1>k. UNCHANGED outbox => RowsKept
    BY DEF RowsKept, TypeOK, Rows
  <1>1. CASE FetchPending(r)
    <2>1. UNCHANGED <<events, nextEvent, nextRow, drafts, outbox, marking, stream, replayVars>>
      BY <1>1 DEF FetchPending, logVars
    <2>2. batch' \in [Relays -> SUBSET Rows]
      BY <1>1, <1>t, <1>h DEF FetchPending
    <2> QED BY <1>h, <1>g, <1>k, <2>1, <2>2, RelayKeeps
  <1>2. CASE RelayCrash(r)
    <2>1. UNCHANGED <<events, nextEvent, nextRow, drafts, outbox, stream, replayVars>>
      BY <1>2 DEF RelayCrash, logVars
    <2>2. /\ batch' \in [Relays -> SUBSET Rows]
          /\ marking' \in [Relays -> Rows \cup {0}]
          /\ \A q \in GoRelays : marking'[q] # 0 => marking'[q] = marking[q]
      BY <1>2, <1>h, <1>g DEF RelayCrash
    <2> QED BY <1>k, <2>1, <2>2, RelayKeeps
  <1> DEFINE Bumped(i) == /\ i \in Rows
                          /\ BumpAttempts(r, i)
                          /\ marking' \in {marking, [marking EXCEPT ![r] = 0]}
  <1>b. ASSUME NEW i \in Ids, Bumped(i) PROVE IInv'
    <2>1. /\ RowsKept
          /\ \A k \in Ids : outbox'[k].status = outbox[k].status
          /\ batch' \in [Relays -> SUBSET Ids]
          /\ \A q \in Relays : batch'[q] \subseteq batch[q]
      BY <1>b, <1>t, BumpKeeps
    <2>2. batch' \in [Relays -> SUBSET Rows]
      BY <2>1, <1>h
    <2>3. /\ marking' \in [Relays -> Rows \cup {0}]
          /\ \A q \in GoRelays : marking'[q] # 0 => marking'[q] = marking[q]
      BY <1>b, <1>h, <1>g
    <2>4. UNCHANGED <<events, nextEvent, nextRow, drafts, stream, replayVars>>
      BY <1>b DEF BumpAttempts
    <2> QED BY <2>1, <2>2, <2>3, <2>4, <1>t, RelayKeeps
  <1>3. ASSUME NEW i \in Ids, SkipRow(r, i) PROVE IInv'
    BY <1>3, <1>b, <1>h DEF SkipRow, IsNext
  <1>4. ASSUME NEW i \in Ids, PublishRow(r, i) PROVE IInv'
    <2>1. i \in Rows /\ outbox[i] \in Row
      BY <1>4, <1>h, PresentRows DEF PublishRow, IsNext
    <2> DEFINE m == [row |-> i, subject |-> Subject(r, outbox[i])]
    <2>2. stream' = stream \cup {m}
      BY <1>4 DEF PublishRow
    <2>3. /\ m.row \in Rows /\ m.subject \in Seq(STRING)
          /\ NamespaceOf(m.subject) = outbox[m.row].ns
          /\ Len(m.subject) >= 3
      BY <1>4, <2>1, SubjectEndsInNamespace DEF PublishRow, Publishable
    <2>4. \E n \in stream' : n.row = i
      <3>1. m.row = i
        OBVIOUS
      <3> QED BY <2>2, <3>1
    <2>5. marking' = [marking EXCEPT ![r] = i]
          /\ UNCHANGED <<events, nextEvent, nextRow, drafts, outbox, batch, replayVars>>
      BY <1>4 DEF PublishRow, logVars
    <2> HIDE DEF m
    <2>6. \A q \in GoRelays : marking'[q] # 0 =>
             marking'[q] = marking[q] \/ \E n \in stream' : n.row = marking'[q]
      BY <2>4, <2>5, <1>h, <1>g
    <2>7. marking' \in [Relays -> Rows \cup {0}]
      BY <2>1, <2>5, <1>h
    <2> QED BY <1>k, <1>h, <2>2, <2>3, <2>5, <2>6, <2>7, RelayKeeps
  <1>5. ASSUME NEW i \in Ids, PublishFails(r, i) PROVE IInv'
    <2>1. i \in Rows
      BY <1>5, <1>h DEF PublishFails, IsNext
    <2>2. CASE r \in GoRelays
      BY <1>5, <2>1, <2>2, <1>b DEF PublishFails
    <2>3. CASE r \notin GoRelays
      <3>2. marking' = [marking EXCEPT ![r] = i]
            /\ UNCHANGED <<events, nextEvent, nextRow, drafts, outbox, batch, stream, replayVars>>
        BY <1>5, <2>3 DEF PublishFails, logVars
      <3>3. /\ marking' \in [Relays -> Rows \cup {0}]
            /\ \A q \in GoRelays : marking'[q] = marking[q]
        BY <2>1, <2>3, <3>2, <1>h, <1>g
      <3> QED BY <1>k, <1>h, <3>2, <3>3, RelayKeeps
    <2> QED BY <2>2, <2>3
  <1>m. ASSUME NEW i \in Ids, i = marking[r] PROVE i \in Rows
    BY <1>m, <1>h DEF Ids
  <1>6. ASSUME NEW i \in Ids, MarkPublished(r, i) PROVE IInv'
    <2>1. i \in Rows /\ outbox[i] \in Row /\ i = marking[r] /\ i # 0
      BY <1>6, <1>m, PresentRows DEF MarkPublished, Ids
    <2>2. [outbox[i] EXCEPT !.status = "published"]
            = [[outbox[i] EXCEPT !.status = "published"] EXCEPT !.bumped = outbox[i].bumped]
      BY <2>1 DEF Row
    <2>3. Update(r, i, [[outbox[i] EXCEPT !.status = "published"] EXCEPT !.bumped = outbox[i].bumped])
      BY <1>6, <2>2 DEF MarkPublished
    <2>4. outbox[i].bumped \in BOOLEAN
      BY <2>1 DEF Row
    <2>5. RowsKept /\ \A k \in Ids \ {i} : outbox'[k] = outbox[k]
      BY <2>1, <2>3, <2>4, <1>t, UpdateKeepsRows
    <2>7. /\ batch' = [batch EXCEPT ![r] = @ \ {i}]
          /\ marking' = [marking EXCEPT ![r] = 0]
          /\ UNCHANGED <<events, nextEvent, nextRow, drafts, stream, replayVars>>
      BY <1>6 DEF MarkPublished, Done
    <2>8. /\ batch' \in [Relays -> SUBSET Rows]
          /\ marking' \in [Relays -> Rows \cup {0}]
          /\ \A q \in GoRelays : marking'[q] # 0 => marking'[q] = marking[q]
      BY <2>7, <1>h, <1>g
    <2> QED BY <2>5, <2>7, <2>8, RelayKeeps
  <1>7. ASSUME NEW i \in Ids, MarkFails(r, i) PROVE IInv'
    <2>1. i \in Rows
      BY <1>7, <1>m DEF MarkFails
    <2>2. CASE r \in GoRelays
      <3>1. /\ batch' = [batch EXCEPT ![r] = @ \ {i}]
            /\ marking' = [marking EXCEPT ![r] = 0]
            /\ UNCHANGED <<events, nextEvent, nextRow, drafts, outbox, stream, replayVars>>
        BY <1>7, <2>2 DEF MarkFails, Done, logVars
      <3>2. /\ batch' \in [Relays -> SUBSET Rows]
            /\ marking' \in [Relays -> Rows \cup {0}]
            /\ \A q \in GoRelays : marking'[q] # 0 => marking'[q] = marking[q]
        BY <3>1, <1>h, <1>g
      <3> QED BY <1>k, <3>1, <3>2, RelayKeeps
    <2>3. CASE r \notin GoRelays
      BY <1>7, <2>1, <2>3, <1>b DEF MarkFails
    <2> QED BY <2>2, <2>3
  <1> QED BY <1>1, <1>2, <1>3, <1>4, <1>5, <1>6, <1>7 DEF RelayStep

\* A projection reads the log and changes nothing but its own state.
LEMMA ReplayInv ==
  ASSUME IInv, NEW n \in Namespaces, Replay(n)
  PROVE  IInv'
  <1> USE DEF IInv, logVars, relayVars
  <1>1. UNCHANGED <<events, nextEvent, outbox, nextRow, drafts, batch, marking, stream>>
    BY DEF Replay
  <1>2. PICK ids \in SUBSET Ids, seen \in Ids :
          /\ projected' = [projected EXCEPT ![n] = @ \cup ids]
          /\ cursor' = [cursor EXCEPT ![n] = seen]
    <2> DEFINE read == {e \in Unread(n) :
                         Cardinality({f \in Unread(n) : f.id < e.id}) < BatchSize}
    <2>1. {e.id : e \in read} \subseteq Ids
      BY DEF Unread, TypeOK
    <2> QED BY <2>1 DEF Replay
  <1>3. TypeOK'
    <2>1. projected' \in [Namespaces -> SUBSET Ids]
      BY <1>2 DEF TypeOK
    <2>2. cursor' \in [Namespaces -> Nat]
      BY <1>2 DEF TypeOK, Ids
    <2> QED BY <1>1, <2>1, <2>2 DEF TypeOK
  <1> QED BY <1>1, <1>3
      DEF DraftsAreFresh, Open, RelaysHoldRows, StreamHasRows, MarkingIsStreamed,
        OutboxRowsHaveEvents, StreamIsFenced, Rows, Streamed

-----------------------------------------------------------------------------
(* The theorems.                                                            *)

\* Every step keeps the invariant.
LEMMA NextIInv == IInv /\ [Next]_vars => IInv'
  <1> SUFFICES ASSUME IInv, [Next]_vars PROVE IInv'
    OBVIOUS
  <1>1. CASE UNCHANGED vars
    BY <1>1
    DEF vars, logVars, relayVars, replayVars, IInv, TypeOK, DraftsAreFresh, Open, RelaysHoldRows,
      StreamHasRows, MarkingIsStreamed, OutboxRowsHaveEvents, StreamIsFenced, Rows, Streamed
  <1>2. ASSUME NEW a \in Appenders, AppendStep(a) PROVE IInv'
    BY <1>2, DraftInv, CommitInv DEF AppendStep
  <1>3. ASSUME NEW r \in Relays, RelayStep(r) \/ RelayCrash(r) PROVE IInv'
    BY <1>3, RelayInv
  <1>4. ASSUME NEW n \in Namespaces, Replay(n) PROVE IInv'
    BY <1>4, ReplayInv
  <1> QED BY <1>1, <1>2, <1>3, <1>4 DEF Next

\* The inductive invariant holds in every reachable state.
THEOREM Invariance == Spec => []IInv
  BY InitIInv, NextIInv, PTL DEF Spec

\* Every variable keeps its type.
THEOREM TypeCorrect == Spec => []TypeOK
  <1>1. IInv => TypeOK
    BY DEF IInv
  <1> QED BY <1>1, Invariance, PTL

\* events.go: event and outbox row are written in one transaction, so a relay never
\* sees a row without its event.
THEOREM RowsHaveEvents == Spec => []OutboxRowsHaveEvents
  <1>1. IInv => OutboxRowsHaveEvents
    BY DEF IInv
  <1> QED BY <1>1, Invariance, PTL

\* outbox_relay.go, outbox-bridge.ts: every message is filed under the namespace of
\* its row, whichever relay sends it.
THEOREM Fenced == Spec => []StreamIsFenced
  <1>1. IInv => StreamIsFenced
    BY DEF IInv
  <1> QED BY <1>1, Invariance, PTL

\* outbox_relay.go: no Go relay marks a row before its message is in the stream,
\* beside any number of other relays of both kinds.
THEOREM GoRelaysMarkLast == Spec => []MarkingIsStreamed
  <1>1. IInv => MarkingIsStreamed
    BY DEF IInv
  <1> QED BY <1>1, Invariance, PTL

-----------------------------------------------------------------------------
(* What the log and its projections keep.                                   *)

\* The body of LogIsAppendOnly.
KeepsTheLog ==
  /\ events \subseteq events'
  /\ \A i \in Rows : i \in Rows' /\ Content(outbox'[i]) = Content(outbox[i])

\* No step takes an event back or rewrites a row.
LEMMA StepKeepsTheLog ==
  ASSUME IInv, [Next]_vars
  PROVE  KeepsTheLog
  <1> USE DEF IInv
  <1>u. UNCHANGED <<events, outbox>> => KeepsTheLog
    BY DEF KeepsTheLog, Rows
  <1>k. RowsKept /\ UNCHANGED events => KeepsTheLog
    BY DEF KeepsTheLog, RowsKept, Content
  <1>1. CASE UNCHANGED vars
    BY <1>1, <1>u DEF vars, logVars
  <1>2. ASSUME NEW a \in Appenders, AppendStep(a) PROVE KeepsTheLog
    <2>1. CASE InsertEvent(a) \/ InsertOutbox(a) \/ AbortAppend(a)
      BY <2>1, <1>u DEF InsertEvent, InsertOutbox, AbortAppend
    <2>2. CASE CommitAppend(a)
      <3>1. drafts[a].row # 0 => outbox[drafts[a].row] = Absent
        BY <2>2 DEF CommitAppend, DraftsAreFresh, Open
      <3>2. \A i \in Rows : i \in Ids /\ outbox'[i] = outbox[i]
        BY <2>2, <3>1 DEF CommitAppend, TypeOK, Rows
      <3>3. events \subseteq events'
        BY <2>2 DEF CommitAppend
      <3> QED BY <3>2, <3>3 DEF KeepsTheLog, Rows
    <2> QED BY <1>2, <2>1, <2>2 DEF AppendStep
  <1>3. ASSUME NEW r \in Relays, RelayStep(r) \/ RelayCrash(r) PROVE KeepsTheLog
    <2>h. /\ batch[r] \subseteq Rows
          /\ \A i \in Ids : i = marking[r] => i \in Rows
      BY DEF RelaysHoldRows, Ids
    <2>1. CASE FetchPending(r) \/ RelayCrash(r)
      BY <2>1, <1>u DEF FetchPending, RelayCrash, logVars
    <2>2. ASSUME NEW i \in Rows, BumpAttempts(r, i) PROVE KeepsTheLog
      <3>1. RowsKept
        BY <2>2, BumpKeeps
      <3> QED BY <2>2, <3>1, <1>k DEF BumpAttempts
    <2>3. ASSUME NEW i \in Ids, SkipRow(r, i) \/ PublishFails(r, i) \/ MarkFails(r, i)
          PROVE  KeepsTheLog
      <3>1. i \in Rows
        BY <2>3, <2>h DEF SkipRow, PublishFails, MarkFails, IsNext
      <3>2. BumpAttempts(r, i) \/ UNCHANGED <<events, outbox>>
        BY <2>3 DEF SkipRow, PublishFails, MarkFails, logVars
      <3> QED BY <3>1, <3>2, <2>2, <1>u
    <2>4. ASSUME NEW i \in Ids, PublishRow(r, i) PROVE KeepsTheLog
      BY <2>4, <1>u DEF PublishRow, logVars
    <2>5. ASSUME NEW i \in Ids, MarkPublished(r, i) PROVE KeepsTheLog
      <3>1. i \in Rows /\ outbox[i] \in Row
        BY <2>5, <2>h, PresentRows DEF MarkPublished
      <3>2. [outbox[i] EXCEPT !.status = "published"]
              = [[outbox[i] EXCEPT !.status = "published"] EXCEPT !.bumped = outbox[i].bumped]
        BY <3>1 DEF Row
      <3>3. outbox[i].bumped \in BOOLEAN
        BY <3>1 DEF Row
      <3>4. Update(r, i, [[outbox[i] EXCEPT !.status = "published"]
                                   EXCEPT !.bumped = outbox[i].bumped])
        BY <2>5, <3>2 DEF MarkPublished
      <3>5. RowsKept
        BY <3>1, <3>3, <3>4, UpdateKeepsRows
      <3> QED BY <2>5, <3>5, <1>k DEF MarkPublished
    <2> QED BY <1>3, <2>1, <2>3, <2>4, <2>5 DEF RelayStep
  <1>4. ASSUME NEW n \in Namespaces, Replay(n) PROVE KeepsTheLog
    BY <1>4, <1>u DEF Replay, logVars
  <1> QED BY <1>1, <1>2, <1>3, <1>4 DEF Next

\* An event commits when its draft does; nothing else changes a draft that stays
\* open or the set of events.
LEMMA EventsAndDrafts ==
  ASSUME IInv, EventsAreApart, [Next]_vars
  PROVE  EventsAreApart'
  <1> USE DEF IInv
  <1>u. UNCHANGED <<events, drafts>> => EventsAreApart'
    BY DEF EventsAreApart, Open
  <1>i. \A e \in events : e \in [id : Ids, ns : Namespaces] /\ e.id \in Nat /\ e.id < nextEvent
    BY DEF TypeOK, DraftsAreFresh, Ids
  <1>d. drafts \in [Appenders -> Draft \cup {NoDraft}]
    BY DEF TypeOK
  <1>1. CASE UNCHANGED vars
    BY <1>1, <1>u DEF vars, logVars
  <1>2. ASSUME NEW a \in Appenders, AppendStep(a) PROVE EventsAreApart'
    <2>1. CASE InsertEvent(a)
      <3>1. PICK n \in Namespaces, t \in Topics \cup {<<>>}, k \in PayloadKeys :
              drafts' = [drafts EXCEPT ![a] =
                [event |-> nextEvent, ns |-> n, topic |-> t, key |-> k, row |-> 0]]
        BY <2>1 DEF InsertEvent
      <3>2. events' = events /\ drafts'[a].event = nextEvent
        BY <2>1, <3>1, <1>d DEF InsertEvent
      <3>3. \A b \in Appenders \ {a} : drafts'[b] = drafts[b]
        BY <3>1, <1>d
      <3>4. ASSUME NEW b \in Appenders, Open(b)', NEW e \in events'
            PROVE  e.id # drafts'[b].event
        <4>1. CASE b = a
          BY <4>1, <1>i, <3>2 DEF TypeOK
        <4>2. CASE b # a
          BY <4>2, <3>2, <3>3, <3>4 DEF EventsAreApart, Open
        <4> QED BY <4>1, <4>2
      <3> QED BY <3>2, <3>4 DEF EventsAreApart
    <2>2. CASE InsertOutbox(a) \/ AbortAppend(a)
      <3>1. events' = events
        BY <2>2 DEF InsertOutbox, AbortAppend
      <3>2. ASSUME NEW b \in Appenders, Open(b)'
            PROVE  Open(b) /\ drafts'[b].event = drafts[b].event
        <4>1. CASE b # a
          BY <4>1, <2>2, <3>2, <1>d DEF InsertOutbox, AbortAppend, Open
        <4>2. CASE b = a
          <5>1. InsertOutbox(a)
            BY <2>2, <3>2, <4>2, <1>d DEF AbortAppend, Open
          <5>2. drafts[a] \in Draft
            BY <5>1, <1>d DEF InsertOutbox
          <5> QED BY <4>2, <5>1, <5>2, <1>d DEF InsertOutbox, Open, Draft
        <4> QED BY <4>1, <4>2
      <3> QED BY <3>1, <3>2 DEF EventsAreApart
    <2>3. CASE CommitAppend(a)
      <3>1. Open(a) /\ drafts' = [drafts EXCEPT ![a] = NoDraft]
            /\ events' = events \cup {[id |-> drafts[a].event, ns |-> drafts[a].ns]}
        BY <2>3 DEF CommitAppend, Open
      <3>2. \A b \in Appenders : Open(b)' => b # a /\ Open(b) /\ drafts'[b] = drafts[b]
        BY <3>1, <1>d DEF Open
      <3>3. \A b \in Appenders : Open(b) /\ b # a => drafts[b].event # drafts[a].event
        BY <3>1 DEF DraftsAreFresh
      <3>4. \A b \in Appenders : Open(b)' => \A e \in events' : e.id # drafts'[b].event
        BY <3>1, <3>2, <3>3 DEF EventsAreApart
      <3>5. \A e, f \in events' : e.id = f.id => e = f
        BY <3>1 DEF EventsAreApart
      <3> QED BY <3>4, <3>5 DEF EventsAreApart
    <2> QED BY <1>2, <2>1, <2>2, <2>3 DEF AppendStep
  <1>3. ASSUME NEW r \in Relays, RelayStep(r) \/ RelayCrash(r) PROVE EventsAreApart'
    <2>1. UNCHANGED <<events, drafts>>
      BY <1>3 DEF RelayStep, RelayCrash, FetchPending, SkipRow, PublishRow, PublishFails,
        MarkPublished, MarkFails, BumpAttempts, logVars
    <2> QED BY <2>1, <1>u
  <1>4. ASSUME NEW n \in Namespaces, Replay(n) PROVE EventsAreApart'
    BY <1>4, <1>u DEF Replay, logVars
  <1> QED BY <1>1, <1>2, <1>3, <1>4 DEF Next

\* What one call of Replay feeds its projection: committed events of the namespace
\* that are beyond the cursor, up to the new cursor.
LEMMA ReplayReads ==
  ASSUME IInv, NEW n \in Namespaces, Replay(n)
  PROVE  \E ids \in SUBSET Ids, seen \in Ids :
           /\ seen \in ids
           /\ projected' = [projected EXCEPT ![n] = @ \cup ids]
           /\ cursor' = [cursor EXCEPT ![n] = seen]
           /\ \A i \in ids : i > cursor[n] /\ i <= seen /\ [id |-> i, ns |-> n] \in events
  <1> DEFINE read == {e \in Unread(n) :
                       Cardinality({f \in Unread(n) : f.id < e.id}) < BatchSize}
  <1> DEFINE ids == {e.id : e \in read}
  <1>1. \A e \in read : e \in events /\ e.ns = n /\ e.id > cursor[n]
    BY DEF Unread
  <1>2. \A e \in events : e \in [id : Ids, ns : Namespaces]
    BY DEF IInv, TypeOK
  <1>3. PICK seen \in ids : /\ \A i \in ids : i <= seen
                           /\ cursor' = [cursor EXCEPT ![n] = seen]
    BY DEF Replay
  <1>4. projected' = [projected EXCEPT ![n] = @ \cup ids]
    BY DEF Replay
  <1> HIDE DEF read
  <1>5. ASSUME NEW i \in ids
        PROVE  i \in Ids /\ i > cursor[n] /\ [id |-> i, ns |-> n] \in events
    <2>1. PICK e \in read : i = e.id
      OBVIOUS
    <2>2. e = [id |-> i, ns |-> n]
      BY <2>1, <1>1, <1>2
    <2> QED BY <2>1, <2>2, <1>1, <1>2
  <1> QED BY <1>3, <1>4, <1>5

\* The body of ReplayGoesForward.
GoesForward ==
  \A n \in Namespaces :
    /\ cursor[n] <= cursor'[n]
    /\ \A i \in projected'[n] \ projected[n] : i > cursor[n]

\* Every step keeps the projections to the log and moves no cursor back.
LEMMA StepProjects ==
  ASSUME IInv, ProjectionsFollowTheLog, [Next]_vars
  PROVE  ProjectionsFollowTheLog' /\ GoesForward
  <1> USE DEF IInv
  <1>t. /\ cursor \in [Namespaces -> Nat]
        /\ projected \in [Namespaces -> SUBSET Ids]
        /\ Ids \subseteq Nat \ {0}
    BY DEF TypeOK, Ids
  <1>e. events \subseteq events'
    BY StepKeepsTheLog DEF KeepsTheLog
  <1>u. UNCHANGED replayVars => ProjectionsFollowTheLog' /\ GoesForward
    BY <1>t, <1>e DEF replayVars, ProjectionsFollowTheLog, GoesForward
  <1>1. CASE UNCHANGED vars
    BY <1>1, <1>u DEF vars
  <1>2. ASSUME NEW a \in Appenders, AppendStep(a) PROVE UNCHANGED replayVars
    BY <1>2 DEF AppendStep, InsertEvent, InsertOutbox, CommitAppend, AbortAppend
  <1>3. ASSUME NEW r \in Relays, RelayStep(r) \/ RelayCrash(r) PROVE UNCHANGED replayVars
    BY <1>3 DEF RelayStep, RelayCrash, FetchPending, SkipRow, PublishRow, PublishFails,
      MarkPublished, MarkFails, BumpAttempts
  <1>4. ASSUME NEW n \in Namespaces, Replay(n) PROVE ProjectionsFollowTheLog' /\ GoesForward
    <2>1. PICK ids \in SUBSET Ids, seen \in Ids :
            /\ seen \in ids
            /\ projected' = [projected EXCEPT ![n] = @ \cup ids]
            /\ cursor' = [cursor EXCEPT ![n] = seen]
            /\ \A i \in ids : i > cursor[n] /\ i <= seen /\ [id |-> i, ns |-> n] \in events
      BY <1>4, ReplayReads
    <2>2. /\ projected'[n] = projected[n] \cup ids /\ cursor'[n] = seen
          /\ seen \in Nat /\ cursor[n] < seen
      BY <2>1, <1>t
    <2>3. \A m \in Namespaces \ {n} : projected'[m] = projected[m] /\ cursor'[m] = cursor[m]
      BY <2>1, <1>t
    <2>4. ASSUME NEW m \in Namespaces
          PROVE  /\ \A i \in projected'[m] : [id |-> i, ns |-> m] \in events' /\ i <= cursor'[m]
                 /\ cursor'[m] # 0 => cursor'[m] \in projected'[m]
                 /\ cursor[m] <= cursor'[m]
                 /\ \A i \in projected'[m] \ projected[m] : i > cursor[m]
      <3>1. CASE m = n
        <4>1. \A i \in projected[n] : i \in Nat /\ i <= cursor[n] /\ [id |-> i, ns |-> n] \in events
          BY <1>t DEF ProjectionsFollowTheLog
        <4>2. cursor[n] \in Nat
          BY <1>t
        <4>3. \A i \in projected'[n] : [id |-> i, ns |-> n] \in events' /\ i <= cursor'[n]
          <5> SUFFICES ASSUME NEW i \in projected'[n]
                       PROVE  [id |-> i, ns |-> n] \in events' /\ i <= cursor'[n]
            OBVIOUS
          <5>1. CASE i \in projected[n]
            BY <5>1, <4>1, <4>2, <2>2, <1>e
          <5>2. CASE i \in ids
            BY <5>2, <2>1, <2>2, <1>e
          <5> QED BY <5>1, <5>2, <2>2
        <4>4. cursor'[n] \in projected'[n] /\ cursor[n] <= cursor'[n]
          BY <4>2, <2>1, <2>2
        <4>5. \A i \in projected'[n] \ projected[n] : i > cursor[n]
          BY <2>1, <2>2
        <4> QED BY <3>1, <4>3, <4>4, <4>5
      <3>2. CASE m # n
        <4>1. cursor[m] \in Nat
          BY <1>t
        <4> QED BY <3>2, <4>1, <2>3, <1>e DEF ProjectionsFollowTheLog
      <3> QED BY <3>1, <3>2
    <2> QED BY <2>4 DEF ProjectionsFollowTheLog, GoesForward
  <1> QED BY <1>1, <1>2, <1>3, <1>4, <1>u DEF Next

\* events.go, outbox_relay.go: the log is append-only, and no relay rewrites what a
\* row says; any number of appenders and relays, whatever fails.
THEOREM AppendOnly == Spec => LogIsAppendOnly
  <1>1. IInv /\ [Next]_vars => [KeepsTheLog]_vars
    BY StepKeepsTheLog
  <1> QED BY <1>1, Invariance, PTL DEF Spec, LogIsAppendOnly, KeepsTheLog

\* events.go: every committed event has an id of its own, however appends overlap
\* and abort.
THEOREM EventsApart == Spec => []EventsAreApart
  <1>1. Init => EventsAreApart
    BY DEF Init, EventsAreApart, Open
  <1>2. IInv /\ EventsAreApart /\ [Next]_vars => EventsAreApart'
    BY EventsAndDrafts
  <1> QED BY <1>1, <1>2, Invariance, PTL DEF Spec

\* events.go, Replay: a projection has applied committed events of its namespace
\* only, none beyond its cursor.
THEOREM Projections == Spec => []ProjectionsFollowTheLog
  <1>1. Init => ProjectionsFollowTheLog
    BY DEF Init, ProjectionsFollowTheLog
  <1>2. IInv /\ ProjectionsFollowTheLog /\ [Next]_vars => ProjectionsFollowTheLog'
    BY StepProjects
  <1> QED BY <1>1, <1>2, Invariance, PTL DEF Spec

\* events.go, Replay: no projection is fed an event twice, and no cursor goes back.
THEOREM Replaying == Spec => ReplayGoesForward
  <1>1. IInv /\ ProjectionsFollowTheLog /\ [Next]_vars => [GoesForward]_vars
    BY StepProjects
  <1> QED BY <1>1, Invariance, Projections, PTL DEF Spec, ReplayGoesForward, GoesForward

=============================================================================
