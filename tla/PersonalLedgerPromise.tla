------------------------ MODULE PersonalLedgerPromise ------------------------
(***************************************************************************)
(* Consequences of the writer's invariant that look at its steps: the      *)
(* allocations of a transaction stay within its amount, the log rebuilds   *)
(* the rows, its ids are unique, the writer implements LedgerPromise, and  *)
(* its locks never leave sessions waiting for each other.                  *)
(***************************************************************************)
EXTENDS PersonalLedgerProofs, SumTheorems

\* A step of s on the way to its commit, or back.
OnTheWay(s) ==
  /\ UNCHANGED <<rows, journals, events>>
  /\ nextEvent' \in Nat /\ nextEvent <= nextEvent'
  /\ \A r \in Sessions \ {s} : pc'[r] = pc[r] /\ req'[r] = req[r] /\ draft'[r] = draft[r]

\* A call that ends leaves the others alone.
LEMMA EndOnTheWay ==
  ASSUME IInv, NEW s \in Sessions, EndSession(s), UNCHANGED <<ledger, nextEvent>>
  PROVE  OnTheWay(s) /\ pc'[s] = "idle" /\ req'[s] = NoReq
  BY DEF OnTheWay, EndSession, Goto, ledger, IInv, TypeOK

-----------------------------------------------------------------------------
(* The allocations.                                                         *)

\* Rows that are roundings exceed what was rounded by half a satang each.
LEMMA RoundedTotal ==
  ASSUME NEW S, IsFiniteSet(S), NEW g, NEW r, \A x \in S : g[x] \in Nat /\ r[x] = Rounded(g[x])
  PROVE  10 * SumFunctionOnSet(r, S)
           <= SumFunctionOnSet(g, S) + 5 * Cardinality({x \in S : r[x] > 0})
  <1> DEFINE Stored(T) == {x \in T : r[x] > 0}
             G == {T \in SUBSET S : 10 * SumFunctionOnSet(r, T)
                                      <= SumFunctionOnSet(g, T) + 5 * Cardinality(Stored(T))}
  <1>0. \A x \in S : r[x] \in Nat /\ 10 * r[x] <= g[x] + 5 /\ g[x] \in Nat
    BY DEF Rounded
  <1>1. {} \in G
    <2>1. Stored({}) = {}
      OBVIOUS
    <2> HIDE DEF Stored
    <2> QED BY <2>1, SumEmpty, FS_EmptySet
  <1>2. ASSUME NEW T \in SUBSET S, T # {}, \A x \in T : T \ {x} \in G PROVE T \in G
    <2>1. PICK x \in T : TRUE
      BY <1>2
    <2> DEFINE U == T \ {x}
    <2>2. IsFiniteSet(T) /\ IsFiniteSet(U) /\ IsFiniteSet(Stored(U))
      <3>1. U \subseteq S /\ Stored(U) \subseteq S
        OBVIOUS
      <3> QED BY <3>1, FS_Subset
    <2>3. 10 * SumFunctionOnSet(r, U) <= SumFunctionOnSet(g, U) + 5 * Cardinality(Stored(U))
      BY <1>2
    <2>4. \A y \in T : r[y] \in Int /\ g[y] \in Int
      BY <1>0
    <2>5. /\ SumFunctionOnSet(r, T) = r[x] + SumFunctionOnSet(r, U)
          /\ SumFunctionOnSet(g, T) = g[x] + SumFunctionOnSet(g, U)
      BY <2>2, <2>4, SumRemove
    <2>6. SumFunctionOnSet(r, U) \in Int /\ SumFunctionOnSet(g, U) \in Int
      BY <2>2, <2>4, SumInt
    <2>7. Cardinality(Stored(T)) = Cardinality(Stored(U)) + IF r[x] > 0 THEN 1 ELSE 0
      <3>1. x \notin Stored(U)
        OBVIOUS
      <3>2. Stored(T) = IF r[x] > 0 THEN Stored(U) \cup {x} ELSE Stored(U)
        OBVIOUS
      <3>3. Cardinality(Stored(U)) \in Nat
        BY <2>2, FS_CardinalityType
      <3>4. Cardinality(Stored(U) \cup {x}) = Cardinality(Stored(U)) + 1
        BY <2>2, <3>1, FS_AddElement
      <3> HIDE DEF Stored
      <3> QED BY <3>2, <3>3, <3>4
    <2>8. Cardinality(Stored(U)) \in Nat
      BY <2>2, FS_CardinalityType
    <2>9. r[x] \in Nat /\ g[x] \in Nat /\ 10 * r[x] <= g[x] + 5
      BY <1>0
    <2> HIDE DEF Stored, U
    <2> QED BY <2>3, <2>5, <2>6, <2>7, <2>8, <2>9
  <1> HIDE DEF G
  <1>3. \A T \in SUBSET S : T \in G
    BY <1>1, <1>2, SubsetInduction
  <1> QED BY <1>3 DEF G

\* The rows made of lines that name no project twice are the roundings of amounts that add
\* up to the lines.
LEMMA AllocationRowsTotal ==
  ASSUME NEW as \in AllocInputs, ~ DuplicateProject(as)
  PROVE  \E g : /\ \A p \in Projects : g[p] \in Nat /\ AllocationRows(as)[p] = Rounded(g[p])
                /\ SumFunctionOnSet(g, Projects) = AllocatedSum(as)
                /\ AllocatedSum(as) \in Nat
  <1> DEFINE L == EffectiveLines(as)
             amounts == [i \in L |-> as[i].amount]
             project == [i \in L |-> as[i].project]
             Lines(p) == {i \in L : project[i] = p}
             groups == [p \in Projects |-> SumFunctionOnSet(amounts, Lines(p))]
  <1>1. /\ IsFiniteSet(L) /\ IsFiniteSet(Projects)
        /\ \A i \in L : amounts[i] \in Nat /\ project[i] \in Projects
    <2>1. L \in SUBSET DOMAIN as /\ IsFiniteSet(DOMAIN as) /\ IsFiniteSet(Projects)
      BY AllocInputsAssumption DEF EffectiveLines
    <2>2. \A i \in DOMAIN as : as[i].amount \in Nat /\ as[i].project \in Projects
      BY AllocInputsAssumption
    <2> HIDE DEF L
    <2> QED BY <2>1, <2>2, FS_Subset
  <1>2. SumFunctionOnSet(groups, Projects) = SumFunctionOnSet(amounts, L)
    <2> HIDE DEF L, amounts, project
    <2>1. \A i \in L : amounts[i] \in Int /\ project[i] \in Projects
      BY <1>1
    <2> QED BY <1>1, <2>1, SumFibres
  <1>3. AllocatedSum(as) = SumFunctionOnSet(amounts, L)
    BY DEF AllocatedSum, SumFunction
  <1>4. \A p \in Projects : groups[p] \in Nat /\ AllocationRows(as)[p] = Rounded(groups[p])
    <2> SUFFICES ASSUME NEW p \in Projects
                 PROVE  /\ SumFunctionOnSet(amounts, Lines(p)) \in Nat
                        /\ AllocationRows(as)[p] = Rounded(SumFunctionOnSet(amounts, Lines(p)))
      OBVIOUS
    <2>1. AllocationRows(as)[p]
            = IF Lines(p) = {} THEN 0 ELSE Rounded(as[CHOOSE i \in Lines(p) : TRUE].amount)
      <3>1. Lines(p) = {i \in EffectiveLines(as) : as[i].project = p}
        OBVIOUS
      <3>2. AllocationRows(as)[p]
              = IF {i \in EffectiveLines(as) : as[i].project = p} = {} THEN 0
                ELSE Rounded(as[CHOOSE i \in {i \in EffectiveLines(as) : as[i].project = p} : TRUE].amount)
        BY DEF AllocationRows
      <3> HIDE DEF Lines
      <3> QED BY <3>1, <3>2
    <2>2. CASE Lines(p) = {}
      <3> HIDE DEF Lines, amounts
      <3>1. SumFunctionOnSet(amounts, Lines(p)) = 0
        BY <2>2, SumEmpty
      <3> QED BY <2>1, <2>2, <3>1 DEF Rounded
    <2>3. CASE Lines(p) # {}
      <3> DEFINE k == CHOOSE i \in Lines(p) : TRUE
      <3>1. k \in Lines(p)
        BY <2>3
      <3> HIDE DEF k
      <3>2. k \in L /\ amounts[k] = as[k].amount /\ amounts[k] \in Nat
        BY <1>1, <3>1
      <3>3. \A i \in Lines(p) : i = k
        BY <3>1 DEF DuplicateProject
      <3>4. amounts[k] \in Int
        <4>1. \A n \in Nat : n \in Int
          OBVIOUS
        <4> HIDE DEF amounts
        <4> QED BY ONLY <3>2, <4>1
      <3> HIDE DEF amounts
      <3>5. SumFunctionOnSet(amounts, {k}) = amounts[k]
        BY <3>4, SumOne
      <3>6. Lines(p) = {k}
        BY <3>1, <3>3
      <3>7. AllocationRows(as)[p] = Rounded(as[k].amount)
        BY <2>1, <2>3 DEF k
      <3> QED BY <3>2, <3>5, <3>6, <3>7
    <2> QED BY <2>2, <2>3
  <1>5. SumFunctionOnSet(amounts, L) \in Nat
    <2> HIDE DEF L, amounts
    <2> QED BY <1>1, SumNat
  <1> HIDE DEF groups
  <1> QED BY <1>2, <1>3, <1>4, <1>5

\* The arithmetic of it.
LEMMA TenthsToHalves ==
  ASSUME NEW a \in Nat, NEW n \in Nat, NEW k \in Nat, NEW t \in Int,
         10 * t <= a + 5 * k, a <= 10 * n + 14
  PROVE  2 * t <= 2 * n + 2 + k
  OBVIOUS

\* Lines that pass the test make rows within the tolerance.
LEMMA RowsWithinTolerance ==
  ASSUME NEW as \in AllocInputs, ~ DuplicateProject(as), NEW n \in Nat,
         \E x \in StoredAs(n) : AllocatedSum(as) <= x + 10
  PROVE  WithinTolerance(AllocationRows(as), n)
  <1> DEFINE r == AllocationRows(as)
             k == Cardinality({p \in Projects : r[p] > 0})
  <1>1. PICK g : /\ \A p \in Projects : g[p] \in Nat /\ r[p] = Rounded(g[p])
                 /\ SumFunctionOnSet(g, Projects) = AllocatedSum(as)
                 /\ AllocatedSum(as) \in Nat
    BY AllocationRowsTotal
  <1>2. AllocatedSum(as) <= 10 * n + 14
    <2>1. PICK x \in StoredAs(n) : AllocatedSum(as) <= x + 10
      OBVIOUS
    <2>2. x \in Int /\ x <= 10 * n + 4
      BY DEF StoredAs
    <2>3. AllocatedSum(as) \in Nat /\ n \in Nat
      BY <1>1
    <2> DEFINE a == AllocatedSum(as)
    <2>4. a \in Nat /\ a <= x + 10
      BY <2>1, <2>3
    <2> HIDE DEF a
    <2>5. a <= 10 * n + 14
      BY ONLY <2>2, <2>3, <2>4
    <2> QED BY <2>5 DEF a
  <1>3. IsFiniteSet(Projects)
    BY AllocInputsAssumption
  <1> HIDE DEF r
  <1>4. 10 * SumFunctionOnSet(r, Projects) <= AllocatedSum(as) + 5 * k
    BY <1>1, <1>3, RoundedTotal
  <1>5. \A p \in Projects : r[p] \in Int
    BY <1>1 DEF Rounded
  <1>6. SumFunctionOnSet(r, Projects) \in Int
    BY <1>3, <1>5, SumInt
  <1>7. k \in Nat
    <2>1. {p \in Projects : r[p] > 0} \subseteq Projects
      OBVIOUS
    <2> QED BY <1>3, <2>1, FS_Subset, FS_CardinalityType
  <1>8. 2 * SumFunctionOnSet(r, Projects) <= 2 * n + 2 + k
    <2>1. AllocatedSum(as) \in Nat
      BY <1>1
    <2> HIDE DEF k
    <2> QED BY <1>2, <1>4, <1>6, <1>7, <2>1, TenthsToHalves
  <1> QED BY <1>8 DEF WithinTolerance, r

\* Nothing is within it.
LEMMA NothingWithinTolerance ==
  ASSUME NEW f, \A p \in Projects : f[p] = 0, NEW n \in Nat
  PROVE  WithinTolerance(f, n)
  <1> DEFINE F == {p \in Projects : f[p] > 0}
  <1>1. SumFunctionOnSet(f, Projects) = 0
    BY SumZero, AllocInputsAssumption
  <1>2. F = {}
    OBVIOUS
  <1>3. Cardinality(F) = 0
    BY <1>2, FS_EmptySet
  <1> QED BY <1>1, <1>3 DEF WithinTolerance

\* Nothing is allocated in the beginning.
LEMMA InitAllocations == Init => AllocInv
  <1> SUFFICES ASSUME Init PROVE AllocInv
    OBVIOUS
  <1>1. WithinTolerance(NoAllocs, 0)
    BY NothingWithinTolerance DEF NoAllocs
  <1>2. AllocationsWithinTolerance
    BY <1>1 DEF Init, AllocationsWithinTolerance, NoRow
  <1>3. ASSUME NEW s \in Sessions PROVE SessionAllocates(s)
    BY DEF Init, SessionAllocates, LinesPassed, Validated, DeletesLines, DraftWithinTolerance, NoReq
  <1> QED BY <1>2, <1>3 DEF AllocInv

\* What a step on the way has to see to for the allocations.
LEMMA WayAllocations ==
  ASSUME IInv, AllocInv, NEW s \in Sessions, OnTheWay(s), allocs' = allocs, SessionAllocates(s)'
  PROVE  AllocInv'
  <1>1. AllocationsWithinTolerance'
    BY DEF OnTheWay, AllocInv, AllocationsWithinTolerance
  <1>2. ASSUME NEW r \in Sessions \ {s} PROVE SessionAllocates(r)'
    BY DEF OnTheWay, AllocInv, SessionAllocates, LinesPassed, Validated, DeletesLines,
      DraftWithinTolerance
  <1> QED BY <1>1, <1>2 DEF AllocInv

\* The ends of a call without a commit.
LEMMA EndAllocations ==
  ASSUME IInv, AllocInv, NEW s \in Sessions, EndSession(s), UNCHANGED <<ledger, nextEvent>>
  PROVE  AllocInv'
  <1>1. OnTheWay(s) /\ pc'[s] = "idle" /\ req'[s] = NoReq
    BY EndOnTheWay
  <1>2. SessionAllocates(s)'
    BY <1>1 DEF SessionAllocates, LinesPassed, Validated, DeletesLines, DraftWithinTolerance, NoReq
  <1> QED BY <1>1, <1>2, WayAllocations DEF ledger

\* A call that begins has passed nothing yet; a project's call has no request.
LEMMA CallAllocations ==
  ASSUME IInv, AllocInv, NEW s \in Sessions, Call(s)
  PROVE  AllocInv'
  <1> USE DEF IInv, TypeOK, Begin, Goto, ledger, locks, OnTheWay
  <1>1. /\ OnTheWay(s) /\ allocs' = allocs
        /\ pc'[s] \in {"insert", "lookup", "lock", "project"}
        /\ req'[s].kind = "delete" => req'[s].allocs = <<>>
    <2>1. CASE BeginCreate(s)
      BY <2>1 DEF BeginCreate
    <2>2. CASE BeginUpdate(s)
      BY <2>2 DEF BeginUpdate
    <2>3. CASE BeginDelete(s)
      BY <2>3 DEF BeginDelete
    <2>4. CASE CreateProject(s) \/ UpdateProject(s) \/ DeleteProject(s)
      BY <2>4 DEF CreateProject, UpdateProject, DeleteProject, MutateProject, AllocInv,
        SessionAllocates, DeletesLines
    <2> QED BY <2>1, <2>2, <2>3, <2>4 DEF Call
  <1>2. SessionAllocates(s)'
    BY <1>1 DEF SessionAllocates, LinesPassed, Validated, DeletesLines, DraftWithinTolerance
  <1> QED BY <1>1, <1>2, WayAllocations

\* A statement that neither writes the draft's allocations nor passes an untested list.
LEMMA QuietAllocations ==
  ASSUME IInv, AllocInv, NEW s \in Sessions, OnTheWay(s), UNCHANGED <<allocs, req>>,
         pc'[s] \notin {"event", "commit"}, Validated(s)' => Validated(s) \/ LinesPassed(s)'
  PROVE  AllocInv'
  <1>1. SessionAllocates(s)
    BY DEF AllocInv
  <1>2. LinesPassed(s)'
    BY <1>1 DEF SessionAllocates, LinesPassed, AllocatedSum, DuplicateProject, EffectiveLines
  <1>3. SessionAllocates(s)'
    BY <1>1, <1>2 DEF SessionAllocates, DeletesLines, DraftWithinTolerance
  <1> QED BY <1>3, WayAllocations

\* INSERT of the allocation rows: they total what was asked, within what was tested.
LEMMA InsertAllocationsAllocations ==
  ASSUME IInv, AllocInv, NEW s \in Sessions, InsertAllocations(s)
  PROVE  AllocInv'
  <1> DEFINE as == req[s].allocs
  <1>1. /\ pc[s] = "allocate" /\ req' = req /\ pc'[s] = "event" /\ draft'[s].row = draft[s].row
        /\ draft'[s].allocs = AllocationRows(as)
        /\ OnTheWay(s) /\ allocs' = allocs
    BY DEF InsertAllocations, Goto, ledger, OnTheWay, IInv, TypeOK, Draft
  <1>2. SessionAllocates(s) /\ SessionOK(s) /\ as \in AllocInputs \cup {<<>>}
    BY DEF AllocInv, IInv, TypeOK, Request
  <1>3. draft[s].row = NewRow(s)
    BY <1>1, <1>2, KindOf DEF SessionOK, DraftRow, Rewritten, Writing
  <1>4. WithinTolerance(AllocationRows(as), draft[s].row.amount)
    <2>1. draft[s].row.amount \in Nat
      BY DEF IInv, TypeOK, Draft, Row
    <2>2. CASE as = <<>>
      <3>1. EffectiveLines(<<>>) = {}
        BY DEF EffectiveLines
      <3>2. \A p \in Projects : AllocationRows(<<>>)[p] = 0
        BY <3>1 DEF AllocationRows
      <3> QED BY <2>1, <2>2, <3>2, NothingWithinTolerance
    <2>3. CASE as # <<>>
      <3>1. req[s].kind \in {"create", "update"}
        BY <1>1, <1>2, <2>3, KindOf DEF SessionAllocates, DeletesLines
      <3>2. /\ ~ DuplicateProject(as)
            /\ \E x \in StoredAs(req[s].amount) : AllocatedSum(as) <= x + 10
        BY <1>1, <1>2, <3>1 DEF SessionAllocates, LinesPassed, Validated
      <3>3. draft[s].row.amount = req[s].amount
        BY <1>3, <3>1 DEF NewRow
      <3> QED BY <1>2, <2>1, <2>3, <3>2, <3>3, RowsWithinTolerance
    <2> QED BY <2>2, <2>3
  <1>5. SessionAllocates(s)'
    BY <1>1, <1>2, <1>4 DEF SessionAllocates, LinesPassed, Validated, DeletesLines,
      DraftWithinTolerance
  <1> QED BY <1>1, <1>5, WayAllocations

\* The other statements before the commit.
LEMMA StatementAllocations ==
  ASSUME IInv, AllocInv, NEW s \in Sessions, ~ Commit(s),
         WriteStep(s) \/ LockStep(s) \/ AppendProjectEvent(s) \/ Fail(s)
  PROVE  AllocInv'
  <1> USE DEF Validated, OnTheWay, Goto, IInv, TypeOK
  <1>k. /\ req[s].kind \in {"none", "create", "update", "delete"}
        /\ pc[s] \in {"insert", "lookup"} => req[s].kind = "create"
        /\ pc[s] \in {"accounts", "journal", "validate"} => req[s].kind \in {"create", "update"}
        /\ pc[s] = "rewrite" => req[s].kind \in {"update", "delete"}
    BY KindOf
  <1>1. CASE LookupCause(s)
    <2>1. CASE EndSession(s)
      BY <1>1, <2>1, EndAllocations DEF LookupCause
    <2>2. CASE ~ EndSession(s)
      <3>1. OnTheWay(s) /\ UNCHANGED <<allocs, req>> /\ pc'[s] = "insert" /\ pc[s] = "lookup"
        BY <1>1, <2>2 DEF LookupCause, ledger
      <3> QED BY <1>k, <3>1, QuietAllocations
    <2> QED BY <2>1, <2>2
  <1>2. CASE InsertRow(s)
    <2>1. OnTheWay(s) /\ UNCHANGED <<allocs, req>> /\ pc'[s] = "accounts" /\ pc[s] = "insert"
      BY <1>2 DEF InsertRow, ledger
    <2> QED BY <1>k, <2>1, QuietAllocations
  <1>3. CASE InsertJournal(s)
    <2>1. CASE Rollback(s)
      BY <2>1, EndAllocations DEF Rollback
    <2>2. CASE ~ Rollback(s)
      <3>1. /\ OnTheWay(s) /\ UNCHANGED <<allocs, req>> /\ pc[s] = "journal"
            /\ pc'[s] = IF req[s].kind = "create" THEN "validate" ELSE "allocate"
        BY <1>3, <2>2 DEF InsertJournal, ledger
      <3> QED BY <1>k, <3>1, QuietAllocations
    <2> QED BY <2>1, <2>2
  <1>4. CASE ValidateAllocations(s)
    <2>1. CASE Rollback(s)
      BY <2>1, EndAllocations DEF Rollback
    <2>2. CASE ~ Rollback(s)
      <3>1. /\ OnTheWay(s) /\ UNCHANGED <<allocs, req>> /\ pc[s] = "validate"
            /\ pc'[s] = IF req[s].kind = "create" THEN "allocate" ELSE "rewrite"
            /\ AllocationsPass(req[s].allocs, req[s].amount)
        BY <1>4, <2>2 DEF ValidateAllocations, ledger
      <3>2. LinesPassed(s)'
        BY <3>1 DEF LinesPassed, AllocationsPass
      <3> QED BY <3>1, <3>2, QuietAllocations
    <2> QED BY <2>1, <2>2
  <1>5. CASE InsertAllocations(s)
    BY <1>5, InsertAllocationsAllocations
  <1>6. CASE InsertEvent(s)
    <2>1. /\ OnTheWay(s) /\ UNCHANGED <<allocs, req>> /\ pc[s] = "event" /\ pc'[s] = "commit"
          /\ draft'[s].row = draft[s].row /\ draft'[s].allocs = draft[s].allocs
      BY <1>6 DEF InsertEvent, ledger, Draft
    <2>2. SessionAllocates(s)'
      BY <2>1 DEF AllocInv, SessionAllocates, LinesPassed, DeletesLines, DraftWithinTolerance
    <2> QED BY <2>1, <2>2, WayAllocations
  <1>7. CASE RewriteRow(s)
    <2>1. /\ OnTheWay(s) /\ UNCHANGED <<allocs, req>> /\ pc[s] = "rewrite"
          /\ pc'[s] \in {"accounts", "allocate"}
      BY <1>7 DEF RewriteRow, ledger
    <2> QED BY <1>k, <2>1, QuietAllocations
  <1>8. CASE EnsureAccounts(s)
    <2>1. /\ OnTheWay(s) /\ UNCHANGED <<allocs, req>> /\ pc[s] = "accounts" /\ pc'[s] = "journal"
      BY <1>8 DEF EnsureAccounts, ledger
    <2> QED BY <2>1, QuietAllocations
  <1>9. CASE LockRow(s)
    <2>1. CASE Rollback(s)
      BY <2>1, EndAllocations DEF Rollback
    <2>2. CASE ~ Rollback(s)
      <3>1. /\ OnTheWay(s) /\ UNCHANGED <<allocs, req>>
            /\ pc'[s] = IF req[s].kind = "update" THEN "validate" ELSE "rewrite"
        BY <1>9, <2>2 DEF LockRow, ledger
      <3> QED BY <3>1, QuietAllocations
    <2> QED BY <2>1, <2>2
  <1>10. CASE AppendProjectEvent(s)
    <2>1. /\ OnTheWay(s) /\ UNCHANGED <<allocs, req>> /\ pc'[s] = "idle"
      BY <1>10 DEF AppendProjectEvent, ledger
    <2> QED BY <2>1, QuietAllocations
  <1>11. CASE Fail(s)
    BY <1>11, EndAllocations DEF Fail, Rollback
  <1> QED BY <1>1, <1>2, <1>3, <1>4, <1>5, <1>6, <1>7, <1>8, <1>9, <1>10, <1>11 DEF WriteStep, LockStep

\* A commit makes the draft's row and allocations the committed ones.
LEMMA CommitAllocations ==
  ASSUME IInv, AllocInv, NEW s \in Sessions, Commit(s)
  PROVE  AllocInv'
  <1>1. /\ pc[s] = "commit" /\ draft[s].tx \in TxIds /\ EndSession(s)
        /\ rows' = [rows EXCEPT ![draft[s].tx] = draft[s].row]
        /\ allocs' = [allocs EXCEPT ![draft[s].tx] = draft[s].allocs]
    BY CommitEffect DEF Commit
  <1>2. AllocationsWithinTolerance'
    BY <1>1 DEF AllocInv, AllocationsWithinTolerance, SessionAllocates, DraftWithinTolerance,
      IInv, TypeOK
  <1>3. ASSUME NEW r \in Sessions PROVE SessionAllocates(r)'
    <2> USE DEF SessionAllocates, LinesPassed, Validated, DeletesLines, DraftWithinTolerance
    <2>1. CASE r = s
      BY <1>1, <2>1 DEF EndSession, Goto, IInv, TypeOK, NoReq
    <2>2. CASE r # s
      <3>1. pc'[r] = pc[r] /\ req'[r] = req[r] /\ draft'[r] = draft[r]
        BY <1>1, <2>2 DEF EndSession, Goto, IInv, TypeOK
      <3> QED BY <3>1 DEF AllocInv
    <2> QED BY <2>1, <2>2
  <1> QED BY <1>2, <1>3 DEF AllocInv

\* AllocInv is an invariant.
LEMMA AllocInvariance == Spec => []AllocInv
  <1>1. IInv /\ AllocInv /\ [Next]_vars => AllocInv'
    <2> SUFFICES ASSUME IInv, AllocInv, [Next]_vars PROVE AllocInv'
      OBVIOUS
    <2>1. ASSUME NEW s \in Sessions, Call(s) PROVE AllocInv'
      BY <2>1, CallAllocations
    <2>2. ASSUME NEW s \in Sessions, Commit(s) PROVE AllocInv'
      BY <2>2, CommitAllocations
    <2>3. ASSUME NEW s \in Sessions, WriteStep(s) \/ LockStep(s) \/ AppendProjectEvent(s) \/ Fail(s)
          PROVE  AllocInv'
      BY <2>2, <2>3, StatementAllocations
    <2>4. CASE UNCHANGED vars
      <3>1. AllocationsWithinTolerance'
        BY <2>4 DEF vars, ledger, AllocInv, AllocationsWithinTolerance
      <3>2. ASSUME NEW s \in Sessions PROVE SessionAllocates(s)'
        BY <2>4 DEF vars, AllocInv, SessionAllocates, LinesPassed, Validated, DeletesLines,
          DraftWithinTolerance
      <3> QED BY <3>1, <3>2 DEF AllocInv
    <2> QED BY <2>1, <2>3, <2>4 DEF Next, Exhausted
  <1> QED BY <1>1, InitAllocations, Invariance, PTL DEF Spec

\* validateAllocations: what is allocated of a transaction never exceeds its amount by
\* more than one satang, although the list is tested before an edit of the row and the
\* rows are inserted after it.
THEOREM Tolerance == Spec => []AllocationsWithinTolerance
  <1>1. AllocInv => AllocationsWithinTolerance
    BY DEF AllocInv
  <1> QED BY <1>1, AllocInvariance, PTL

-----------------------------------------------------------------------------
(* The log.                                                                 *)

\* Nothing is logged in the beginning.
LEMMA InitLog == Init => LogInv
  BY DEF Init, LogInv, EventsAreDrawn, DraftIsYoungest, DeletionsAreDone, AmountsAreAsked,
    EventLogRebuildsRows, Rebuilt, EventsOf, NoDraft, NoReq

\* What such a step has to see to for the log.
LEMMA WayLog ==
  ASSUME IInv, LogInv, NEW s \in Sessions, OnTheWay(s), DraftIsYoungest(s)',
         req'[s].kind \in {"create", "update"} => req'[s].amount \in Amounts
  PROVE  LogInv'
  <1> USE DEF OnTheWay
  <1>1. \A t : EventsOf(t)' = EventsOf(t) /\ Rebuilt(t)' = Rebuilt(t)
    BY DEF EventsOf, Rebuilt
  <1>2. EventLogRebuildsRows'
    BY <1>1 DEF LogInv, EventLogRebuildsRows
  <1>3. EventsAreDrawn'
    BY DEF LogInv, EventsAreDrawn, IInv, TypeOK, Event
  <1>4. ASSUME NEW r \in Sessions \ {s} PROVE DraftIsYoungest(r)'
    <2>1. DraftIsYoungest(r)
      BY DEF LogInv
    <2>2. draft[r].events \subseteq Event /\ nextEvent \in Nat
      BY DEF IInv, TypeOK, Draft
    <2>3. EventsOf(draft[r].tx)' = EventsOf(draft[r].tx)
      BY DEF EventsOf
    <2> QED BY <2>1, <2>2, <2>3 DEF DraftIsYoungest, Event
  <1>5. DeletionsAreDone' /\ AmountsAreAsked'
    BY DEF LogInv, DeletionsAreDone, AmountsAreAsked
  <1> QED BY <1>2, <1>3, <1>4, <1>5 DEF LogInv

\* The steps before the event, and the ends of a call without a commit.
LEMMA OtherLog ==
  ASSUME IInv, LogInv, NEW s \in Sessions, OnTheWay(s), pc'[s] # "commit",
         req'[s] = req[s] \/ req'[s] = NoReq
  PROVE  LogInv'
  <1>1. DraftIsYoungest(s)'
    BY DEF DraftIsYoungest
  <1>2. req'[s].kind \in {"create", "update"} => req'[s].amount \in Amounts
    BY DEF LogInv, AmountsAreAsked, NoReq
  <1> QED BY <1>1, <1>2, WayLog

\* A call brings one of the amounts.
LEMMA CallLog ==
  ASSUME IInv, LogInv, NEW s \in Sessions, Call(s)
  PROVE  LogInv'
  <1> USE DEF IInv, TypeOK, Begin, Goto, ledger, locks, OnTheWay
  <1>1. CASE BeginCreate(s)
    <2>1. OnTheWay(s) /\ pc'[s] # "commit" /\ req'[s].amount \in Amounts
      BY <1>1 DEF BeginCreate
    <2> QED BY <2>1, WayLog DEF DraftIsYoungest
  <1>2. CASE BeginUpdate(s)
    <2>1. OnTheWay(s) /\ pc'[s] # "commit" /\ req'[s].amount \in Amounts
      BY <1>2 DEF BeginUpdate
    <2> QED BY <2>1, WayLog DEF DraftIsYoungest
  <1>3. CASE BeginDelete(s)
    <2>1. OnTheWay(s) /\ pc'[s] # "commit" /\ req'[s].kind = "delete"
      BY <1>3 DEF BeginDelete
    <2> QED BY <2>1, WayLog DEF DraftIsYoungest
  <1>4. CASE CreateProject(s) \/ UpdateProject(s) \/ DeleteProject(s)
    <2>1. OnTheWay(s) /\ pc'[s] = "project" /\ req'[s] = req[s]
      BY <1>4 DEF CreateProject, UpdateProject, DeleteProject, MutateProject
    <2> QED BY <2>1, OtherLog
  <1> QED BY <1>1, <1>2, <1>3, <1>4 DEF Call

\* The event's id is the greatest so far.
LEMMA EventLog ==
  ASSUME IInv, LogInv, NEW s \in Sessions, InsertEvent(s)
  PROVE  LogInv'
  <1>1. /\ req' = req /\ nextEvent \in Nat /\ nextEvent' = nextEvent + 1
        /\ draft'[s].tx = draft[s].tx
        /\ \A e \in draft'[s].events :
             e.id = nextEvent /\ e.type = req[s].type /\ e.amount = req[s].amount
    BY DEF InsertEvent, IInv, TypeOK, Draft
  <1>2. OnTheWay(s)
    BY <1>1 DEF InsertEvent, OnTheWay, Goto, ledger, IInv, TypeOK
  <1>3. \A f \in EventsOf(draft[s].tx)' : f.id < nextEvent
    BY <1>2 DEF OnTheWay, EventsOf, LogInv, EventsAreDrawn
  <1>5. DraftIsYoungest(s)'
    BY <1>1, <1>3 DEF DraftIsYoungest, EventsOf
  <1>6. req'[s].kind \in {"create", "update"} => req'[s].amount \in Amounts
    BY <1>1 DEF LogInv, AmountsAreAsked
  <1> QED BY <1>2, <1>5, <1>6, WayLog

\* What a commit adds to the log: one event, the youngest of its row.
LEMMA CommitEvent ==
  ASSUME IInv, LogInv, NEW s \in Sessions, Commit(s)
  PROVE  \E e \in Event :
           /\ events' = events \cup {e} /\ draft[s].events = {e}
           /\ e.kind = EventKind[req[s].kind] /\ e.tx = draft[s].tx
           /\ e.cause = IF req[s].kind = "create" THEN req[s].cause ELSE NoCause
           /\ e.id < nextEvent /\ e.type = req[s].type /\ e.amount = req[s].amount
           /\ \A f \in EventsOf(draft[s].tx) : f.id < e.id
           /\ \A t : EventsOf(t)' = IF t = draft[s].tx THEN EventsOf(t) \cup {e} ELSE EventsOf(t)
  <1>1. pc[s] = "commit" /\ SessionOK(s) /\ events' = events \cup draft[s].events
    BY CommitEffect
  <1>2. PICK e \in draft[s].events :
          /\ draft[s].events = {e} /\ e.kind = EventKind[req[s].kind] /\ e.tx = draft[s].tx
          /\ e.cause = IF req[s].kind = "create" THEN req[s].cause ELSE NoCause
    BY <1>1 DEF SessionOK, DraftEvent
  <1>3. e \in Event
    BY DEF IInv, TypeOK, Draft
  <1>4. DraftIsYoungest(s)
    BY DEF LogInv
  <1>5. \A t : EventsOf(t)' = IF t = draft[s].tx THEN EventsOf(t) \cup {e} ELSE EventsOf(t)
    BY <1>1, <1>2 DEF EventsOf
  <1> QED BY <1>1, <1>2, <1>3, <1>4, <1>5 DEF DraftIsYoungest

\* The value a row has in the log when its youngest event is e.
LEMMA YoungestCounts ==
  ASSUME NEW t, NEW e \in Event, NEW E \in SUBSET Event, events' \subseteq Event,
         EventsOf(t)' = E \cup {e}, \A f \in E : f.id < e.id, e.kind # "tx.deleted"
  PROVE  Rebuilt(t)' = [status |-> IF \E f \in E : f.kind = "tx.deleted" THEN "deleted" ELSE "live",
                        type |-> e.type, amount |-> e.amount]
  <1> DEFINE values == {f \in EventsOf(t)' : f.kind # "tx.deleted"}
             last == CHOOSE f \in values : \A g \in values : g.id <= f.id
  <1>1. e \in values /\ \A g \in values : g.id <= e.id /\ (g # e => g.id < e.id)
    BY DEF Event
  <1>2. last \in values /\ \A g \in values : g.id <= last.id
    BY <1>1
  <1>3. last = e
    <2> HIDE DEF last
    <2>1. last \in Event /\ e.id <= last.id
      BY <1>1, <1>2
    <2> QED BY <1>1, <1>2, <2>1 DEF Event
  <1>4. (\E f \in EventsOf(t)' : f.kind = "tx.deleted") <=> \E f \in E : f.kind = "tx.deleted"
    OBVIOUS
  <1>5. Rebuilt(t)' = [status |-> IF \E f \in EventsOf(t)' : f.kind = "tx.deleted" THEN "deleted" ELSE "live",
                       type |-> last.type, amount |-> last.amount]
    BY <1>1 DEF Rebuilt
  <1> QED BY <1>3, <1>4, <1>5

\* A commit keeps the log.
LEMMA CommitLog ==
  ASSUME IInv, LogInv, NEW s \in Sessions, Commit(s)
  PROVE  LogInv'
  <1> DEFINE u == draft[s].tx
  <1>e. /\ pc[s] = "commit" /\ SessionOK(s) /\ u \in TxIds /\ EndSession(s)
        /\ rows' = [rows EXCEPT ![u] = NewRow(s)]
        /\ req[s].kind \in {"create", "update", "delete"}
        /\ nextEvent' = nextEvent
    BY CommitEffect DEF Commit
  <1>1. PICK e \in Event :
          /\ events' = events \cup {e}
          /\ e.kind = EventKind[req[s].kind] /\ e.tx = u
          /\ e.id < nextEvent /\ e.type = req[s].type /\ e.amount = req[s].amount
          /\ \A f \in EventsOf(u) : f.id < e.id
          /\ \A t : EventsOf(t)' = IF t = u THEN EventsOf(t) \cup {e} ELSE EventsOf(t)
    BY CommitEvent
  <1>k. /\ req[s].kind = "create" => e.kind = "tx.recorded"
        /\ req[s].kind = "update" => e.kind = "tx.updated"
        /\ req[s].kind = "delete" => e.kind = "tx.deleted"
    BY <1>1 DEF EventKind
  <1>o. rows[u].status = IF req[s].kind = "create" THEN "absent" ELSE "live"
    BY <1>e DEF SessionOK, OwnsRow, Writing
  <1>r. rows \in [TxIds -> Row] /\ events \subseteq Event /\ Rebuilt(u) = rows[u]
    BY <1>e DEF IInv, TypeOK, LogInv, EventLogRebuildsRows
  <1>n. ~ \E f \in EventsOf(u) : f.kind = "tx.deleted"
    BY <1>o DEF LogInv, DeletionsAreDone, EventsOf
  <1>2. EventsAreDrawn'
    BY <1>1, <1>e DEF LogInv, EventsAreDrawn
  <1>3. ASSUME NEW r \in Sessions PROVE DraftIsYoungest(r)'
    <2>1. CASE r = s
      BY <1>e, <2>1 DEF DraftIsYoungest, EndSession, Goto, IInv, TypeOK
    <2>2. CASE r # s
      <3>1. pc'[r] = pc[r] /\ req'[r] = req[r] /\ draft'[r] = draft[r]
        BY <1>e, <2>2 DEF EndSession, Goto, IInv, TypeOK
      <3>2. pc[r] = "commit" => draft[r].tx # u
        BY <1>e, <2>2, OtherRow DEF Writing
      <3>3. DraftIsYoungest(r)
        BY DEF LogInv
      <3>4. pc[r] = "commit" => \A f \in events' : f.tx = draft[r].tx => f \in EventsOf(draft[r].tx)
        BY <1>1, <3>2 DEF EventsOf
      <3> QED BY <1>e, <3>1, <3>3, <3>4 DEF DraftIsYoungest, EventsOf
    <2> QED BY <2>1, <2>2
  <1>4. DeletionsAreDone'
    <2> SUFFICES ASSUME NEW f \in events', f.kind = "tx.deleted"
                 PROVE  rows'[f.tx].status = "deleted"
      BY DEF DeletionsAreDone
    <2>1. CASE f \in events
      <3>1. rows[f.tx].status = "deleted" /\ f.tx \in TxIds
        BY <1>r, <2>1 DEF LogInv, DeletionsAreDone, Event
      <3> QED BY <1>e, <1>o, <1>r, <3>1
    <2>2. CASE f = e
      <3>1. req[s].kind = "delete"
        BY <1>e, <1>k, <2>2
      <3> QED BY <1>1, <1>e, <1>r, <2>2, <3>1 DEF NewRow, Row
    <2> QED BY <1>1, <2>1, <2>2
  <1>5. AmountsAreAsked'
    BY <1>e DEF LogInv, AmountsAreAsked, EndSession, NoReq, IInv, TypeOK
  <1>6. EventLogRebuildsRows'
    <2> SUFFICES ASSUME NEW t \in TxIds PROVE Rebuilt(t)' = rows'[t]
      BY DEF EventLogRebuildsRows
    <2>1. CASE t # u
      <3>1. Rebuilt(t)' = Rebuilt(t)
        BY <1>1, <2>1 DEF Rebuilt
      <3> QED BY <1>e, <1>r, <2>1, <3>1 DEF LogInv, EventLogRebuildsRows
    <2>2. CASE t = u /\ req[s].kind # "delete"
      <3>1. e.kind # "tx.deleted"
        BY <1>e, <1>k, <2>2
      <3>2. EventsOf(t)' = EventsOf(u) \cup {e} /\ EventsOf(u) \subseteq Event
        BY <1>1, <1>r, <2>2 DEF EventsOf
      <3>3. Rebuilt(t)' = [status |-> IF \E f \in EventsOf(u) : f.kind = "tx.deleted"
                                      THEN "deleted" ELSE "live",
                           type |-> e.type, amount |-> e.amount]
        <4>1. events' \subseteq Event
          BY <1>1, <1>r
        <4> QED BY <1>1, <3>1, <3>2, <4>1, YoungestCounts
      <3>4. Rebuilt(t)' = [status |-> "live", type |-> req[s].type, amount |-> req[s].amount]
        BY <1>1, <1>n, <3>3
      <3> QED BY <1>e, <1>r, <2>2, <3>4 DEF NewRow
    <2>3. CASE t = u /\ req[s].kind = "delete"
      <3> DEFINE values == {f \in EventsOf(u) : f.kind # "tx.deleted"}
                 last == CHOOSE f \in values : \A g \in values : g.id <= f.id
      <3>1. e.kind = "tx.deleted"
        BY <1>k, <2>3
      <3>2. EventsOf(t)' = EventsOf(u) \cup {e}
        BY <1>1, <2>3
      <3>3. {f \in EventsOf(t)' : f.kind # "tx.deleted"} = values
        BY <3>1, <3>2
      <3>4. values # {} /\ rows[u].type = last.type /\ rows[u].amount = last.amount
        <4>1. values # {}
          BY <1>o, <1>r, <2>3 DEF Rebuilt, NoRow
        <4>2. Rebuilt(u) = [status |-> IF \E f \in EventsOf(u) : f.kind = "tx.deleted"
                                       THEN "deleted" ELSE "live",
                            type |-> last.type, amount |-> last.amount]
          BY <4>1 DEF Rebuilt
        <4> HIDE DEF last
        <4> QED BY <1>r, <4>1, <4>2
      <3>5. Rebuilt(t)' = [status |-> "deleted", type |-> last.type, amount |-> last.amount]
        BY <3>1, <3>2, <3>3, <3>4 DEF Rebuilt
      <3>6. rows'[t] = [rows[u] EXCEPT !.status = "deleted"]
        BY <1>e, <1>r, <2>3 DEF NewRow
      <3> HIDE DEF last
      <3> QED BY <1>e, <1>r, <3>4, <3>5, <3>6 DEF Row
    <2> QED BY <2>1, <2>2, <2>3
  <1> QED BY <1>2, <1>3, <1>4, <1>5, <1>6 DEF LogInv

\* All steps of a session but the commit are on its way.
LEMMA StepsOnTheWay ==
  ASSUME IInv, NEW s \in Sessions,
         Call(s) \/ WriteStep(s) \/ LockStep(s) \/ AppendProjectEvent(s) \/ Fail(s),
         ~ Commit(s)
  PROVE  OnTheWay(s)
  <1> USE DEF IInv, TypeOK, Goto, ledger, locks
  <1>1. ASSUME Rollback(s) PROVE OnTheWay(s)
    BY <1>1, EndOnTheWay DEF Rollback
  <1>2. CASE Call(s)
    BY <1>2 DEF OnTheWay, Call, BeginCreate, BeginUpdate, BeginDelete, Begin, CreateProject,
      UpdateProject, DeleteProject, MutateProject
  <1>3. CASE LookupCause(s)
    BY <1>3, EndOnTheWay DEF LookupCause, OnTheWay
  <1>4. CASE InsertRow(s) \/ InsertAllocations(s) \/ InsertEvent(s) \/ RewriteRow(s)
    <2>1. CASE InsertRow(s)
      BY <2>1 DEF InsertRow, OnTheWay
    <2>2. CASE InsertAllocations(s)
      BY <2>2 DEF InsertAllocations, OnTheWay
    <2>3. CASE InsertEvent(s)
      BY <2>3 DEF InsertEvent, OnTheWay
    <2>4. CASE RewriteRow(s)
      BY <2>4 DEF RewriteRow, OnTheWay
    <2> QED BY <1>4, <2>1, <2>2, <2>3, <2>4
  <1>5. CASE InsertJournal(s) \/ ValidateAllocations(s)
    BY <1>5, <1>1 DEF InsertJournal, ValidateAllocations, OnTheWay
  <1>6. CASE EnsureAccounts(s)
    BY <1>6 DEF EnsureAccounts, OnTheWay
  <1>7. CASE LockRow(s)
    BY <1>7, <1>1 DEF LockRow, OnTheWay
  <1>8. CASE AppendProjectEvent(s)
    BY <1>8 DEF AppendProjectEvent, OnTheWay
  <1>9. CASE Fail(s)
    BY <1>9, <1>1 DEF Fail
  <1> QED BY <1>2, <1>3, <1>4, <1>5, <1>6, <1>7, <1>8, <1>9 DEF WriteStep, LockStep

\* A step that is neither a call, the event nor the commit does not reach the commit.
LEMMA StepsBefore ==
  ASSUME IInv, NEW s \in Sessions,
         WriteStep(s) \/ LockStep(s) \/ AppendProjectEvent(s) \/ Fail(s),
         ~ Commit(s), ~ InsertEvent(s)
  PROVE  pc'[s] # "commit" /\ (req'[s] = req[s] \/ req'[s] = NoReq)
  <1> USE DEF IInv, TypeOK, Goto, locks
  <1>1. ASSUME EndSession(s) PROVE pc'[s] = "idle" /\ req'[s] = NoReq
    BY <1>1 DEF EndSession
  <1>2. CASE LookupCause(s)
    BY <1>2, <1>1 DEF LookupCause
  <1>3. CASE InsertRow(s) \/ InsertAllocations(s) \/ RewriteRow(s)
    BY <1>3 DEF InsertRow, InsertAllocations, RewriteRow
  <1>4. CASE InsertJournal(s) \/ ValidateAllocations(s) \/ LockRow(s) \/ Fail(s)
    BY <1>4, <1>1 DEF InsertJournal, ValidateAllocations, LockRow, Fail, Rollback
  <1>5. CASE EnsureAccounts(s) \/ AppendProjectEvent(s)
    BY <1>5 DEF EnsureAccounts, AppendProjectEvent
  <1> QED BY <1>2, <1>3, <1>4, <1>5 DEF WriteStep, LockStep

\* Every step keeps the log.
LEMMA NextLog == IInv /\ LogInv /\ [Next]_vars => LogInv'
  <1> SUFFICES ASSUME IInv, LogInv, [Next]_vars PROVE LogInv'
    OBVIOUS
  <1>1. CASE UNCHANGED vars
    <2>1. UNCHANGED <<rows, events, nextEvent, pc, req, draft>>
      BY <1>1 DEF vars, ledger
    <2> QED BY <2>1 DEF LogInv, EventsAreDrawn, DraftIsYoungest, DeletionsAreDone,
      AmountsAreAsked, EventLogRebuildsRows, Rebuilt, EventsOf
  <1>2. ASSUME NEW s \in Sessions,
               Call(s) \/ WriteStep(s) \/ LockStep(s) \/ AppendProjectEvent(s) \/ Fail(s)
        PROVE  LogInv'
    <2>1. CASE Call(s)
      BY <2>1, CallLog
    <2>2. CASE InsertEvent(s)
      BY <2>2, EventLog
    <2>3. CASE Commit(s)
      BY <2>3, CommitLog
    <2>4. CASE ~ (Call(s) \/ InsertEvent(s) \/ Commit(s))
      BY <1>2, <2>4, StepsOnTheWay, StepsBefore, OtherLog
    <2> QED BY <2>1, <2>2, <2>3, <2>4
  <1>3. CASE Exhausted
    BY <1>1, <1>3 DEF Exhausted
  <1> QED BY <1>1, <1>2, <1>3 DEF Next

\* IInv and the log's part of it hold together.
THEOREM LogInvariance == Spec => [](IInv /\ LogInv)
  <1>1. Init => IInv /\ LogInv
    BY InitIInv, InitLog
  <1>2. (IInv /\ LogInv) /\ [Next]_vars => (IInv /\ LogInv)'
    BY NextIInv, NextLog
  <1> QED BY <1>1, <1>2, PTL DEF Spec

\* CreatePersonalTransaction, UpdateTransaction and DeleteTransaction append their
\* events in their own transactions: replaying the committed events of a row in the
\* order of their ids gives the row, although other ids become visible out of order.
THEOREM Rebuilding == Spec => []EventLogRebuildsRows
  <1>1. IInv /\ LogInv => EventLogRebuildsRows
    BY DEF LogInv
  <1> QED BY <1>1, LogInvariance, PTL

-----------------------------------------------------------------------------
(* The ids of the log.                                                      *)

\* In the beginning no id is drawn.
LEMMA InitIds == Init => IdInv
  BY DEF Init, IdInv, IdsAreApart, EventIdsAreUnique, OneRecordPerTransaction, DrawnIds, NoDraft

\* A step before the event, or one that ends without a commit, draws no id.
LEMMA WayIds ==
  ASSUME IInv, LogInv, IdInv, NEW s \in Sessions, OnTheWay(s),
         \A i \in DrawnIds(s)' : i = nextEvent /\ nextEvent' = nextEvent + 1
  PROVE  IdInv'
  <1> USE DEF OnTheWay
  <1>1. /\ nextEvent \in Nat /\ nextEvent' \in Nat
        /\ \A e \in events : e.id \in Nat /\ e.id < nextEvent
    BY DEF IInv, TypeOK, Event, LogInv, EventsAreDrawn
  <1>2. \A r \in Sessions \ {s} : DrawnIds(r)' = DrawnIds(r)
    BY DEF DrawnIds
  <1>3. \A r \in Sessions : \A i \in DrawnIds(r) : i \in Nat
    BY DEF DrawnIds, IInv, TypeOK, Draft, Event
  <1>4. IdsAreApart
    BY DEF IdInv
  <1>5. ASSUME NEW r \in Sessions, NEW i \in DrawnIds(r)'
        PROVE  i < nextEvent' /\ \A e \in events' : e.id # i
    <2>1. CASE r = s
      BY <1>1, <2>1
    <2>2. CASE r # s
      <3>1. i \in DrawnIds(r) /\ i \in Nat
        BY <1>2, <1>3, <2>2
      <3> QED BY <1>1, <1>4, <3>1 DEF IdsAreApart
    <2> QED BY <2>1, <2>2
  <1>6. ASSUME NEW q \in Sessions, NEW r \in Sessions, q # r
        PROVE  DrawnIds(q)' \cap DrawnIds(r)' = {}
    <2>1. ASSUME NEW u \in Sessions \ {s}, NEW i \in DrawnIds(u)' PROVE i \notin DrawnIds(s)'
      BY <1>1, <1>2, <1>3, <1>4, <2>1 DEF IdsAreApart
    <2>2. CASE q = s \/ r = s
      BY <1>6, <2>1, <2>2
    <2>3. CASE q # s /\ r # s
      BY <1>2, <1>4, <1>6, <2>3 DEF IdsAreApart
    <2> QED BY <2>2, <2>3
  <1>7. IdsAreApart'
    BY <1>5, <1>6 DEF IdsAreApart
  <1> QED BY <1>7 DEF IdInv, EventIdsAreUnique, OneRecordPerTransaction

\* A row that is not there has no recorded event.
LEMMA AbsentIsUnrecorded ==
  ASSUME LogInv, NEW t \in TxIds, rows[t].status = "absent",
         NEW e \in events, e.tx = t
  PROVE  e.kind # "tx.recorded"
  <1> SUFFICES ASSUME e.kind = "tx.recorded" PROVE FALSE
    OBVIOUS
  <1>1. e \in {f \in EventsOf(t) : f.kind # "tx.deleted"}
    BY DEF EventsOf
  <1>2. Rebuilt(t).status \in {"deleted", "live"}
    BY <1>1 DEF Rebuilt
  <1> QED BY <1>2 DEF LogInv, EventLogRebuildsRows

\* A commit publishes the id its session has drawn.
LEMMA CommitIds ==
  ASSUME IInv, LogInv, IdInv, NEW s \in Sessions, Commit(s)
  PROVE  IdInv'
  <1>1. PICK e \in Event :
          /\ events' = events \cup {e} /\ draft[s].events = {e}
          /\ e.kind = EventKind[req[s].kind] /\ e.tx = draft[s].tx
    BY CommitEvent
  <1>2. /\ pc[s] = "commit" /\ nextEvent' = nextEvent /\ draft'[s] = NoDraft
        /\ \A r \in Sessions \ {s} : draft'[r] = draft[r]
    BY DEF Commit, EndSession, IInv, TypeOK
  <1>3. IdsAreApart /\ e.id \in DrawnIds(s)
    BY <1>1 DEF IdInv, DrawnIds
  <1>4. DrawnIds(s)' = {} /\ \A r \in Sessions \ {s} : DrawnIds(r)' = DrawnIds(r)
    BY <1>2 DEF DrawnIds, NoDraft
  <1>5. IdsAreApart'
    BY <1>1, <1>2, <1>3, <1>4 DEF IdsAreApart
  <1>6. EventIdsAreUnique'
    BY <1>1, <1>3 DEF IdInv, IdsAreApart, EventIdsAreUnique
  <1>7. OneRecordPerTransaction'
    <2>1. ASSUME NEW f \in events, f.kind = "tx.recorded", e.kind = "tx.recorded" PROVE f.tx # e.tx
      <3>1. req[s].kind = "create"
        BY <1>1, <1>2, <2>1, KindOf DEF EventKind
      <3>2. draft[s].tx \in TxIds /\ rows[draft[s].tx].status = "absent"
        BY <1>2, <3>1 DEF IInv, SessionOK, Shape, OwnsRow, Writing
      <3> QED BY <1>1, <2>1, <3>2, AbsentIsUnrecorded
    <2>2. OneRecordPerTransaction
      BY DEF IdInv
    <2> QED BY <1>1, <2>1, <2>2 DEF OneRecordPerTransaction
  <1> QED BY <1>5, <1>6, <1>7 DEF IdInv

\* Every step keeps the ids apart.
LEMMA NextIds == IInv /\ IInv' /\ LogInv /\ IdInv /\ [Next]_vars => IdInv'
  <1> SUFFICES ASSUME IInv, IInv', LogInv, IdInv, [Next]_vars PROVE IdInv'
    OBVIOUS
  <1>1. ASSUME UNCHANGED vars PROVE IdInv'
    <2>1. UNCHANGED <<events, nextEvent, draft>>
      BY <1>1 DEF vars, ledger
    <2> QED BY <2>1 DEF IdInv, IdsAreApart, EventIdsAreUnique, OneRecordPerTransaction, DrawnIds
  <1>2. ASSUME NEW s \in Sessions,
               Call(s) \/ WriteStep(s) \/ LockStep(s) \/ AppendProjectEvent(s) \/ Fail(s)
        PROVE  IdInv'
    <2>1. CASE Commit(s)
      BY <2>1, CommitIds
    <2>2. CASE InsertEvent(s)
      <3>1. ~ Commit(s)
        BY <2>2 DEF InsertEvent, Commit
      <3>2. nextEvent' = nextEvent + 1 /\ \A e \in draft'[s].events : e.id = nextEvent
        BY <2>2 DEF InsertEvent, IInv, TypeOK
      <3> QED BY <1>2, <3>1, <3>2, StepsOnTheWay, WayIds DEF DrawnIds
    <2>3. CASE ~ Commit(s) /\ ~ InsertEvent(s)
      <3>1. pc'[s] # "commit"
        <4>1. CASE Call(s)
          BY <4>1 DEF Call, BeginCreate, BeginUpdate, BeginDelete, Begin, CreateProject,
            UpdateProject, DeleteProject, MutateProject, Goto, IInv, TypeOK
        <4>2. CASE ~ Call(s)
          BY <1>2, <2>3, <4>2, StepsBefore
        <4> QED BY <4>1, <4>2
      <3>2. DrawnIds(s)' = {}
        BY <3>1 DEF IInv, SessionOK, DraftEvent, DrawnIds
      <3> QED BY <1>2, <2>3, <3>2, StepsOnTheWay, WayIds
    <2> QED BY <2>1, <2>2, <2>3
  <1> QED BY <1>1, <1>2 DEF Next, Exhausted

\* The ids are apart in every reachable state.
LEMMA IdInvariance == Spec => []IdInv
  <1>1. Init => IdInv
    BY InitIds
  <1>2. IInv /\ IInv' /\ LogInv /\ IdInv /\ [Next]_vars => IdInv'
    BY NextIds
  <1> QED BY <1>1, <1>2, LogInvariance, PTL DEF Spec

\* ledger_events.id: the outbox row, the stream message and the cursor of a projection
\* name an event by its id alone, and there is never another one of that id.
LEMMA EventIds == Spec => []EventIdsAreUnique
  <1>1. IdInv => EventIdsAreUnique
    BY DEF IdInv
  <1> QED BY <1>1, IdInvariance, PTL

\* CreatePersonalTransaction: no transaction is recorded twice, so no two messages are
\* ever answered with the same one.
THEOREM RecordsApart == Spec => []OneRecordPerTransaction
  <1>1. IdInv => OneRecordPerTransaction
    BY DEF IdInv
  <1> QED BY <1>1, IdInvariance, PTL

-----------------------------------------------------------------------------
(* The promise.                                                             *)

\* What LedgerPromise shows of the journals and of the events.
PostedValues == [t \in TxIds |-> {[type |-> j.type, amount |-> j.amount] : j \in Posted(t)}]

RecordedTx ==
  [c \in Messages |-> IF RecordedAs(c) = {} THEN NoTx ELSE (CHOOSE e \in RecordedAs(c) : TRUE).tx]

\* The first state is one of the promise.
LEMMA PromiseInit == Init => Promise!Init
  BY DEF Init, Promise!Init, Promise!Absent, NoRow, Posted, RecordedAs

\* A step that leaves rows, entries and events alone is a stutter of the promise.
LEMMA PromiseStutter ==
  ASSUME UNCHANGED <<rows, journals, events>>
  PROVE  UNCHANGED Promise!vars
  <1>1. PostedValues' = PostedValues
    BY DEF PostedValues, Posted
  <1>2. RecordedTx' = RecordedTx
    BY DEF RecordedTx, RecordedAs
  <1> QED BY <1>1, <1>2 DEF Promise!vars, PostedValues, RecordedTx

\* The entries a commit leaves POSTED.
LEMMA CommitPostedValues ==
  ASSUME IInv, NEW s \in Sessions, Commit(s)
  PROVE  PostedValues' =
           [PostedValues EXCEPT ![draft[s].tx] =
              IF req[s].kind = "delete" THEN {}
              ELSE {[type |-> req[s].type, amount |-> req[s].amount]}]
  <1> DEFINE u == draft[s].tx
             new == IF req[s].kind = "delete" THEN {}
                    ELSE {[type |-> req[s].type, amount |-> req[s].amount]}
  <1>e. /\ u \in TxIds /\ rows' = [rows EXCEPT ![u] = NewRow(s)]
        /\ req[s].kind \in {"create", "update", "delete"}
    BY CommitEffect
  <1>r. rows \in [TxIds -> Row]
    BY DEF IInv, TypeOK
  <1>1. BooksMatchRows'
    BY CommitBooks
  <1>2. ASSUME NEW t \in TxIds
        PROVE  {[type |-> j.type, amount |-> j.amount] : j \in Posted(t)'} =
                 IF t = u THEN new
                 ELSE {[type |-> j.type, amount |-> j.amount] : j \in Posted(t)}
    <2>1. CASE t # u
      <3>1. Posted(t)' = Posted(t)
        BY <2>1, CommitPosted
      <3> QED BY <2>1, <3>1
    <2>2. CASE t = u /\ req[s].kind = "delete"
      <3>1. rows'[t].status = "deleted"
        BY <1>e, <1>r, <2>2 DEF NewRow, Row
      <3>2. Posted(t)' = {}
        BY <1>1, <3>1 DEF BooksMatchRows
      <3> QED BY <2>2, <3>2
    <2>3. CASE t = u /\ req[s].kind # "delete"
      <3>1. rows'[t] = [status |-> "live", type |-> req[s].type, amount |-> req[s].amount]
        BY <1>e, <1>r, <2>3 DEF NewRow
      <3>2. PICK j \in Posted(t)' :
              Posted(t)' = {j} /\ j.type = rows'[t].type /\ j.amount = rows'[t].amount
        BY <1>1, <3>1 DEF BooksMatchRows
      <3> QED BY <2>3, <3>1, <3>2
    <2> QED BY <2>1, <2>2, <2>3
  <1>3. PostedValues' = [t \in TxIds |->
                           {[type |-> j.type, amount |-> j.amount] : j \in Posted(t)'}]
    BY DEF PostedValues
  <1>4. PostedValues = [t \in TxIds |-> {[type |-> j.type, amount |-> j.amount] : j \in Posted(t)}]
    BY DEF PostedValues
  <1> HIDE DEF new
  <1>5. PostedValues' = [PostedValues EXCEPT ![u] = new]
    BY <1>e, <1>2, <1>3, <1>4
  <1> QED BY <1>5 DEF new

\* What a commit adds to the memory of recorded messages.
LEMMA CommitRecordedTx ==
  ASSUME IInv, LogInv, NEW s \in Sessions, Commit(s)
  PROVE  IF req[s].kind = "create" /\ req[s].cause \in Messages
         THEN /\ RecordedTx[req[s].cause] = NoTx
              /\ RecordedTx' = [RecordedTx EXCEPT ![req[s].cause] = draft[s].tx]
         ELSE RecordedTx' = RecordedTx
  <1> DEFINE u == draft[s].tx
             cause == req[s].cause
  <1>1. PICK e \in Event :
          /\ events' = events \cup {e}
          /\ e.kind = EventKind[req[s].kind] /\ e.tx = u
          /\ e.cause = IF req[s].kind = "create" THEN cause ELSE NoCause
    BY CommitEvent
  <1>2. pc[s] = "commit" /\ SessionOK(s) /\ req[s].kind \in {"create", "update", "delete"}
    BY CommitEffect
  <1>3. e.kind = "tx.recorded" <=> req[s].kind = "create"
    BY <1>1, <1>2 DEF EventKind
  <1>4. CASE req[s].kind = "create" /\ cause \in Messages
    <2>1. Entered(s) /\ CauseReserved(s)
      BY <1>2, <1>4 DEF Entered, SessionOK
    <2>2. RecordedAs(cause) = {}
      BY <1>4, <2>1 DEF CauseReserved, IInv, RecordedHasEntry
    <2>3. ASSUME NEW c \in Messages
          PROVE  RecordedAs(c)' = IF c = cause THEN {e} ELSE RecordedAs(c)
      <3>1. c # NoCause
        BY CausesAssumption
      <3> QED BY <1>1, <1>3, <1>4, <2>2, <3>1 DEF RecordedAs
    <2>4. \A x : (CHOOSE f \in {x} : TRUE) = x
      OBVIOUS
    <2>5. RecordedTx' = [c \in Messages |-> IF c = cause THEN u
                           ELSE IF RecordedAs(c) = {} THEN NoTx
                           ELSE (CHOOSE f \in RecordedAs(c) : TRUE).tx]
      <3>1. RecordedTx' = [c \in Messages |-> IF RecordedAs(c)' = {} THEN NoTx
                             ELSE (CHOOSE f \in RecordedAs(c)' : TRUE).tx]
        BY DEF RecordedTx
      <3> QED BY <1>1, <2>3, <2>4, <3>1
    <2>6. RecordedTx[cause] = NoTx
      BY <1>4, <2>2 DEF RecordedTx
    <2>7. RecordedTx' = [RecordedTx EXCEPT ![cause] = u]
      BY <2>5 DEF RecordedTx
    <2> QED BY <1>4, <2>6, <2>7
  <1>5. CASE ~ (req[s].kind = "create" /\ cause \in Messages)
    <2>1. ASSUME NEW c \in Messages PROVE RecordedAs(c)' = RecordedAs(c)
      <3>1. e \notin RecordedAs(c)'
        BY <1>1, <1>3, <1>5 DEF RecordedAs
      <3> QED BY <1>1, <3>1 DEF RecordedAs
    <2>2. RecordedTx' = [c \in Messages |-> IF RecordedAs(c)' = {} THEN NoTx
                           ELSE (CHOOSE f \in RecordedAs(c)' : TRUE).tx]
      BY DEF RecordedTx
    <2>3. RecordedTx = [c \in Messages |-> IF RecordedAs(c) = {} THEN NoTx
                          ELSE (CHOOSE f \in RecordedAs(c) : TRUE).tx]
      BY DEF RecordedTx
    <2>4. RecordedTx' = RecordedTx
      BY <2>1, <2>2, <2>3
    <2> QED BY <1>5, <2>4
  <1> QED BY <1>4, <1>5

\* A commit is a step of the promise.
LEMMA PromiseCommit ==
  ASSUME IInv, LogInv, NEW s \in Sessions, Commit(s)
  PROVE  Promise!Next
  <1>c. PICK u, ty, a, c : u = draft[s].tx /\ ty = req[s].type /\ a = req[s].amount /\ c = req[s].cause
    OBVIOUS
  <1>e. /\ pc[s] = "commit" /\ SessionOK(s) /\ u \in TxIds
        /\ rows' = [rows EXCEPT ![u] = NewRow(s)]
        /\ req[s].kind \in {"create", "update", "delete"}
    BY <1>c, CommitEffect
  <1>p. PostedValues' = [PostedValues EXCEPT ![u] =
          IF req[s].kind = "delete" THEN {} ELSE {[type |-> ty, amount |-> a]}]
    BY <1>c, CommitPostedValues
  <1>o. rows[u].status = IF req[s].kind = "create" THEN "absent" ELSE "live"
    BY <1>c, <1>e DEF SessionOK, OwnsRow, Writing
  <1>1. CASE req[s].kind = "delete"
    <2>1. rows' = [rows EXCEPT ![u] = [@ EXCEPT !.status = "deleted"]]
      BY <1>c, <1>e, <1>1 DEF NewRow
    <2>2. RecordedTx' = RecordedTx
      BY <1>1, CommitRecordedTx
    <2>3. Promise!Remove(u)
      BY <1>1, <1>p, <1>o, <2>1, <2>2 DEF Promise!Remove, PostedValues, RecordedTx
    <2> QED BY <1>e, <2>3 DEF Promise!Next
  <1>2. CASE req[s].kind # "delete"
    <2>1. ty \in Types /\ a > 0
      <3>1. PICK k \in DraftPosted(s) : TRUE
        BY <1>e, <1>2 DEF SessionOK, DraftEntries, Entered
      <3>2. k.type = ty /\ k.amount = a
        BY <1>c, <1>e, <3>1 DEF SessionOK, DraftEntries
      <3>3. k \in Journal
        BY <3>1 DEF DraftPosted, IInv, TypeOK, Draft
      <3> QED BY <3>2, <3>3 DEF Journal
    <2>2. a \in Amounts
      BY <1>c, <1>e, <1>2 DEF LogInv, AmountsAreAsked
    <2>3. rows' = [rows EXCEPT ![u] = [status |-> "live", type |-> ty, amount |-> a]]
      BY <1>c, <1>e, <1>2 DEF NewRow
    <2>4. Promise!Write(u, ty, a)
      BY <1>p, <1>2, <2>1, <2>3 DEF Promise!Write, PostedValues
    <2>5. CASE req[s].kind = "update"
      <3>1. Promise!Edit(u, ty, a)
        BY <1>o, <2>4, <2>5, CommitRecordedTx DEF Promise!Edit, RecordedTx
      <3> QED BY <1>e, <2>1, <2>2, <3>1 DEF Promise!Next
    <2>6. CASE req[s].kind = "create"
      <3>1. rows[u] = Promise!Absent
        <4>1. Rebuilt(u) = rows[u] /\ rows[u].status = "absent"
          BY <1>e, <1>o, <2>6 DEF LogInv, EventLogRebuildsRows
        <4> QED BY <4>1 DEF Rebuilt, NoRow, Promise!Absent
      <3>2. CASE c \in Messages
        <4>1. Promise!RecordMessage(c, u, ty, a)
          BY <1>c, <2>4, <2>6, <3>1, <3>2, CommitRecordedTx DEF Promise!RecordMessage, RecordedTx
        <4> QED BY <1>e, <2>1, <2>2, <3>2, <4>1 DEF Promise!Next
      <3>3. CASE c \notin Messages
        <4>1. Promise!Record(u, ty, a)
          BY <1>c, <2>4, <3>1, <3>3, CommitRecordedTx DEF Promise!Record, RecordedTx
        <4> QED BY <1>e, <2>1, <2>2, <4>1 DEF Promise!Next
      <3> QED BY <3>2, <3>3
    <2> QED BY <1>e, <1>2, <2>5, <2>6
  <1> QED BY <1>1, <1>2

\* The writer implements LedgerPromise: row, posted entry and memory of the message
\* become visible together, at the commit, and at no other statement.
THEOREM Implementation == Spec => ImplementsPromise
  <1>1. IInv /\ LogInv /\ [Next]_vars => [Promise!Next]_(Promise!vars)
    <2> SUFFICES ASSUME IInv, LogInv, [Next]_vars PROVE [Promise!Next]_(Promise!vars)
      OBVIOUS
    <2>1. CASE UNCHANGED vars
      BY <2>1, PromiseStutter DEF vars, ledger
    <2>2. CASE Exhausted
      BY <2>1, <2>2 DEF Exhausted
    <2>3. ASSUME NEW s \in Sessions, Commit(s) PROVE [Promise!Next]_(Promise!vars)
      BY <2>3, PromiseCommit
    <2>4. ASSUME NEW s \in Sessions,
                 Call(s) \/ WriteStep(s) \/ LockStep(s) \/ AppendProjectEvent(s) \/ Fail(s),
                 ~ Commit(s)
          PROVE  [Promise!Next]_(Promise!vars)
      BY <2>4, StepsOnTheWay, PromiseStutter DEF OnTheWay
    <2> QED BY <2>1, <2>2, <2>3, <2>4 DEF Next
  <1> QED BY <1>1, PromiseInit, LogInvariance, PTL DEF Spec, ImplementsPromise, Promise!Spec


-----------------------------------------------------------------------------
(* Waiting and returning.                                                   *)

\* What a step of s does to a call: it ends it or brings it forward.
Forward(s) ==
  \/ pc'[s] = "idle"
  \/ req'[s] = req[s] /\ Progress(s)' > Progress(s)

\* A step of s takes no lock for another session, and leaves the other calls alone.
Own(s) ==
  \A r \in Sessions \ {s} :
    /\ pc'[r] = pc[r] /\ req'[r] = req[r] /\ draft'[r] = draft[r]
    /\ \A t \in TxIds : rowLock'[t] = r => rowLock[t] = r
    /\ cashLock' = r => cashLock = r

\* A call that ends drops its locks.
LEMMA EndMoves ==
  ASSUME IInv, NEW s \in Sessions, EndSession(s)
  PROVE  Own(s) /\ HoldsInUse(s)' /\ Forward(s)
  <1>1. pc'[s] = "idle" /\ cashLock' # s /\ \A t \in TxIds : rowLock'[t] # s
    BY SessionsAssumption DEF EndSession, Goto, IInv, TypeOK
  <1>2. Own(s)
    BY SessionsAssumption DEF Own, EndSession, Goto, IInv, TypeOK
  <1> QED BY <1>1, <1>2 DEF HoldsInUse, Forward

\* A call begins without a lock.
LEMMA CallMoves ==
  ASSUME IInv, LocksInUse, NEW s \in Sessions, Call(s)
  PROVE  Own(s) /\ HoldsInUse(s)' /\ pc[s] = "idle"
  <1>1. pc[s] = "idle" /\ UNCHANGED locks /\ Own(s)
    BY DEF Call, BeginCreate, BeginUpdate, BeginDelete, Begin, CreateProject, UpdateProject,
      DeleteProject, MutateProject, Goto, Own, locks, IInv, TypeOK
  <1>2. HoldsInUse(s)
    BY DEF LocksInUse
  <1> QED BY <1>1, <1>2 DEF HoldsInUse, HoldsCash, Entered, Writing, locks

\* A statement that takes no lock brings its call forward and keeps what it holds.
LEMMA StatementMoves ==
  ASSUME IInv, LocksInUse, NEW s \in Sessions, WriteStep(s)
  PROVE  Own(s) /\ HoldsInUse(s)' /\ Forward(s)
  <1> USE DEF Goto, IInv, TypeOK, locks
  <1>h. HoldsInUse(s)
    BY DEF LocksInUse
  <1>1. CASE EndSession(s)
    BY <1>1, EndMoves
  <1>2. CASE LookupCause(s) /\ ~ EndSession(s)
    <2>1. pc[s] = "lookup" /\ pc' = [pc EXCEPT ![s] = "insert"] /\ UNCHANGED <<locks, req, draft>>
      BY <1>2 DEF LookupCause
    <2> QED BY <2>1, <1>h DEF Own, Forward, Progress, HoldsInUse, HoldsCash, Entered, Writing
  <1>3. CASE InsertRow(s)
    <2>1. /\ pc[s] = "insert" /\ pc' = [pc EXCEPT ![s] = "accounts"] /\ UNCHANGED <<locks, req>>
          /\ \A r \in Sessions \ {s} : draft'[r] = draft[r]
      BY <1>3 DEF InsertRow
    <2> QED BY <2>1, <1>h DEF Own, Forward, Progress, HoldsInUse, HoldsCash, Entered, Writing
  <1>4. CASE InsertJournal(s) /\ ~ EndSession(s)
    <2>1. /\ pc[s] = "journal" /\ UNCHANGED <<locks, req>> /\ draft'[s].tx = draft[s].tx
          /\ pc' = [pc EXCEPT ![s] = IF req[s].kind = "create" THEN "validate" ELSE "allocate"]
          /\ \A r \in Sessions \ {s} : draft'[r] = draft[r]
      BY <1>4 DEF InsertJournal, Rollback, Draft
    <2>2. req[s].kind \in {"create", "update"}
      BY <2>1, KindOf
    <2> QED BY <2>1, <2>2, <1>h DEF Own, Forward, Progress, HoldsInUse, HoldsCash, Entered, Writing
  <1>5. CASE ValidateAllocations(s) /\ ~ EndSession(s)
    <2>1. /\ pc[s] = "validate" /\ UNCHANGED <<locks, req, draft>>
          /\ pc' = [pc EXCEPT ![s] = IF req[s].kind = "create" THEN "allocate" ELSE "rewrite"]
      BY <1>5 DEF ValidateAllocations, Rollback
    <2>2. req[s].kind \in {"create", "update"}
      BY <2>1, KindOf
    <2> QED BY <2>1, <2>2, <1>h DEF Own, Forward, Progress, HoldsInUse, HoldsCash, Entered, Writing
  <1>6. CASE InsertAllocations(s)
    <2>1. /\ pc[s] = "allocate" /\ pc' = [pc EXCEPT ![s] = "event"] /\ UNCHANGED <<locks, req>>
          /\ draft'[s].tx = draft[s].tx /\ \A r \in Sessions \ {s} : draft'[r] = draft[r]
      BY <1>6 DEF InsertAllocations, Draft
    <2> QED BY <2>1, <1>h DEF Own, Forward, Progress, HoldsInUse, HoldsCash, Entered, Writing
  <1>7. CASE InsertEvent(s)
    <2>1. /\ pc[s] = "event" /\ pc' = [pc EXCEPT ![s] = "commit"] /\ UNCHANGED <<locks, req>>
          /\ draft'[s].tx = draft[s].tx /\ \A r \in Sessions \ {s} : draft'[r] = draft[r]
      BY <1>7 DEF InsertEvent, Draft
    <2> QED BY <2>1, <1>h DEF Own, Forward, Progress, HoldsInUse, HoldsCash, Entered, Writing
  <1>8. CASE RewriteRow(s)
    <2>1. /\ pc[s] = "rewrite" /\ UNCHANGED <<locks, req>> /\ draft'[s].tx = draft[s].tx
          /\ pc' = [pc EXCEPT ![s] = IF req[s].kind = "update" THEN "accounts" ELSE "allocate"]
          /\ \A r \in Sessions \ {s} : draft'[r] = draft[r]
      BY <1>8 DEF RewriteRow, Draft
    <2> QED BY <2>1, <1>h DEF Own, Forward, Progress, HoldsInUse, HoldsCash, Entered, Writing
  <1>9. CASE Commit(s)
    BY <1>9, EndMoves DEF Commit
  <1> QED BY <1>1, <1>2, <1>3, <1>4, <1>5, <1>6, <1>7, <1>8, <1>9 DEF WriteStep

\* A statement that takes a lock, the event of a project and a failure do so too.
LEMMA OtherMoves ==
  ASSUME IInv, LocksInUse, NEW s \in Sessions,
         LockStep(s) \/ AppendProjectEvent(s) \/ Fail(s)
  PROVE  Own(s) /\ HoldsInUse(s)' /\ Forward(s)
  <1> USE DEF Goto, IInv, TypeOK, locks
  <1>h. HoldsInUse(s)
    BY DEF LocksInUse
  <1>1. CASE EndSession(s)
    BY <1>1, EndMoves
  <1>2. CASE EnsureAccounts(s)
    <2>1. /\ pc[s] = "accounts" /\ pc' = [pc EXCEPT ![s] = "journal"] /\ cashLock' = s
          /\ UNCHANGED <<rowLock, req, draft>>
      BY <1>2 DEF EnsureAccounts
    <2> QED BY <2>1, <1>h DEF Own, Forward, Progress, HoldsInUse, HoldsCash, Writing
  <1>3. CASE LockRow(s) /\ ~ EndSession(s)
    <2>1. /\ pc[s] = "lock" /\ rowLock' = [rowLock EXCEPT ![req[s].tx] = s]
          /\ pc' = [pc EXCEPT ![s] = IF req[s].kind = "update" THEN "validate" ELSE "rewrite"]
          /\ draft'[s].tx = req[s].tx /\ \A r \in Sessions \ {s} : draft'[r] = draft[r]
          /\ UNCHANGED <<cashLock, req>>
      BY <1>3 DEF LockRow, Rollback, Draft
    <2>2. req[s].kind \in {"update", "delete"}
      BY <2>1, KindOf
    <2>3. Own(s)
      BY <2>1 DEF Own
    <2>4. Forward(s)
      BY <2>1, <2>2 DEF Forward, Progress
    <2>5. HoldsInUse(s)'
      BY <2>1, <2>2, <1>h DEF HoldsInUse, HoldsCash, Entered, Writing
    <2> QED BY <2>3, <2>4, <2>5
  <1>4. CASE AppendProjectEvent(s)
    <2>1. pc[s] = "project" /\ pc' = [pc EXCEPT ![s] = "idle"] /\ UNCHANGED <<locks, req, draft>>
      BY <1>4 DEF AppendProjectEvent
    <2> QED BY <2>1, <1>h DEF Own, Forward, HoldsInUse, HoldsCash, Entered, Writing
  <1>5. CASE Fail(s)
    BY <1>5, EndMoves DEF Fail, Rollback
  <1> QED BY <1>1, <1>2, <1>3, <1>4, <1>5 DEF LockStep

\* Every step keeps the locks in use, and brings a running call forward or leaves it alone.
LEMMA EveryStepMoves ==
  ASSUME IInv, LocksInUse, [Next]_vars
  PROVE  /\ LocksInUse'
         /\ \A r \in Sessions : pc[r] # "idle" =>
              Forward(r) \/ (pc'[r] = pc[r] /\ req'[r] = req[r] /\ draft'[r] = draft[r])
  <1>1. ASSUME UNCHANGED vars
        PROVE  LocksInUse' /\ \A r \in Sessions :
                 pc'[r] = pc[r] /\ req'[r] = req[r] /\ draft'[r] = draft[r]
    BY <1>1 DEF vars, locks, LocksInUse, HoldsInUse, HoldsCash, Entered
  <1>2. ASSUME NEW s \in Sessions,
               Call(s) \/ WriteStep(s) \/ LockStep(s) \/ AppendProjectEvent(s) \/ Fail(s)
        PROVE  /\ LocksInUse'
               /\ \A r \in Sessions : pc[r] # "idle" =>
                    Forward(r) \/ (pc'[r] = pc[r] /\ req'[r] = req[r] /\ draft'[r] = draft[r])
    <2>1. Own(s) /\ HoldsInUse(s)' /\ (pc[s] # "idle" => Forward(s))
      BY <1>2, CallMoves, StatementMoves, OtherMoves
    <2>2. ASSUME NEW r \in Sessions \ {s} PROVE HoldsInUse(r)'
      BY <2>1 DEF Own, LocksInUse, HoldsInUse, HoldsCash, Entered
    <2> QED BY <2>1, <2>2 DEF Own, LocksInUse
  <1> QED BY <1>1, <1>2 DEF Next, Exhausted

\* No call returns with a lock of a row or of the cash account.
THEOREM NothingLeftLocked == Spec => []LocksInUse
  <1>1. Init => LocksInUse
    BY SessionsAssumption DEF Init, LocksInUse, HoldsInUse
  <1>2. IInv /\ LocksInUse /\ [Next]_vars => LocksInUse'
    BY EveryStepMoves
  <1> QED BY <1>1, <1>2, Invariance, PTL DEF Spec

\* writer.go and projects.go lock the row of a transaction before the accounts: however
\* many sessions there are, those that wait never wait for each other in a circle.
THEOREM DeadlockFreedom == Spec => []WaitsAreShort
  <1>1. IInv /\ LocksInUse => WaitsAreShort
    <2> SUFFICES ASSUME IInv, LocksInUse, NEW s \in Sessions, NEW h \in Sessions, WaitsFor(s, h)
                 PROVE  Runs(h) \/ \E k \in Sessions : WaitsFor(h, k) /\ Runs(k)
      BY DEF WaitsAreShort, Waits
    <2>1. ASSUME NEW k \in Sessions, cashLock = k PROVE Runs(k)
      BY <2>1 DEF LocksInUse, HoldsInUse, HoldsCash, Entered, Runs, Waits, WaitsFor
    <2>2. CASE pc[s] = "accounts"
      BY <2>1, <2>2 DEF WaitsFor
    <2>3. CASE pc[s] = "lock"
      <3>1. req[s].tx \in TxIds
        BY <2>3, KindOf DEF IInv, SessionOK, Shape
      <3>2. pc[h] \in Writing
        BY <2>3, <3>1 DEF WaitsFor, LocksInUse, HoldsInUse
      <3>3. pc[h] # "idle" /\ pc[h] # "lock"
        BY <3>2 DEF Writing
      <3> QED BY <2>1, <3>3 DEF Runs, Waits, WaitsFor
    <2> QED BY <2>2, <2>3 DEF WaitsFor
  <1> QED BY <1>1, Invariance, NothingLeftLocked, PTL

\* Nothing sets a call back: it returns after nine statements of its own at most.
THEOREM Returning == Spec => CallsGoForward
  <1> DEFINE Step == \A s \in Sessions : pc[s] # "idle" =>
               \/ pc'[s] = "idle"
               \/ req'[s] = req[s] /\ Progress(s)' > Progress(s)
               \/ pc'[s] = pc[s] /\ req'[s] = req[s] /\ draft'[s] = draft[s]
  <1>1. IInv /\ LocksInUse /\ [Next]_vars => Step
    BY EveryStepMoves DEF Forward
  <1>2. Step => [Step]_vars
    OBVIOUS
  <1>3. Spec => [][Next]_vars
    BY DEF Spec
  <1> QED BY <1>1, <1>2, <1>3, Invariance, NothingLeftLocked, PTL DEF CallsGoForward

==============================================================================
