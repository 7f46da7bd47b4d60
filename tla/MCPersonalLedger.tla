--------------------------- MODULE MCPersonalLedger ---------------------------
(* Instances of PersonalLedger for TLC. *)
EXTENDS PersonalLedgerInv, Sequences, TLC

CONSTANTS p1, p2

NoAllocations == {<<>>}

Line(p, a) == [project |-> p, amount |-> a]

\* In tenths of a satang: a line without effect and one that rounds to nothing; one
\* above the smaller amount in use; two lines whose rows, for an amount of one satang,
\* exceed it by two; one project twice.
AllocationLists ==
  {<<Line(p1, 0), Line(p2, 4)>>, <<Line(p1, 31)>>, <<Line(p1, 5), Line(p2, 15)>>,
   <<Line(p1, 10), Line(p1, 10)>>}

Symmetry == Permutations(Sessions) \cup Permutations(TxIds) \cup Permutations(Uuids)
=============================================================================
