--------------------------- MODULE MCLedgerReports ---------------------------
(* Instances of LedgerReports for TLC. *)
EXTENDS LedgerReports, TLC

Draft(type, amount, category, at, allocated) ==
  [type |-> type, amount |-> amount, category |-> category, at |-> at,
   alloc |-> [p \in Projects |-> allocated]]

\* Today's expenses of two categories, one of them for a project and a satang beyond its
\* amount, and of its last second; an income of the midnight that ends the day; the last second of a month that
\* is over.
SomeDrafts ==
  {Draft("EXPENSE", 2, "goods", Midnight(Today) + 1, 0),
   Draft("EXPENSE", 3, "food", Midnight(Today), 4),
   Draft("EXPENSE", 1, "food", LastSecond(Today), 0),
   Draft("INCOME", 4, "sale", Midnight(Today + 1), 2),
   Draft("INCOME", 1, "sale", LastSecond(MonthStart(Today) - 1), 0)}

AllPresets == {"today", "yesterday", "last_7_days", "last_30_days", "this_week", "this_month",
               "last_month", "this_quarter", "this_year"}

\* One of them the wrong way round, one beyond today.
SomeRanges == {<<Today, Today - 1>>, <<Today, Today + 1>>}

Symmetry == Permutations(Ids)
=============================================================================
