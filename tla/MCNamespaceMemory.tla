-------------------------- MODULE MCNamespaceMemory --------------------------
(* Instances of NamespaceMemory for TLC. *)
EXTENDS NamespaceMemory, TLC

CONSTANTS c1, c2, x1, x2, a, b

OneLink == {<<a, b>>}

\* An edge between two pages of the answer, and one to a page it does not have.
TwoAnswers == {[pages |-> {a, b}, links |-> OneLink], [pages |-> {a}, links |-> OneLink]}

L(t, cs, xs, ss, r, cr, d, st) ==
  [turns |-> t, compactions |-> cs, extractions |-> xs, slugs |-> ss, retrievals |-> r,
   crashes |-> cr, deletions |-> d, stores |-> st]

\* Two compactions of a long conversation; two tasks of one text; a reader beside an
\* extraction; a deletion, asked for again when it fails, beside a compaction, and one
\* beside an extraction.
AllLoads ==
  {L(4, {c1, c2}, {}, {}, 0, 1, 0, {}), L(0, {}, {x1, x2}, {a}, 0, 1, 0, {}),
   L(0, {}, {x1}, {a}, 2, 0, 0, {}), L(0, {}, {x2}, {a, b}, 2, 0, 0, {}),
   L(3, {c1}, {}, {}, 0, 0, 2, {"messages", "summaries"}),
   L(0, {}, {x2}, {a, b}, 0, 0, 1, {"edges", "pages", "embeddings"})}

\* Two compactions and nothing that fails.
OverlapLoad == {L(4, {c1, c2}, {}, {}, 0, 0, 0, {})}

=============================================================================
