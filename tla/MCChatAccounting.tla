-------------------------- MODULE MCChatAccounting --------------------------
(* Instances of ChatAccounting for TLC.                                     *)
EXTENDS ChatAccounting, TLC

S(k, t, a) == [kind |-> k, type |-> t, amount |-> a]

\* What may lead to a record: a clear text, one to ask about, one without an amount, a
\* slip with a direction and no amount, an amount, two answers to a question, a text for
\* the household.
RecordSayings ==
  {S("sure", "EXPENSE", 1), S("unsure", "none", 1), S("missing", "none", 0),
   S("slip", "EXPENSE", 0), S("number", "none", 2), S("choice", "INCOME", 0), S("choice", "IGNORE", 0),
   S("shared", "EXPENSE", 1)}

\* One of each.
AllSayings ==
  RecordSayings \cup
  {S("slip", "INCOME", 2), S("refusal", "none", 0), S("sticker", "none", 0),
   S("chat", "none", 0)}

\* A question, its answer and another question.
QuestionSayings ==
  {S("unsure", "none", 1), S("slip", "none", 2), S("choice", "EXPENSE", 0)}

Symmetric == Permutations(Workers) \cup Permutations(Messages) \cup Permutations(Jobs)
               \cup Permutations(TxIds)

=============================================================================
