---------------------------- MODULE LedgerPromise ----------------------------
(***************************************************************************)
(* What the ledger writer promises its callers: transactions, the posted   *)
(* entries of the books and the memory of recorded messages change         *)
(* together, each in one step.                                             *)
(***************************************************************************)
EXTENDS Naturals

CONSTANTS TxIds, NoTx, Messages, Types, Amounts

VARIABLES
  entry,      \* each transaction: [status, type, amount]
  posted,     \* the POSTED [type, amount] entries of each transaction
  recorded    \* the transaction a message was recorded as, or NoTx

vars == <<entry, posted, recorded>>

Absent == [status |-> "absent", type |-> "none", amount |-> 0]

Init ==
  /\ entry = [t \in TxIds |-> Absent]
  /\ posted = [t \in TxIds |-> {}]
  /\ recorded = [c \in Messages |-> NoTx]

Write(t, ty, a) ==
  /\ ty \in Types
  /\ a > 0
  /\ entry' = [entry EXCEPT ![t] = [status |-> "live", type |-> ty, amount |-> a]]
  /\ posted' = [posted EXCEPT ![t] = {[type |-> ty, amount |-> a]}]

\* A new transaction for a message recorded for the first time.
RecordMessage(c, t, ty, a) ==
  /\ entry[t] = Absent
  /\ recorded[c] = NoTx
  /\ Write(t, ty, a)
  /\ recorded' = [recorded EXCEPT ![c] = t]

\* A new transaction without a message.
Record(t, ty, a) ==
  /\ entry[t] = Absent
  /\ Write(t, ty, a)
  /\ UNCHANGED recorded

Edit(t, ty, a) ==
  /\ entry[t].status = "live"
  /\ Write(t, ty, a)
  /\ UNCHANGED recorded

Remove(t) ==
  /\ entry[t].status = "live"
  /\ entry' = [entry EXCEPT ![t] = [@ EXCEPT !.status = "deleted"]]
  /\ posted' = [posted EXCEPT ![t] = {}]
  /\ UNCHANGED recorded

Next ==
  \E t \in TxIds :
    \/ \E ty \in Types, a \in Amounts :
         \/ \E c \in Messages : RecordMessage(c, t, ty, a)
         \/ Record(t, ty, a)
         \/ Edit(t, ty, a)
    \/ Remove(t)

Spec == Init /\ [][Next]_vars

=============================================================================
