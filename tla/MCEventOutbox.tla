---------------------------- MODULE MCEventOutbox ----------------------------
(* Instances of EventOutbox for TLC. *)
EXTENDS EventOutbox, TLC

\* A topic the relay completes with the namespace.
PlainTopic == {<<"ledger", "tx">>}

\* One that is complete already, and one no subject of three tokens comes from.
AllTopics == {<<"ledger", "tx">>, <<"ledger", "tx", "u1">>, <<"ledger">>}

Symmetry == Permutations(Appenders) \cup Permutations(GoRelays) \cup Permutations(NodeRelays)
=============================================================================
