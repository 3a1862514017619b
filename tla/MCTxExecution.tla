--------------------------- MODULE MCTxExecution ----------------------------
(* A model of TxExecution small enough for TLC: two balances and the        *)
(* validity predicate of one account.                                      *)
EXTENDS TxExecution

CONSTANTS b1, b2, p1, c1

MCKeys == {b1, b2, p1}
MCVpKey == <<p1>>
MCValues == {c1} \cup Amounts
MCEvents == 1 .. MaxTxs

=============================================================================
