---------------------------- MODULE MCTxRollback ----------------------------
(* Three wrappers, two of which carry the same inner transaction. *)
EXTENDS TxRollback, TLC

CONSTANTS w1, w2, w3, x1, x2

MCWrappers == {w1, w2, w3}
MCInners == {x1, x2}
MCHashes == Wrappers \cup Inners
MCInner == [w \in Wrappers |-> IF w \in {w1, w2} THEN x1 ELSE x2]
MCBytes == [h \in Hashes |-> IF h \in {w3, x2} THEN 4 ELSE 1]
MCGas == [w \in Wrappers |-> IF w = w3 THEN 1 ELSE 2]
Symmetry == Permutations({w1, w2})

=============================================================================
