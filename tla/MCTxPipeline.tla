---------------------------- MODULE MCTxPipeline ----------------------------
(* Two inner transactions, one of which comes in two wrappers.  w1 and w2  *)
(* fill the space of wrappers in a block of 13 bytes, whose other parts    *)
(* w3 decrypted and a vote fill up to one byte; w1 and w3 fill it in one   *)
(* of 15, and need more than the gas of a block.                           *)
EXTENDS TxPipeline

CONSTANTS w1, w2, w3, x1, x2

MCWrappers == {w1, w2, w3}
MCInners == {x1, x2}
MCHashes == Wrappers \cup Inners
MCInner == [w \in Wrappers |-> IF w = w3 THEN x2 ELSE x1]
MCBytes == [h \in Hashes |-> IF h \in {w3, x2} THEN 4 ELSE IF h = w2 THEN 3 ELSE 1]
MCGas == [w \in Wrappers |-> IF w = w3 THEN 2 ELSE 1]

=============================================================================
