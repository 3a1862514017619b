----------------------------- MODULE BlockAlloc -----------------------------
(***************************************************************************)
(* The block space allocator (apps/src/lib/node/ledger/shell/block_alloc). *)
(* A bin has a capacity and counts what was put into it.  The proposer     *)
(* fills one bin after the other, each by a batch of transactions that     *)
(* ends before the first one that is rejected.                             *)
(***************************************************************************)
EXTENDS Integers, Sequences, Functions

(* The amounts that can be in a bin at all. *)
Fitting(capacity, amounts) ==
    RestrictValues(amounts, LAMBDA a : a <= capacity)

(* A bin of that capacity after a batch none of which was rejected: those  *)
(* that overflow the bin on their own are not counted.                     *)
Bin(capacity, amounts) ==
    [allotted |-> capacity, occupied |-> SumFunction(Fitting(capacity, amounts))]

(* TxBin::try_dump, its result *)
TryDump(bin, amount) ==
    IF amount > bin.allotted THEN "OverflowsBin"
    ELSE IF bin.occupied + amount <= bin.allotted THEN "Ok"
    ELSE "Rejected"

(* The take_while of prepare_proposal over a batch: the first n are taken. *)
(* One that overflows is taken like one that fits.                         *)
TakesWhile(capacity, amounts, n) ==
    LET result(i) == TryDump(Bin(capacity, SubSeq(amounts, 1, i - 1)), amounts[i])
    IN  /\ \A i \in 1 .. n : result(i) # "Rejected"
        /\ n < Len(amounts) => result(n + 1) = "Rejected"

(* EncryptedTxsBins::new: wrappers get a third of the space. *)
EncryptedSpace(max_bytes) == max_bytes \div 3

(* try_alloc of a wrapper after others: space first, then gas.  `bytes`    *)
(* and `gas` are what the others need.                                     *)
TryAlloc(max_bytes, max_gas, bytes, gas, tx_bytes, tx_gas) ==
    LET space == TryDump(Bin(EncryptedSpace(max_bytes), bytes), tx_bytes)
        with_space == DOMAIN Fitting(EncryptedSpace(max_bytes), bytes)
    IN  IF space # "Ok" THEN space
        ELSE TryDump(Bin(max_gas, Restrict(gas, with_space)), tx_gas)

(* Mutant: only a third of the block is left to decrypted transactions. *)
DecryptedSpaceThird(max_bytes, bytes, n) == EncryptedSpace(max_bytes)

(* The space the wrappers leave to decrypted transactions, when the first  *)
(* n of the mempool were taken.  A wrapper that finds space but no gas is  *)
(* rejected and yet keeps its space.                                       *)
DecryptedSpace(max_bytes, bytes, n) ==
    LET space == Bin(EncryptedSpace(max_bytes), SubSeq(bytes, 1, n))
        kept == IF n < Len(bytes) /\ TryDump(space, bytes[n + 1]) = "Ok"
                  THEN bytes[n + 1] ELSE 0
    IN  max_bytes - (space.occupied + kept)

(* Mutant: the space decrypted transactions take is not taken off. *)
ProtocolSpaceShared(decrypted_space, bytes, m) == decrypted_space

(* What those leave to protocol transactions, when m were taken. *)
ProtocolSpace(decrypted_space, bytes, m) ==
    decrypted_space - Bin(decrypted_space, SubSeq(bytes, 1, m)).occupied

=============================================================================
