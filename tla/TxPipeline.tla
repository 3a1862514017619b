----------------------------- MODULE TxPipeline -----------------------------
(***************************************************************************)
(* The way of a transaction through blocks.  A wrapper is included in one  *)
(* block: its hash is recorded, its fee is charged and it is queued.  The  *)
(* next block executes the inner transactions of the queue, in order.      *)
(* Modelled from the handlers of apps/src/lib/node/ledger/shell:           *)
(* process_proposal.rs decides which proposals honest validators accept,   *)
(* finalize_block.rs executes the block consensus decided, mod.rs commits  *)
(* it.  Proposals are arbitrary: any proposer may put together any block   *)
(* that process_proposal accepts, one transaction at a time.  An honest    *)
(* one proposes what prepare_proposal.rs builds of its mempool and the     *)
(* queue within the space of a block, and may be refused like any other.   *)
(*                                                                         *)
(* A wrapper stands for its header hash; Inner[w] is the hash of the raw   *)
(* transaction inside it, which several wrappers may carry.  The results   *)
(* of fee payment and execution depend on state that is not modelled here, *)
(* so any result may come out, and a different one when the block is       *)
(* executed again after a restart.                                         *)
(***************************************************************************)
EXTENDS ReplayProtection, BlockAlloc, FiniteSets

CONSTANTS
    Wrappers, Inners,   \* hashes of wrapper and of inner transactions
    Inner,              \* Inner[w]: the transaction in wrapper w
    Bytes, Gas,         \* sizes of transactions, gas limits of wrappers
    VoteBytes,          \* sizes of protocol transactions
    ProposalBytes,      \* values max_proposal_bytes may have
    MaxTxBytes,         \* max_tx_bytes
    MaxBlockGas,        \* max_block_gas
    MaxVotes,           \* bound: protocol transactions in the mempool
    MaxCrashes          \* bound: restarts of the node

ASSUME TxPipelineAssumption ==
    /\ Wrappers \cup Inners \subseteq Hashes
    /\ Wrappers \cap Inners = {}
    /\ Inner \in [Wrappers -> Inners]
    /\ ProposalBytes \subseteq Nat
    /\ MaxCrashes \in Nat

(* Sizes, for liveness only.  A decrypted transaction is not larger than   *)
(* its wrapper.  A block has room for as many wrappers as it may have, for *)
(* the queue of a block under another max_proposal_bytes and for one more  *)
(* transaction; the code does not check that where parameters are changed. *)
ASSUME SizesAssumption ==
    /\ \A w \in Wrappers : Bytes[Inner[w]] <= Bytes[w]
    /\ \A v \in VoteBytes : v <= MaxTxBytes
    /\ \A p, q \in ProposalBytes :
          /\ MaxTxBytes <= EncryptedSpace(p)
          /\ EncryptedSpace(p) + EncryptedSpace(q) + MaxTxBytes <= p

VARIABLES
    queue,       \* tx_queue as the last block committed it
    tx_queue,    \* tx_queue in memory
    phase,       \* "propose", "refused", "decided" or "execute"
    block,       \* the proposal, then the decided block
    next_tx,     \* index of the next transaction finalize_block handles
    applied,     \* how often the changes of an inner transaction were kept
    charged,     \* how often the fee of a wrapper was charged
    committed,   \* applied, charged and max_proposal_bytes as of the last
                 \* committed block
    crashes

mem_vars == <<tx_queue, phase, block, next_tx, applied, charged>>
vars == <<replay_vars, queue, tx_queue, phase, block, next_tx, applied,
          charged, committed, crashes>>

Tx(type, h) == [type |-> type, hash |-> h]
Txs == [type : {"Wrapper"}, hash : Wrappers]
         \cup [type : {"Decrypted"}, hash : Inners]

Init ==
    /\ ReplayInit
    /\ queue = <<>> /\ tx_queue = <<>>
    /\ phase = "propose"
    /\ block = <<>>
    /\ next_tx = 1
    /\ applied = [x \in Inners |-> 0]
    /\ charged = [w \in Wrappers |-> 0]
    /\ \E p \in ProposalBytes :
          committed = [applied |-> applied, charged |-> charged,
                       max_proposal_bytes |-> p]
    /\ crashes = 0

-----------------------------------------------------------------------------
(* ProcessProposal.  check_proposal_tx handles the transactions of a       *)
(* proposal in order, with an iterator over the queue and a temporary      *)
(* write log that remembers the wrapper hashes seen so far.                *)

Decrypted(b, i) == {j \in 1 .. i : b[j].type = "Decrypted"}
Earlier(b, i) == {b[j] : j \in 1 .. (i - 1)}

(* Mutant: a wrapper repeated within the proposal is not noticed. *)
ReplayProtectionChecksNoTemp(b, i) ==
    /\ ~HasCommittedReplayProtectionEntry(Inner[b[i].hash])
    /\ ~HasCommittedReplayProtectionEntry(b[i].hash)

(* Mutant: the inner hash is not looked up. *)
ReplayProtectionChecksNoInner(b, i) ==
    /\ ~HasCommittedReplayProtectionEntry(b[i].hash)
    /\ b[i] \notin Earlier(b, i)

(* replay_protection_checks for a wrapper at position i *)
ReplayProtectionChecks(b, i) ==
    /\ ~HasCommittedReplayProtectionEntry(Inner[b[i].hash])
    /\ ~HasCommittedReplayProtectionEntry(b[i].hash)
    /\ b[i] \notin Earlier(b, i)

(* The space and gas that transactions need, by their places. *)
BytesOf(hashes) == [j \in DOMAIN hashes |-> Bytes[hashes[j]]]
GasOf(wrappers) == [j \in DOMAIN wrappers |-> Gas[wrappers[j]]]

(* The first i transactions of a proposal, and the wrappers among them. *)
HashesIn(b, i) == [j \in 1 .. i |-> b[j].hash]
WrappersIn(b, i) == [j \in {j \in 1 .. i : b[j].type = "Wrapper"} |-> b[j].hash]

(* txs_bin and encrypted_txs_bins of ValidationMeta.  All transactions     *)
(* before this one are counted, one that is refused as a replay too; none  *)
(* that is refused for its size or gas is followed by another here.        *)
TryDumpTx(b, i) ==
    TryDump(Bin(committed.max_proposal_bytes, BytesOf(HashesIn(b, i - 1))),
            Bytes[b[i].hash])

TryDumpWrapper(b, i) ==
    TryAlloc(committed.max_proposal_bytes, MaxBlockGas,
             BytesOf(WrappersIn(b, i - 1)), GasOf(WrappersIn(b, i - 1)),
             Bytes[b[i].hash], Gas[b[i].hash])

(* The result code of the i-th transaction of proposal b, among those this *)
(* model tells apart.                                                      *)
CheckProposalTx(b, i) ==
    LET n == Cardinality(Decrypted(b, i))
    IN  IF Bytes[b[i].hash] > MaxTxBytes THEN "TooLarge"
        ELSE IF TryDumpTx(b, i) # "Ok" THEN "AllocationError"
        ELSE IF b[i].type = "Wrapper"
          THEN IF TryDumpWrapper(b, i) # "Ok" THEN "AllocationError"
               ELSE IF n > 0 THEN "InvalidTx"
               ELSE IF ~ReplayProtectionChecks(b, i) THEN "ReplayTx"
               ELSE "Ok"
        ELSE IF n > Len(queue) THEN "ExtraTxs"
        ELSE IF Inner[queue[n]] # b[i].hash THEN "InvalidOrder"
        ELSE "Ok"

(* A proposal grows by a transaction that keeps it acceptable. *)
Propose(tx) ==
    /\ phase = "propose"
    /\ block' = Append(block, tx)
    /\ CheckProposalTx(block', Len(block')) = "Ok"
    /\ UNCHANGED <<replay_vars, queue, tx_queue, phase, next_tx, applied,
                   charged, committed, crashes>>

ProposeWrapper(w) == Propose(Tx("Wrapper", w))
ProposeDecrypted(x) == Propose(Tx("Decrypted", x))

(* Consensus moves on to another proposal. *)
NextRound ==
    /\ phase \in {"propose", "refused"}
    /\ phase = "propose" => block # <<>>
    /\ block' = <<>>
    /\ phase' = "propose"
    /\ UNCHANGED <<replay_vars, queue, tx_queue, next_tx, applied, charged,
                   committed, crashes>>

(* decrypted_queue_has_remaining_txs *)
QueueHasRemainingTxs == Cardinality(Decrypted(block, Len(block))) < Len(queue)

Decide ==
    /\ phase = "propose"
    /\ ~QueueHasRemainingTxs
    /\ phase' = "decided"
    /\ UNCHANGED <<replay_vars, queue, tx_queue, block, next_tx, applied,
                   charged, committed, crashes>>

-----------------------------------------------------------------------------
(* PrepareProposal, and what the others make of it.                        *)

(* What validate_wrapper_bytes lets pass of a mempool that holds what      *)
(* mempool_validate has let in.                                            *)
ValidWrappers ==
    {w \in Wrappers : /\ Bytes[w] <= MaxTxBytes /\ Gas[w] <= MaxBlockGas
                      /\ ReplayProtectionChecks(<<Tx("Wrapper", w)>>, 1)}

Mempools ==
    UNION {Injection(1 .. n, ValidWrappers) : n \in 0 .. Cardinality(ValidWrappers)}

Votes == UNION {[1 .. n -> VoteBytes] : n \in 0 .. MaxVotes}

(* The take_while of build_encrypted_txs takes the first n of the mempool. *)
TakesEncrypted(mempool, n) ==
    LET before(i) == SubSeq(mempool, 1, i - 1)
        result(i) == TryAlloc(committed.max_proposal_bytes, MaxBlockGas,
                              BytesOf(before(i)), GasOf(before(i)),
                              Bytes[mempool[i]], Gas[mempool[i]])
    IN  /\ \A i \in 1 .. n : result(i) # "Rejected"
        /\ n < Len(mempool) => result(n + 1) = "Rejected"

QueueBytes == [i \in 1 .. Len(queue) |-> Bytes[Inner[queue[i]]]]

(* prepare_proposal puts the first n wrappers of the mempool, m of the     *)
(* queue (build_decrypted_txs) and k of the votes into its proposal.       *)
Prepares(mempool, votes, n, m, k) ==
    LET space == DecryptedSpace(committed.max_proposal_bytes, BytesOf(mempool), n)
    IN  /\ TakesEncrypted(mempool, n)
        /\ TakesWhile(space, QueueBytes, m)
        /\ TakesWhile(ProtocolSpace(space, QueueBytes, m), votes, k)

Prepared(mempool, n, m) ==
    [i \in 1 .. (n + m) |-> IF i <= n THEN Tx("Wrapper", mempool[i])
                            ELSE Tx("Decrypted", Inner[queue[i - n]])]

(* process_proposal of such a proposal.  Protocol transactions leave the   *)
(* state of this model alone and only take up space.                       *)
VoteFits(b, votes, i) ==
    /\ votes[i] <= MaxTxBytes
    /\ TryDump(Bin(committed.max_proposal_bytes,
                   BytesOf(HashesIn(b, Len(b))) \o SubSeq(votes, 1, i - 1)),
               votes[i]) = "Ok"

ProcessProposal(b, votes, k) ==
    /\ \A i \in 1 .. Len(b) : CheckProposalTx(b, i) = "Ok"
    /\ Cardinality(Decrypted(b, Len(b))) >= Len(queue)
    /\ \A i \in 1 .. k : VoteFits(b, votes, i)

(* A round with an honest proposer, whose proposal is decided if it is     *)
(* accepted.                                                               *)
HonestRound ==
    /\ phase = "propose"
    /\ block = <<>>
    /\ \E mempool \in Mempools, votes \in Votes :
       \E n \in 0 .. Len(mempool), m \in 0 .. Len(queue), k \in 0 .. Len(votes) :
          LET b == Prepared(mempool, n, m)
              accepted == ProcessProposal(b, votes, k)
          IN  /\ Prepares(mempool, votes, n, m, k)
              /\ block' = IF accepted THEN b ELSE <<>>
              /\ phase' = IF accepted THEN "decided" ELSE "refused"
    /\ UNCHANGED <<replay_vars, queue, tx_queue, next_tx, applied, charged,
                   committed, crashes>>

-----------------------------------------------------------------------------
(* FinalizeBlock.  The hashes of the previous block come first. *)

(* Mutant: the hashes of the previous block are not brought into the log. *)
BeginFinalizeWithoutHashes ==
    /\ phase = "decided"
    /\ phase' = "execute"
    /\ next_tx' = 1
    /\ UNCHANGED <<replay_vars, queue, tx_queue, block, applied, charged,
                   committed, crashes>>

(* Mutant: transactions counted from 0. *)
BeginFinalizeAtZero ==
    /\ phase = "decided"
    /\ FinalizeTxHashes
    /\ phase' = "execute"
    /\ next_tx' = 0
    /\ UNCHANGED <<queue, tx_queue, block, applied, charged, committed, crashes>>

BeginFinalize ==
    /\ phase = "decided"
    /\ FinalizeTxHashes
    /\ phase' = "execute"
    /\ next_tx' = 1
    /\ UNCHANGED <<queue, tx_queue, block, applied, charged, committed, crashes>>

(* Then the transactions in order.  The results the handler receives are   *)
(* those of process_txs, run again on the decided block.                   *)
Handles(type, code) ==
    /\ phase = "execute" /\ ~panicked
    /\ next_tx <= Len(block)
    /\ block[next_tx].type = type
    /\ code = CheckProposalTx(block, next_tx)
    /\ next_tx' = next_tx + 1
    /\ UNCHANGED <<last, all, queue, phase, block, committed, crashes>>

(* apply_wrapper_tx writes the hash before anything can fail.  fee_error:  *)
(* charge_fee fails, its changes are dropped.  gas_error: add_wrapper_gas  *)
(* fails after the fee is committed.                                       *)
FinalizeWrapper(result) ==
    LET w == block[next_tx].hash
    IN  /\ Handles("Wrapper", "Ok")
        /\ replay_protection' = WriteTxHash(replay_protection, w)
        /\ panicked' = WriteTxHashFails(replay_protection, w)
        /\ charged' = IF result = "fee_error" THEN charged
                      ELSE [charged EXCEPT ![w] = @ + 1]
        /\ tx_queue' = IF result = "ok" THEN Append(tx_queue, w) ELSE tx_queue
        /\ UNCHANGED applied

(* A wrapper that process_txs now rejects is left out.  It was accepted in *)
(* the proposal, so this takes another state than the one it was proposed  *)
(* in (see TxRollback).                                                    *)
SkipWrapper ==
    /\ \E code \in {"TooLarge", "AllocationError", "InvalidTx", "ReplayTx"} :
          Handles("Wrapper", code)
    /\ UNCHANGED <<replay_protection, panicked, applied, charged, tx_queue>>

(* The head of the queue belongs to the decrypted transaction. *)
Pop ==
    /\ tx_queue' = IF tx_queue = <<>> THEN tx_queue ELSE Tail(tx_queue)
    /\ UNCHANGED charged

(* Mutant: the wrapper's hash goes and the inner one is not written. *)
CommitNoInnerTxHash(w) ==
    /\ replay_protection' = DeleteTxHash(replay_protection, w)
    /\ panicked' = DeleteTxHashFails(replay_protection, w)

(* commit_inner_tx_hash(w), two requests that both must succeed *)
CommitInnerTxHash(w) ==
    LET written == WriteTxHash(replay_protection, Inner[w])
    IN  /\ replay_protection' = DeleteTxHash(written, w)
        /\ panicked' = \/ WriteTxHashFails(replay_protection, Inner[w])
                       \/ DeleteTxHashFails(written, w)

(* The inner transaction runs, unless its hash is already in the write log *)
(* (apply_wasm_tx, ReplayAttempt).  accepted: its changes are committed;   *)
(* rejected: a validity predicate or an error stops it and its hash is     *)
(* committed all the same; retry: it fails for want of gas, of a section   *)
(* or of a valid signature and may be submitted again.                     *)
FinalizeDecrypted(result) ==
    /\ Handles("Decrypted", "Ok")
    /\ Pop
    /\ tx_queue # <<>>
    /\ LET x == block[next_tx].hash
           w == Head(tx_queue)
       IN  IF HasReplayProtectionEntry(x)
             THEN /\ replay_protection' = DeleteTxHash(replay_protection, w)
                  /\ panicked' = DeleteTxHashFails(replay_protection, w)
                  /\ UNCHANGED applied
           ELSE IF result = "retry"
             THEN UNCHANGED <<replay_protection, panicked, applied>>
           ELSE /\ CommitInnerTxHash(w)
                /\ applied' = IF result = "accepted"
                                THEN [applied EXCEPT ![x] = @ + 1] ELSE applied

(* A decrypted transaction that is found expired (the one rejection that   *)
(* does not reject the proposal), that could not be decrypted or that is   *)
(* not the one expected only loses its place in the queue.  The node stops *)
(* if the queue has none, here as for a transaction that would be executed.*)
SkipDecrypted ==
    /\ \E code \in {"Ok", "TooLarge", "AllocationError", "ExtraTxs", "InvalidOrder"} :
          Handles("Decrypted", code)
    /\ Pop
    /\ panicked' = (tx_queue = <<>>)
    /\ UNCHANGED <<replay_protection, applied>>

(* Shell::commit.  The block may have changed max_proposal_bytes, by a     *)
(* governance proposal that was executed in it.                            *)
Commit ==
    /\ phase = "execute" /\ ~panicked
    /\ next_tx > Len(block)
    /\ CommitHashes
    /\ queue' = tx_queue
    /\ \E p \in ProposalBytes :
          committed' = [applied |-> applied, charged |-> charged,
                        max_proposal_bytes |-> p]
    /\ phase' = "propose"
    /\ block' = <<>>
    /\ UNCHANGED <<tx_queue, next_tx, applied, charged, crashes>>

(* Mutant: the block is executed again on top of its own first effects. *)
CrashKeepsMemory ==
    /\ crashes < MaxCrashes
    /\ crashes' = crashes + 1
    /\ replay_protection' = NoRequests
    /\ panicked' = FALSE
    /\ phase' = IF phase = "execute" THEN "decided" ELSE phase
    /\ block' = IF phase = "propose" THEN <<>> ELSE block
    /\ UNCHANGED <<last, all, queue, tx_queue, applied, charged, next_tx, committed>>

(* The process stops and starts again: the state is that of the last       *)
(* committed block, and CometBFT hands over the decided block once more.   *)
Crash ==
    /\ crashes < MaxCrashes
    /\ crashes' = crashes + 1
    /\ replay_protection' = NoRequests
    /\ panicked' = FALSE
    /\ tx_queue' = queue
    /\ applied' = committed.applied
    /\ charged' = committed.charged
    /\ phase' = IF phase = "execute" THEN "decided" ELSE phase
    /\ block' = IF phase = "propose" THEN <<>> ELSE block
    /\ UNCHANGED <<last, all, queue, next_tx, committed>>

Execute ==
    \/ \E r \in {"ok", "fee_error", "gas_error"} : FinalizeWrapper(r)
    \/ \E r \in {"accepted", "rejected", "retry"} : FinalizeDecrypted(r)
    \/ SkipDecrypted

Step ==
    \/ \E w \in Wrappers : ProposeWrapper(w)
    \/ \E x \in Inners : ProposeDecrypted(x)
    \/ NextRound
    \/ Decide
    \/ HonestRound
    \/ BeginFinalize
    \/ Execute
    \/ Crash

Next == Step \/ Commit

Spec == Init /\ [][Next]_vars

(* Rounds time out, and proposers rotate: with more than two thirds of the *)
(* voting power honest there is again and again a round with an honest     *)
(* proposer whose proposal is decided if process_proposal accepts it.  The *)
(* node works through a decided block.                                     *)
Fairness ==
    /\ WF_vars(NextRound)
    /\ SF_vars(HonestRound)
    /\ WF_vars(BeginFinalize)
    /\ WF_vars(Execute)
    /\ WF_vars(Commit)

FairSpec == Spec /\ Fairness

-----------------------------------------------------------------------------
(* Properties *)

(* Type invariant. *)
TypeOK ==
    /\ last \subseteq Hashes /\ all \subseteq Hashes
    /\ replay_protection \in [Hashes -> {"None", "Write", "Delete", "Finalize"}]
    /\ panicked \in BOOLEAN
    /\ queue \in Seq(Wrappers) /\ tx_queue \in Seq(Wrappers)
    /\ phase \in {"propose", "refused", "decided", "execute"}
    /\ block \in Seq(Txs)
    /\ next_tx \in Nat \ {0}
    /\ applied \in [Inners -> Nat]
    /\ charged \in [Wrappers -> Nat]
    /\ committed \in [applied : [Inners -> Nat], charged : [Wrappers -> Nat],
                      max_proposal_bytes : ProposalBytes]
    /\ crashes \in 0 .. MaxCrashes

(* None of the `expect`s on replay protection requests and on the queue    *)
(* fails: apply_wrapper_tx, commit_inner_tx_hash, the ReplayAttempt branch *)
(* and the loop over the last block's hashes never meet a request for the  *)
(* same hash that excludes theirs, and every decrypted transaction finds   *)
(* its wrapper.                                                            *)
NoPanic == ~panicked

(* The changes of an inner transaction are kept at most once, whichever    *)
(* and however many wrappers carry it, in the same or in different blocks, *)
(* and across restarts.                                                    *)
AppliedOnce == \A x \in Inners : applied[x] <= 1

(* The fee of a wrapper is charged at most once. *)
ChargedOnce == \A w \in Wrappers : charged[w] <= 1

(* Deleting the wrapper's hash loses nothing: a wrapper that was charged   *)
(* is refused by replay_protection_checks for ever after, by its own hash  *)
(* or by that of its inner transaction.                                    *)
ChargedIsRefused ==
    \A w \in Wrappers : committed.charged[w] > 0 =>
        \/ HasCommittedReplayProtectionEntry(w)
        \/ HasCommittedReplayProtectionEntry(Inner[w])

(* apply_wasm_tx looks for the inner hash in the write log only.  That is  *)
(* enough because the hash of a queued transaction, if it was ever         *)
(* committed, was committed by the last block, whose hashes are all in the *)
(* write log while the next one is executed.                               *)
QueuedNotInAll == \A i \in 1 .. Len(queue) : Inner[queue[i]] \notin all

(* The hash of an inner transaction is never forgotten once committed,     *)
(* while those of wrappers are deleted.                                    *)
InnerHashKept ==
    [][\A x \in Inners : HasCommittedReplayProtectionEntry(x)
                           => HasCommittedReplayProtectionEntry(x)']_vars

(* block_alloc.rs:52 "in theory, we should always have enough space        *)
(* reserved".  What prepare_proposal builds process_proposal accepts:      *)
(* the batch of the queue is never cut short, and no transaction that      *)
(* overflows its bin makes the block too large, whatever is in the mempool *)
(* and also after max_proposal_bytes was changed.                          *)
HonestProposalsAccepted == phase # "refused"

(* A queued transaction leaves the queue: it is executed, skipped as       *)
(* expired or recognised as a replay.  It does not matter what the mempool *)
(* of an honest proposer holds, and none is assumed to be accepted.        *)
Queued(w) == \E i \in 1 .. Len(queue) : queue[i] = w
QueueDrains == \A w \in Wrappers : Queued(w) ~> ~Queued(w)

=============================================================================
