----------------------------- MODULE TxRollback -----------------------------
(***************************************************************************)
(* The pipeline of TxPipeline on a node whose operator may take back the   *)
(* last block (`namadan ledger rollback`, RocksDB::rollback in             *)
(* apps/src/lib/node/ledger/storage/rocksdb.rs).  The block is then        *)
(* executed once more when the node is started again.                      *)
(***************************************************************************)
EXTENDS TxPipeline

VARIABLES
    pred,     \* what the last commit replaced, and the block it committed
    height    \* 0: no block committed, 1: none to take back, 2: one

rollback_vars == <<vars, pred, height>>

RollbackInit ==
    /\ Init
    /\ pred = [queue |-> queue, committed |-> committed, block |-> block]
    /\ height = 0

(* add_block_to_batch saves the metadata it overwrites under pred/. *)
CommitSavingPred ==
    /\ Commit
    /\ pred' = [queue |-> queue, committed |-> committed, block |-> block]
    /\ height' = IF height = 0 THEN 1 ELSE 2

(* Mutant: the hashes go, the subspace diffs are not undone. *)
RollbackKeepsSubspace ==
    /\ height = 2
    /\ phase # "execute"
    /\ height' = 1
    /\ queue' = pred.queue /\ tx_queue' = pred.queue
    /\ replay_protection' = NoRequests
    /\ last' = {}
    /\ phase' = "decided"
    /\ block' = pred.block
    /\ next_tx' = 1
    /\ UNCHANGED <<all, panicked, crashes, pred, committed, applied, charged>>

(* Mutant: pred/tx_queue is not restored. *)
RollbackKeepsQueue ==
    /\ height = 2
    /\ phase # "execute"
    /\ height' = 1
    /\ tx_queue' = queue
    /\ committed' = pred.committed
    /\ applied' = pred.committed.applied
    /\ charged' = pred.committed.charged
    /\ replay_protection' = NoRequests
    /\ phase' = "decided"
    /\ block' = pred.block
    /\ next_tx' = 1
    /\ UNCHANGED <<last, all, queue, panicked, crashes, pred>>

(* The queue and the subspace go back by one block.  The hashes do not:    *)
(* the one key that is deleted from the replay protection column family is *)
(* the prefix itself, under which nothing is stored.  CometBFT has gone    *)
(* back by one block as well and hands the same block over again.          *)
Rollback ==
    /\ height = 2
    /\ phase # "execute"
    /\ height' = 1
    /\ queue' = pred.queue /\ tx_queue' = pred.queue
    /\ committed' = pred.committed
    /\ applied' = pred.committed.applied
    /\ charged' = pred.committed.charged
    /\ replay_protection' = NoRequests
    /\ phase' = "decided"
    /\ block' = pred.block
    /\ next_tx' = 1
    /\ UNCHANGED <<last, all, panicked, crashes, pred>>

RollbackNext ==
    \/ Step /\ UNCHANGED <<pred, height>>
    \/ SkipWrapper /\ UNCHANGED <<pred, height>>
    \/ CommitSavingPred
    \/ Rollback

RollbackSpec == RollbackInit /\ [][RollbackNext]_rollback_vars

=============================================================================
