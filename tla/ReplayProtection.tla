-------------------------- MODULE ReplayProtection --------------------------
(***************************************************************************)
(* The hashes that keep a transaction from being applied twice: the        *)
(* replay_protection map of the write log                                  *)
(* (core/src/ledger/storage/write_log.rs) and the two sets it is committed *)
(* to (core/src/ledger/replay_protection.rs): `last`, the hashes of the    *)
(* last block, and `all`, those of the blocks before it.                   *)
(*                                                                         *)
(* The functions that return an error still insert the new request first,  *)
(* and their callers `expect` success: a request that fails stops the node *)
(* (`panicked`).                                                           *)
(***************************************************************************)
CONSTANT Hashes

VARIABLES
    last, all,            \* committed hashes
    replay_protection,    \* requests of the current block, "None" if absent
    panicked              \* an `expect` on a request failed

replay_vars == <<last, all, replay_protection, panicked>>

NoRequests == [h \in Hashes |-> "None"]

ReplayInit ==
    /\ last = {} /\ all = {}
    /\ replay_protection = NoRequests
    /\ panicked = FALSE

(* WriteLog::has_replay_protection_entry(h) == Some(true) *)
HasReplayProtectionEntry(h) == replay_protection[h] \in {"Write", "Finalize"}

(* has_replay_protection_entry of the database *)
HasCommittedReplayProtectionEntry(h) == h \in last \cup all

(* write_tx_hash and delete_tx_hash, as functions of the map *)
WriteTxHash(map, h) == [map EXCEPT ![h] = "Write"]
WriteTxHashFails(map, h) == map[h] # "None"

DeleteTxHash(map, h) == [map EXCEPT ![h] = "Delete"]
DeleteTxHashFails(map, h) == map[h] \in {"Write", "Delete"}

(* finalize_tx_hash for every hash of the last block *)
FinalizeTxHashes ==
    /\ replay_protection' =
         [h \in Hashes |-> IF h \in last THEN "Finalize" ELSE replay_protection[h]]
    /\ panicked' = (panicked \/ \E h \in last : replay_protection[h] # "None")
    /\ UNCHANGED <<last, all>>

(* The requests as commit_block carries them out. *)
Requested(r) == {h \in Hashes : replay_protection[h] = r}

(* Mutant: finalized hashes leave `last` without reaching `all`. *)
CommitHashesDropsFinalized ==
    /\ last' = (last \cup Requested("Write"))
                 \ (Requested("Delete") \cup Requested("Finalize"))
    /\ replay_protection' = NoRequests
    /\ UNCHANGED <<all, panicked>>

CommitHashes ==
    /\ last' = (last \cup Requested("Write"))
                 \ (Requested("Delete") \cup Requested("Finalize"))
    /\ all' = all \cup Requested("Finalize")
    /\ replay_protection' = NoRequests
    /\ UNCHANGED panicked

=============================================================================
