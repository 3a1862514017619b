------------------------------ MODULE WriteLog ------------------------------
(***************************************************************************)
(* The write log of the ledger (core/src/ledger/storage/write_log.rs) in   *)
(* front of the database, as core/src/ledger/storage/wl_storage.rs reads   *)
(* and commits it.  Three layers of pending modifications sit on top of    *)
(* the database:                                                           *)
(*                                                                         *)
(*   tx_write_log            the running transaction                       *)
(*   tx_precommit_write_log  an earlier part of the same transaction       *)
(*   block_write_log         the accepted transactions of the block, and   *)
(*                           the writes the protocol makes itself          *)
(*   db                      what the last committed block left            *)
(*                                                                         *)
(* A layer is a total function on Keys: Absent stands for a key that the   *)
(* code's HashMap does not hold.  The hashes of the replay protection,     *)
(* which live in the same Rust struct but share no state with these        *)
(* layers, are modelled in ReplayProtection.                               *)
(***************************************************************************)
EXTENDS Integers

CONSTANTS
    Keys,         \* storage keys
    VpKey,        \* VpKey[n]: validity predicate key of the n-th address
    Values,       \* byte strings a key may hold, code hashes included
    NoVal,        \* a key that holds no value
    Events,       \* IBC events a transaction may emit
    MaxAccounts   \* bound: addresses the generator may hand out

Addresses == 1 .. MaxAccounts
NoGen == -1

ASSUME WriteLogAssumption ==
    /\ MaxAccounts \in Nat
    /\ VpKey \in [Addresses -> Keys]
    /\ \A a, b \in Addresses : VpKey[a] = VpKey[b] => a = b
    /\ NoVal \notin Values

VARIABLES
    db,                      \* committed value of every key
    storage_address_gen,     \* Storage::address_gen: addresses handed out so far
    block_write_log,
    tx_precommit_write_log,
    tx_write_log,
    address_gen,             \* the block's copy of the generator, NoGen for None
    ibc_events

logs == <<block_write_log, tx_precommit_write_log, tx_write_log>>
vars == <<db, storage_address_gen, block_write_log, tx_precommit_write_log,
          tx_write_log, address_gen, ibc_events>>

-----------------------------------------------------------------------------
(* StorageModification *)

Mod(kind, v) == [kind |-> kind, value |-> v]
Write(v)       == Mod("Write", v)
InitAccount(v) == Mod("InitAccount", v)
Temp(v)        == Mod("Temp", v)
Delete         == Mod("Delete", NoVal)
Absent         == Mod("Absent", NoVal)

StorageModification ==
    [kind : {"Write", "InitAccount", "Temp"}, value : Values]
        \cup {Delete, Absent}

EmptyLog == [k \in Keys |-> Absent]
VpKeys   == {VpKey[a] : a \in Addresses}
OptValues == Values \cup {NoVal}

(* HashMap::extend: the entries of `log` replace those of `base`. *)
Extend(base, log) ==
    [k \in Keys |-> IF log[k] = Absent THEN base[k] ELSE log[k]]

(* HashMap::insert *)
Insert(log, k, m) == [log EXCEPT ![k] = m]

(* What a reader of a modification over `old` obtains. *)
Applied(m, old) == IF m = Absent THEN old ELSE m.value

-----------------------------------------------------------------------------
(* Reads *)

(* WriteLog::read: the transaction first, then its precommitted part, then *)
(* the block.                                                              *)
ReadLog(k) ==
    IF tx_write_log[k] # Absent THEN tx_write_log[k]
    ELSE IF tx_precommit_write_log[k] # Absent THEN tx_precommit_write_log[k]
    ELSE block_write_log[k]

(* WriteLog::read_pre: the state before the transaction. *)
ReadPreLog(k) == block_write_log[k]

(* StorageRead::read_bytes of WlStorage: the log first, then the database. *)
ReadBytes(k) == Applied(ReadLog(k), db[k])

(* The state before the running transaction, as validity predicates see it. *)
ReadPre(k) == Applied(ReadPreLog(k), db[k])

(* What would be read if the running part were dropped and the             *)
(* precommitted part kept.                                                 *)
ReadPrecommit(k) ==
    Applied(IF tx_precommit_write_log[k] # Absent
              THEN tx_precommit_write_log[k] ELSE block_write_log[k], db[k])

(* StorageRead::has_key *)
HasKey(k) == ReadBytes(k) # NoVal

(* Mutant: the block's entries are collected last and win. *)
IterPostBlockLast ==
    LET merged == Extend(tx_write_log, block_write_log)
    IN  {k \in Keys : Applied(merged[k], db[k]) # NoVal}

(* StorageRead::iter_prefix over all of Keys: iter_prefix_post collects     *)
(* the block's entries and then the transaction's, and PrefixIter::next    *)
(* merges them over the database.                                          *)
IterPost ==
    LET merged == Extend(block_write_log, tx_write_log)
    IN  {k \in Keys : Applied(merged[k], db[k]) # NoVal}

(* iter_prefix_pre, the same without the transaction's entries. *)
IterPre == {k \in Keys : Applied(block_write_log[k], db[k]) # NoVal}

-----------------------------------------------------------------------------
(* Initial state: a database at some height, an empty write log. *)

Init ==
    /\ db \in [Keys -> OptValues]
    /\ \A a \in Addresses : db[VpKey[a]] = NoVal
    /\ storage_address_gen = 0
    /\ block_write_log = EmptyLog
    /\ tx_precommit_write_log = EmptyLog
    /\ tx_write_log = EmptyLog
    /\ address_gen = NoGen
    /\ ibc_events = {}

-----------------------------------------------------------------------------
(* Modifications made by the running transaction.  The insertion happens   *)
(* before the previous entry is examined, so the entry is replaced even    *)
(* when the call returns an error; WriteFails and its siblings say when it *)
(* does.                                                                   *)

tx_only(log) ==
    /\ tx_write_log' = log
    /\ UNCHANGED <<db, storage_address_gen, block_write_log,
                   tx_precommit_write_log, address_gen, ibc_events>>

(* UpdateVpOfNewAccount, UpdateTemporaryValue *)
WriteFails(k) == tx_write_log[k].kind \in {"InitAccount", "Temp"}

TxWrite(k, v) == tx_only(Insert(tx_write_log, k, Write(v)))

(* WriteTempAfterDelete, UpdateVpOfNewAccount *)
WriteTempFails(k) == tx_write_log[k].kind \in {"Delete", "InitAccount"}

TxWriteTemp(k, v) == tx_only(Insert(tx_write_log, k, Temp(v)))

(* DeleteVp: the key itself is checked before the insertion, an entry that *)
(* initialises an account after it.                                        *)
DeleteFails(k) == k \in VpKeys \/ tx_write_log[k].kind = "InitAccount"

(* Mutant: the key is not checked. *)
TxDeleteUnchecked(k) == tx_only(Insert(tx_write_log, k, Delete))

TxDelete(k) ==
    tx_only(IF k \in VpKeys THEN tx_write_log
                            ELSE Insert(tx_write_log, k, Delete))

(* init_account: the generator is copied from the storage the first time a *)
(* block uses it, and the copy moves on whatever becomes of the            *)
(* transaction.                                                            *)
NextAddress ==
    (IF address_gen = NoGen THEN storage_address_gen ELSE address_gen) + 1

TxInitAccount(v) ==
    /\ NextAddress <= MaxAccounts
    /\ address_gen' = NextAddress
    /\ tx_write_log' = Insert(tx_write_log, VpKey[NextAddress], InitAccount(v))
    /\ UNCHANGED <<db, storage_address_gen, block_write_log,
                   tx_precommit_write_log, ibc_events>>

EmitIbcEvent(e) ==
    /\ ibc_events' = ibc_events \cup {e}
    /\ UNCHANGED <<db, storage_address_gen, logs, address_gen>>

TakeIbcEvents ==
    /\ ibc_events' = {}
    /\ UNCHANGED <<db, storage_address_gen, logs, address_gen>>

-----------------------------------------------------------------------------
(* The end of a transaction, or of a part of it. *)

PrecommitTx ==
    /\ tx_precommit_write_log' = Extend(tx_precommit_write_log, tx_write_log)
    /\ tx_write_log' = EmptyLog
    /\ UNCHANGED <<db, storage_address_gen, block_write_log, address_gen,
                   ibc_events>>

(* `retain` of commit_tx: temporary values go no further. *)
WithoutTemp(log) ==
    [k \in Keys |-> IF log[k].kind = "Temp" THEN Absent ELSE log[k]]

(* Mutant: temporary values are dropped before the running part is         *)
(* precommitted.                                                           *)
CommitTxRetainFirst ==
    /\ block_write_log' =
         Extend(block_write_log,
                Extend(WithoutTemp(tx_precommit_write_log), tx_write_log))
    /\ tx_precommit_write_log' = EmptyLog
    /\ tx_write_log' = EmptyLog
    /\ ibc_events' = {}
    /\ UNCHANGED <<db, storage_address_gen, address_gen>>

(* Mutant: the precommitted part is cleared and not committed. *)
CommitTxWithoutPrecommit ==
    /\ block_write_log' = Extend(block_write_log, WithoutTemp(tx_write_log))
    /\ tx_precommit_write_log' = EmptyLog
    /\ tx_write_log' = EmptyLog
    /\ ibc_events' = {}
    /\ UNCHANGED <<db, storage_address_gen, address_gen>>

CommitTx ==
    /\ block_write_log' =
         Extend(block_write_log,
                WithoutTemp(Extend(tx_precommit_write_log, tx_write_log)))
    /\ tx_precommit_write_log' = EmptyLog
    /\ tx_write_log' = EmptyLog
    /\ ibc_events' = {}
    /\ UNCHANGED <<db, storage_address_gen, address_gen>>

(* The IBC events stay. *)
DropTx ==
    /\ tx_precommit_write_log' = EmptyLog
    /\ tx_write_log' = EmptyLog
    /\ UNCHANGED <<db, storage_address_gen, block_write_log, address_gen,
                   ibc_events>>

DropTxKeepPrecommit == tx_only(EmptyLog)

-----------------------------------------------------------------------------
(* Writes of the protocol itself go to the block's layer; write_bytes and   *)
(* delete of WlStorage discard the error that protocol_write and           *)
(* protocol_delete return after the insertion.                             *)

block_only(log) ==
    /\ block_write_log' = log
    /\ UNCHANGED <<db, storage_address_gen, tx_precommit_write_log,
                   tx_write_log, address_gen, ibc_events>>

ProtocolWrite(k, v) == block_only(Insert(block_write_log, k, Write(v)))

(* Mutant: the key is not checked. *)
ProtocolDeleteUnchecked(k) == block_only(Insert(block_write_log, k, Delete))

ProtocolDelete(k) ==
    block_only(IF k \in VpKeys THEN block_write_log
                               ELSE Insert(block_write_log, k, Delete))

(* Mutant: the generator is taken even when the block used none. *)
CommitBlockTakesNoGen ==
    /\ db' = [k \in Keys |-> IF block_write_log[k].kind = "Temp" THEN db[k]
                             ELSE Applied(block_write_log[k], db[k])]
    /\ storage_address_gen' = address_gen
    /\ block_write_log' = EmptyLog
    /\ address_gen' = NoGen
    /\ UNCHANGED <<tx_precommit_write_log, tx_write_log, ibc_events>>

(* commit_block: one batch, written to the database at once.  Only Write,  *)
(* InitAccount and Delete entries reach it.                                *)
CommitBlock ==
    /\ db' = [k \in Keys |-> IF block_write_log[k].kind = "Temp" THEN db[k]
                             ELSE Applied(block_write_log[k], db[k])]
    /\ storage_address_gen' =
         IF address_gen = NoGen THEN storage_address_gen ELSE address_gen
    /\ block_write_log' = EmptyLog
    /\ address_gen' = NoGen
    /\ UNCHANGED <<tx_precommit_write_log, tx_write_log, ibc_events>>

(* The node stops and starts again: the write log is memory, the database  *)
(* is not (Shell::new builds WriteLog::default()).                         *)
Restart ==
    /\ block_write_log' = EmptyLog
    /\ tx_precommit_write_log' = EmptyLog
    /\ tx_write_log' = EmptyLog
    /\ address_gen' = NoGen
    /\ ibc_events' = {}
    /\ UNCHANGED <<db, storage_address_gen>>

-----------------------------------------------------------------------------
Next ==
    \/ \E k \in Keys, v \in Values :
         \/ TxWrite(k, v)
         \/ TxWriteTemp(k, v)
         \/ ProtocolWrite(k, v)
    \/ \E k \in Keys : TxDelete(k) \/ ProtocolDelete(k)
    \/ \E v \in Values : TxInitAccount(v)
    \/ \E e \in Events : EmitIbcEvent(e)
    \/ TakeIbcEvents
    \/ PrecommitTx
    \/ CommitTx
    \/ DropTx
    \/ DropTxKeepPrecommit
    \/ CommitBlock
    \/ Restart

Spec == Init /\ [][Next]_vars

-----------------------------------------------------------------------------
(* Properties *)

Log == [Keys -> StorageModification]

(* Type invariant. *)
TypeOK ==
    /\ db \in [Keys -> OptValues]
    /\ storage_address_gen \in 0 .. MaxAccounts
    /\ block_write_log \in Log
    /\ tx_precommit_write_log \in Log
    /\ tx_write_log \in Log
    /\ address_gen \in {NoGen} \cup (0 .. MaxAccounts)
    /\ ibc_events \subseteq Events

(* A temporary value never reaches the block's layer, whichever of the     *)
(* transaction's two layers it was written to and whatever it replaced     *)
(* there (StorageModification::Temp, "will be never written to the         *)
(* storage").                                                              *)
NoTempInBlock == \A k \in Keys : block_write_log[k].kind # "Temp"

(* No layer ever holds a deletion of a validity predicate: the reader in   *)
(* check_address_existence takes any entry for a validity predicate as     *)
(* proof that the account exists.                                          *)
NoVpDeletion ==
    \A k \in VpKeys :
        /\ tx_write_log[k].kind # "Delete"
        /\ tx_precommit_write_log[k].kind # "Delete"
        /\ block_write_log[k].kind # "Delete"

(* Iterating over the keys and reading them one by one agree as long as no *)
(* part of the transaction is precommitted: the iterator lists exactly the *)
(* keys that hold a value, deletions and temporary values included.        *)
IterAgreesWithRead ==
    tx_precommit_write_log = EmptyLog => IterPost = {k \in Keys : HasKey(k)}

(* A validity predicate, once committed, is never removed from the         *)
(* database by any sequence of transactions, drops, blocks and restarts.   *)
VpNeverRemoved ==
    [][\A k \in VpKeys : db[k] # NoVal => db'[k] # NoVal]_vars

(* The write log implements TxStore: whatever the order of calls, reads    *)
(* through the layers behave as a store with one transaction and one       *)
(* savepoint in it, commits are all or nothing apart from temporary        *)
(* values, and a restart falls back to the last committed block.           *)
TempIn(log, below) ==
    {k \in Keys : \/ log[k].kind = "Temp"
                  \/ log[k] = Absent /\ below[k].kind = "Temp"}

Store == INSTANCE TxStore WITH
    pre     <- [k \in Keys |-> ReadPre(k)],
    mid     <- [k \in Keys |-> ReadPrecommit(k)],
    view    <- [k \in Keys |-> ReadBytes(k)],
    midtemp <- TempIn(tx_precommit_write_log, EmptyLog),
    temp    <- TempIn(tx_write_log, tx_precommit_write_log)

ImplementsTxStore == Store!Spec

=============================================================================
