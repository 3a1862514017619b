--------------------------- MODULE WriteLogProofs ---------------------------
(***************************************************************************)
(* Proofs about WriteLog, for every set of keys, values and events and any *)
(* number of addresses.                                                    *)
(***************************************************************************)
EXTENDS WriteLog, TLAPS

-----------------------------------------------------------------------------
(* Facts about the operators on layers. *)

(* Absent differs from every modification with content, and every          *)
(* constructor builds a StorageModification (write_log.rs, the enum).      *)
LEMMA ModFacts ==
    /\ Delete \in StorageModification
    /\ Absent \in StorageModification
    /\ \A v \in Values : /\ Write(v) \in StorageModification
                         /\ Temp(v) \in StorageModification
                         /\ InitAccount(v) \in StorageModification
    BY DEF Delete, Absent, Write, Temp, InitAccount, Mod, StorageModification

(* The empty layer is a layer. *)
LEMMA EmptyLogType == EmptyLog \in Log
    BY ModFacts DEF EmptyLog, Log

(* insert on a layer gives a layer. *)
LEMMA InsertType ==
    ASSUME NEW log \in Log, NEW k \in Keys, NEW m \in StorageModification
    PROVE  Insert(log, k, m) \in Log
    BY DEF Insert, Log

(* extend of two layers gives a layer. *)
LEMMA ExtendType ==
    ASSUME NEW base \in Log, NEW log \in Log
    PROVE  Extend(base, log) \in Log
    BY DEF Extend, Log

(* Dropping the temporary values gives a layer. *)
LEMMA WithoutTempType ==
    ASSUME NEW log \in Log
    PROVE  WithoutTemp(log) \in Log
    BY ModFacts DEF WithoutTemp, Log

(* Reading a modification over an optional value gives an optional value. *)
LEMMA AppliedType ==
    ASSUME NEW m \in StorageModification, NEW old \in OptValues
    PROVE  Applied(m, old) \in OptValues
    BY DEF Applied, StorageModification, OptValues, Delete, Absent, Mod

-----------------------------------------------------------------------------
(* Type correctness. *)

(* The initial logs are well-typed. *)
LEMMA TypeInit == Init => TypeOK
    BY EmptyLogType, WriteLogAssumption DEF Init, TypeOK, NoGen

(* Every operation of the write log keeps the types. *)
LEMMA TypeNext == TypeOK /\ [Next]_vars => TypeOK'
<1> SUFFICES ASSUME TypeOK, [Next]_vars PROVE TypeOK'
    OBVIOUS
<1> USE DEF TypeOK
<1>1. ASSUME NEW k \in Keys, NEW v \in Values, TxWrite(k, v) PROVE TypeOK'
    BY <1>1, ModFacts, InsertType DEF TxWrite, tx_only
<1>2. ASSUME NEW k \in Keys, NEW v \in Values, TxWriteTemp(k, v) PROVE TypeOK'
    BY <1>2, ModFacts, InsertType DEF TxWriteTemp, tx_only
<1>3. ASSUME NEW k \in Keys, NEW v \in Values, ProtocolWrite(k, v) PROVE TypeOK'
    BY <1>3, ModFacts, InsertType DEF ProtocolWrite, block_only
<1>4. ASSUME NEW k \in Keys, TxDelete(k) PROVE TypeOK'
    BY <1>4, ModFacts, InsertType DEF TxDelete, tx_only
<1>5. ASSUME NEW k \in Keys, ProtocolDelete(k) PROVE TypeOK'
    BY <1>5, ModFacts, InsertType DEF ProtocolDelete, block_only
<1>6. ASSUME NEW v \in Values, TxInitAccount(v) PROVE TypeOK'
  <2>1. NextAddress \in Addresses
      BY <1>6, WriteLogAssumption DEF TxInitAccount, NextAddress, NoGen, Addresses
  <2>2. tx_write_log' \in Log
      BY <1>6, <2>1, ModFacts, InsertType, WriteLogAssumption DEF TxInitAccount
  <2> QED
      BY <1>6, <2>1, <2>2 DEF TxInitAccount, Addresses
<1>7. ASSUME NEW e \in Events, EmitIbcEvent(e) PROVE TypeOK'
    BY <1>7 DEF EmitIbcEvent, logs
<1>8. CASE TakeIbcEvents
    BY <1>8 DEF TakeIbcEvents, logs
<1>9. CASE PrecommitTx
    BY <1>9, EmptyLogType, ExtendType DEF PrecommitTx
<1>10. CASE CommitTx
    BY <1>10, EmptyLogType, ExtendType, WithoutTempType DEF CommitTx
<1>11. CASE DropTx
    BY <1>11, EmptyLogType DEF DropTx
<1>12. CASE DropTxKeepPrecommit
    BY <1>12, EmptyLogType DEF DropTxKeepPrecommit, tx_only
<1>13. CASE CommitBlock
  <2>1. db' \in [Keys -> OptValues]
      BY <1>13, AppliedType DEF CommitBlock, Log
  <2> QED
      BY <1>13, <2>1, EmptyLogType, WriteLogAssumption DEF CommitBlock, NoGen
<1>14. CASE Restart
    BY <1>14, EmptyLogType DEF Restart
<1>15. CASE UNCHANGED vars
    BY <1>15 DEF vars
<1> QED
    BY <1>1, <1>2, <1>3, <1>4, <1>5, <1>6, <1>7, <1>8, <1>9, <1>10, <1>11,
       <1>12, <1>13, <1>14, <1>15 DEF Next

(* Every reachable state of the write log and the database is well typed:  *)
(* in particular the address generator never leaves its range, across      *)
(* dropped transactions, committed blocks and restarts.                    *)
THEOREM TypeCorrect == Spec => []TypeOK
    BY TypeInit, TypeNext, PTL DEF Spec

-----------------------------------------------------------------------------
(* Temporary values and validity predicates. *)

(* What the two invariants say of one layer. *)
NoVpDelete(log) == \A k \in VpKeys : log[k].kind # "Delete"
NoTemp(log) == \A k \in Keys : log[k].kind # "Temp"

(* Extending a layer preserves both, and dropping temporary values makes   *)
(* the second one true.                                                    *)
LEMMA LayerFacts ==
    /\ VpKeys \subseteq Keys
    /\ \A base, log \in Log :
         /\ NoVpDelete(base) /\ NoVpDelete(log) => NoVpDelete(Extend(base, log))
         /\ NoTemp(base) /\ NoTemp(log) => NoTemp(Extend(base, log))
    /\ \A log \in Log : /\ NoTemp(WithoutTemp(log))
                        /\ NoVpDelete(log) => NoVpDelete(WithoutTemp(log))
    /\ NoVpDelete(EmptyLog) /\ NoTemp(EmptyLog)
<1>1. VpKeys \subseteq Keys
    BY WriteLogAssumption DEF VpKeys
<1> QED
    BY <1>1 DEF NoVpDelete, NoTemp, Extend, WithoutTemp, EmptyLog, Absent, Mod, Log

(* Inserting a modification preserves them unless it is the forbidden one. *)
LEMMA InsertFacts ==
    ASSUME NEW log \in Log, NEW k \in Keys, NEW m \in StorageModification
    PROVE  /\ NoVpDelete(log) /\ (m.kind # "Delete" \/ k \notin VpKeys)
                => NoVpDelete(Insert(log, k, m))
           /\ NoTemp(log) /\ m.kind # "Temp" => NoTemp(Insert(log, k, m))
    BY LayerFacts DEF NoVpDelete, NoTemp, Insert, Log

(* The kinds of the constructors. *)
LEMMA KindFacts ==
    /\ Delete.kind = "Delete"
    /\ \A v \in Values : /\ Write(v).kind = "Write"
                         /\ Temp(v).kind = "Temp"
                         /\ InitAccount(v).kind = "InitAccount"
    BY DEF Delete, Write, Temp, InitAccount, Mod

(* NoVpDeletion says it of the three layers at once; the proof carries it  *)
(* together with NoTempInBlock.                                            *)
LayerInv ==
    /\ NoTemp(block_write_log)
    /\ NoVpDelete(block_write_log)
    /\ NoVpDelete(tx_precommit_write_log)
    /\ NoVpDelete(tx_write_log)

(* The empty layers hold neither a temporary value nor a deletion. *)
LEMMA LayerInvInit == Init => LayerInv
    BY LayerFacts DEF Init, LayerInv

(* Every operation keeps temporary values out of the block's layer and the *)
(* deletion of a validity predicate out of all layers.                     *)
LEMMA LayerInvNext == TypeOK /\ LayerInv /\ [Next]_vars => LayerInv'
<1> SUFFICES ASSUME TypeOK, LayerInv, [Next]_vars PROVE LayerInv'
    OBVIOUS
<1> USE DEF LayerInv
<1>1. ASSUME NEW k \in Keys, NEW v \in Values, TxWrite(k, v) PROVE LayerInv'
    BY <1>1, ModFacts, KindFacts, InsertFacts DEF TxWrite, tx_only, TypeOK
<1>2. ASSUME NEW k \in Keys, NEW v \in Values, TxWriteTemp(k, v) PROVE LayerInv'
    BY <1>2, ModFacts, KindFacts, InsertFacts DEF TxWriteTemp, tx_only, TypeOK
<1>3. ASSUME NEW k \in Keys, NEW v \in Values, ProtocolWrite(k, v) PROVE LayerInv'
    BY <1>3, ModFacts, KindFacts, InsertFacts DEF ProtocolWrite, block_only, TypeOK
<1>4. ASSUME NEW k \in Keys, TxDelete(k) PROVE LayerInv'
    BY <1>4, ModFacts, KindFacts, InsertFacts DEF TxDelete, tx_only, TypeOK
<1>5. ASSUME NEW k \in Keys, ProtocolDelete(k) PROVE LayerInv'
    BY <1>5, ModFacts, KindFacts, InsertFacts DEF ProtocolDelete, block_only, TypeOK
<1>6. ASSUME NEW v \in Values, TxInitAccount(v) PROVE LayerInv'
  <2>1. VpKey[NextAddress] \in Keys
      BY <1>6, WriteLogAssumption
         DEF TxInitAccount, NextAddress, NoGen, Addresses, TypeOK
  <2> QED
      BY <1>6, <2>1, ModFacts, KindFacts, InsertFacts DEF TxInitAccount, TypeOK
<1>7. ASSUME NEW e \in Events, EmitIbcEvent(e) PROVE LayerInv'
    BY <1>7 DEF EmitIbcEvent, logs
<1>8. CASE TakeIbcEvents
    BY <1>8 DEF TakeIbcEvents, logs
<1>9. CASE PrecommitTx
    BY <1>9, LayerFacts DEF PrecommitTx, TypeOK
<1>10. CASE CommitTx
  <2>1. Extend(tx_precommit_write_log, tx_write_log) \in Log
      BY ExtendType DEF TypeOK
  <2>2. NoVpDelete(Extend(tx_precommit_write_log, tx_write_log))
      BY LayerFacts DEF TypeOK
  <2> QED
      BY <1>10, <2>1, <2>2, WithoutTempType, LayerFacts DEF CommitTx, TypeOK
<1>11. CASE DropTx
    BY <1>11, LayerFacts DEF DropTx
<1>12. CASE DropTxKeepPrecommit
    BY <1>12, LayerFacts DEF DropTxKeepPrecommit, tx_only
<1>13. CASE CommitBlock
    BY <1>13, LayerFacts DEF CommitBlock
<1>14. CASE Restart
    BY <1>14, LayerFacts DEF Restart
<1>15. CASE UNCHANGED vars
    BY <1>15 DEF vars
<1> QED
    BY <1>1, <1>2, <1>3, <1>4, <1>5, <1>6, <1>7, <1>8, <1>9, <1>10, <1>11,
       <1>12, <1>13, <1>14, <1>15 DEF Next

(* A temporary value never reaches the block's layer (write_log.rs,        *)
(* commit_tx), for any keys, values and order of calls.                    *)
THEOREM TempNeverInBlock == Spec => []NoTempInBlock
<1>1. LayerInv => NoTempInBlock
    BY DEF LayerInv, NoTemp, NoTempInBlock
<1> QED
    BY <1>1, LayerInvInit, LayerInvNext, TypeCorrect, PTL DEF Spec

(* No layer ever holds the deletion of a validity predicate (write_log.rs, *)
(* delete and protocol_delete), which is what check_address_existence in   *)
(* shared/src/vm/host_env.rs relies on.                                    *)
THEOREM VpDeletionNever == Spec => []NoVpDeletion
<1>1. LayerInv => NoVpDeletion
    BY DEF LayerInv, NoVpDelete, NoVpDeletion
<1> QED
    BY <1>1, LayerInvInit, LayerInvNext, TypeCorrect, PTL DEF Spec

(* A committed validity predicate is never removed from the database. *)
THEOREM VpStays == Spec => VpNeverRemoved
<1>1. TypeOK /\ LayerInv /\ [Next]_vars
        => [\A k \in VpKeys : db[k] # NoVal => db'[k] # NoVal]_vars
  <2> SUFFICES ASSUME TypeOK, LayerInv, [Next]_vars, NEW k \in VpKeys,
                      db[k] # NoVal
               PROVE  db'[k] # NoVal
      OBVIOUS
  <2>1. CASE CommitBlock
    <3>1. block_write_log[k] \in StorageModification /\ k \in Keys
        BY LayerFacts DEF TypeOK, Log
    <3>2. block_write_log[k].kind # "Delete"
        BY DEF LayerInv, NoVpDelete
    <3>3. Applied(block_write_log[k], db[k]) # NoVal
        BY <3>1, <3>2, WriteLogAssumption
           DEF Applied, StorageModification, Delete, Absent, Mod
    <3> QED
        BY <2>1, <3>1, <3>3 DEF CommitBlock
  <2>2. CASE ~CommitBlock
    <3>1. db' = db
        BY <2>2 DEF Next, vars, logs, tx_only, block_only, TxWrite, TxWriteTemp,
             TxDelete, TxInitAccount, EmitIbcEvent, TakeIbcEvents, PrecommitTx,
             CommitTx, DropTx, DropTxKeepPrecommit, ProtocolWrite,
             ProtocolDelete, Restart
    <3> QED
        BY <3>1
  <2> QED
      BY <2>1, <2>2
<1> QED
    BY <1>1, LayerInvInit, LayerInvNext, TypeCorrect, PTL DEF Spec, VpNeverRemoved

-----------------------------------------------------------------------------
(* The write log implements TxStore. *)

(* The refinement mapping, by name. *)
Pre     == [k \in Keys |-> ReadPre(k)]
Mid     == [k \in Keys |-> ReadPrecommit(k)]
View    == [k \in Keys |-> ReadBytes(k)]
MidTemp == TempIn(tx_precommit_write_log, EmptyLog)
Temps   == TempIn(tx_write_log, tx_precommit_write_log)

(* A modification of the running transaction changes what it reads at that *)
(* key only.                                                               *)
LEMMA TxInsertRefines ==
    ASSUME TypeOK, NEW k \in Keys, NEW m \in StorageModification, m # Absent,
           tx_write_log' = Insert(tx_write_log, k, m),
           UNCHANGED <<db, block_write_log, tx_precommit_write_log>>
    PROVE  Store!Modify(k)
<1> USE DEF TypeOK, Log, Insert
<1>1. m.value \in Values \cup {NoVal}
    BY DEF StorageModification, Delete, Absent, Mod
<1>2. View' = [View EXCEPT ![k] = m.value]
    BY DEF View, ReadBytes, ReadLog, Applied
<1>3. Temps' \in {Temps \cup {k}, Temps \ {k}}
  <2>1. CASE m.kind = "Temp"
    <3>1. Temps' = Temps \cup {k}
        BY <2>1 DEF Temps, TempIn
    <3> QED
        BY <3>1
  <2>2. CASE m.kind # "Temp"
    <3>1. Temps' = Temps \ {k}
        BY <2>2 DEF Temps, TempIn
    <3> QED
        BY <3>1
  <2> QED
      BY <2>1, <2>2
<1>4. Pre' = Pre /\ Mid' = Mid /\ MidTemp' = MidTemp
    BY DEF Pre, Mid, MidTemp, ReadPre, ReadPreLog, ReadPrecommit, TempIn, EmptyLog
<1> QED
    BY <1>1, <1>2, <1>3, <1>4 DEF Store!Modify, View, Temps, Pre, Mid, MidTemp

(* A modification the protocol makes is read by a transaction that has no  *)
(* entry of its own for the key.                                           *)
LEMMA BlockInsertRefines ==
    ASSUME TypeOK, NEW k \in Keys, NEW m \in StorageModification, m # Absent,
           block_write_log' = Insert(block_write_log, k, m),
           UNCHANGED <<db, tx_write_log, tx_precommit_write_log>>
    PROVE  Store!ProtocolModify(k)
<1> USE DEF TypeOK, Log, Insert
<1>1. m.value \in Values \cup {NoVal}
    BY DEF StorageModification, Delete, Absent, Mod
<1>2. Pre' = [Pre EXCEPT ![k] = m.value]
    BY DEF Pre, ReadPre, ReadPreLog, Applied
<1>3. Mid' \in {Mid, [Mid EXCEPT ![k] = m.value]}
  <2>1. CASE tx_precommit_write_log[k] = Absent
    <3>1. Mid' = [Mid EXCEPT ![k] = m.value]
        BY <2>1 DEF Mid, ReadPrecommit, Applied
    <3> QED
        BY <3>1
  <2>2. CASE tx_precommit_write_log[k] # Absent
    <3>1. Mid' = Mid
        BY <2>2 DEF Mid, ReadPrecommit, Applied
    <3> QED
        BY <3>1
  <2> QED
      BY <2>1, <2>2
<1>4. /\ View' \in {View, [View EXCEPT ![k] = m.value]}
      /\ k \in Temps => View' = View
  <2>1. CASE tx_write_log[k] = Absent /\ tx_precommit_write_log[k] = Absent
    <3>1. View' = [View EXCEPT ![k] = m.value]
        BY <2>1 DEF View, ReadBytes, ReadLog, Applied
    <3>2. k \notin Temps
        BY <2>1 DEF Temps, TempIn, Absent, Mod
    <3> QED
        BY <3>1, <3>2
  <2>2. CASE ~(tx_write_log[k] = Absent /\ tx_precommit_write_log[k] = Absent)
    <3>1. View' = View
        BY <2>2 DEF View, ReadBytes, ReadLog, Applied
    <3> QED
        BY <3>1
  <2> QED
      BY <2>1, <2>2
<1>5. Temps' = Temps /\ MidTemp' = MidTemp
    BY DEF Temps, MidTemp, TempIn, EmptyLog
<1> QED
    BY <1>1, <1>2, <1>3, <1>4, <1>5
       DEF Store!ProtocolModify, View, Temps, Pre, Mid, MidTemp

(* A transaction with empty layers reads the state before it. *)
NoPrecommit == tx_precommit_write_log = EmptyLog
NoTx        == tx_write_log = EmptyLog
MidIsPre    == Mid = Pre /\ MidTemp = {}
ViewIsMid   == View = Mid /\ Temps = MidTemp

(* Reading through an empty layer is reading the layer below. *)
LEMMA EmptyTxReads == (NoPrecommit => MidIsPre) /\ (NoTx => ViewIsMid)
<1>1. \A k \in Keys : EmptyLog[k] = Absent
    BY DEF EmptyLog
<1>2. Absent.kind # "Temp"
    BY DEF Absent, Mod
<1>3. ASSUME NoPrecommit PROVE MidIsPre
    BY <1>1, <1>2, <1>3 DEF NoPrecommit, MidIsPre, Mid, Pre, MidTemp,
                            ReadPrecommit, ReadPre, ReadPreLog, Applied, TempIn
<1>4. ASSUME NoTx PROVE ViewIsMid
    BY <1>1, <1>2, <1>4 DEF NoTx, ViewIsMid, View, Mid, Temps, MidTemp,
                            ReadBytes, ReadLog, ReadPrecommit, Applied, TempIn
<1> QED
    BY <1>3, <1>4

(* The same of the next state. *)
LEMMA EmptyTxReadsNext == (NoPrecommit' => MidIsPre') /\ (NoTx' => ViewIsMid')
    BY EmptyTxReads, PTL

(* The end of a transaction maps to the end of a transaction. *)
LEMMA PrecommitRefines == TypeOK /\ PrecommitTx => Store!Savepoint
<1> SUFFICES ASSUME TypeOK, PrecommitTx PROVE Store!Savepoint
    OBVIOUS
<1>1. Mid' = View
    BY DEF PrecommitTx, Mid, View, ReadPrecommit, ReadBytes, ReadLog, Extend, Applied,
           TypeOK, Log
<1>2. MidTemp' = Temps
    BY DEF PrecommitTx, MidTemp, Temps, TempIn, Extend, EmptyLog, Absent, Mod, TypeOK, Log
<1>3. Pre' = Pre /\ db' = db
    BY DEF PrecommitTx, Pre, ReadPre, ReadPreLog
<1>4. View' = Mid' /\ Temps' = MidTemp'
  <2>1. NoTx'
      BY DEF PrecommitTx, NoTx, EmptyLog
  <2> QED
      BY <2>1, EmptyTxReadsNext DEF ViewIsMid
<1> QED
    BY <1>1, <1>2, <1>3, <1>4 DEF Store!Savepoint, View, Temps, Pre, Mid, MidTemp

(* commit_tx makes what the transaction reads, but for temporary values,   *)
(* the state before the next transaction.                                  *)
LEMMA CommitRefines == TypeOK /\ CommitTx => Store!Commit
<1> SUFFICES ASSUME TypeOK, CommitTx PROVE Store!Commit
    OBVIOUS
<1>1. Pre' = [k \in Keys |-> IF k \in Temps THEN Pre[k] ELSE View[k]]
  <2> SUFFICES ASSUME NEW k \in Keys
               PROVE  ReadPre(k)' = IF k \in Temps THEN Pre[k] ELSE View[k]
      BY DEF Pre
  <2> DEFINE top == IF tx_write_log[k] = Absent
                      THEN tx_precommit_write_log[k] ELSE tx_write_log[k]
  <2>1. k \in Temps <=> top.kind = "Temp"
      BY DEF Temps, TempIn, Absent, Mod
  <2>2. block_write_log'[k] =
          IF top.kind = "Temp" \/ top = Absent THEN block_write_log[k] ELSE top
      BY DEF CommitTx, Extend, WithoutTemp, TypeOK, Log
  <2>3. View[k] = IF top = Absent THEN Pre[k] ELSE top.value
      BY DEF View, Pre, ReadBytes, ReadLog, ReadPre, ReadPreLog, Applied
  <2>4. ReadPre(k)' = Applied(block_write_log'[k], db[k])
      BY DEF ReadPre, ReadPreLog, CommitTx, Applied
  <2>5. Pre[k] = Applied(block_write_log[k], db[k])
      BY DEF Pre, ReadPre, ReadPreLog
  <2> HIDE DEF top
  <2> QED
      BY <2>1, <2>2, <2>3, <2>4, <2>5 DEF Applied
<1>2. Mid' = Pre' /\ MidTemp' = {} /\ View' = Mid' /\ Temps' = MidTemp'
  <2>1. NoTx' /\ NoPrecommit'
      BY DEF CommitTx, NoTx, NoPrecommit, EmptyLog
  <2> QED
      BY <2>1, EmptyTxReadsNext DEF ViewIsMid, MidIsPre
<1>3. db' = db
    BY DEF CommitTx
<1> QED
    BY <1>1, <1>2, <1>3 DEF Store!Commit, View, Temps, Pre, Mid, MidTemp

(* drop_tx goes back to the state before the transaction,                  *)
(* drop_tx_keep_precommit to the savepoint.                                *)
LEMMA DropRefines ==
    /\ TypeOK /\ DropTx => Store!Abort
    /\ TypeOK /\ DropTxKeepPrecommit => Store!RollbackToSavepoint
<1>1. ASSUME TypeOK, DropTx PROVE Store!Abort
  <2>1. NoTx' /\ NoPrecommit'
      BY <1>1 DEF DropTx, NoTx, NoPrecommit, EmptyLog
  <2>2. Mid' = Pre' /\ MidTemp' = {} /\ View' = Mid' /\ Temps' = MidTemp'
      BY <2>1, EmptyTxReadsNext DEF ViewIsMid, MidIsPre
  <2>3. Pre' = Pre /\ db' = db
      BY <1>1 DEF DropTx, Pre, ReadPre, ReadPreLog
  <2> QED
      BY <2>2, <2>3 DEF Store!Abort, View, Temps, Pre, Mid, MidTemp
<1>2. ASSUME TypeOK, DropTxKeepPrecommit PROVE Store!RollbackToSavepoint
  <2>1. NoTx'
      BY <1>2 DEF DropTxKeepPrecommit, tx_only, NoTx, EmptyLog
  <2>2. View' = Mid' /\ Temps' = MidTemp'
      BY <2>1, EmptyTxReadsNext DEF ViewIsMid
  <2>3. Pre' = Pre /\ db' = db /\ Mid' = Mid /\ MidTemp' = MidTemp
      BY <1>2 DEF DropTxKeepPrecommit, tx_only, Pre, Mid, MidTemp, ReadPre, ReadPreLog,
                  ReadPrecommit, TempIn, EmptyLog
  <2> QED
      BY <2>2, <2>3 DEF Store!RollbackToSavepoint, View, Temps, Pre, Mid, MidTemp
<1> QED
    BY <1>1, <1>2

(* commit_block moves the database to the state before the transaction,    *)
(* because no temporary value is in the block's layer.                     *)
LEMMA CommitBlockRefines == TypeOK /\ LayerInv /\ CommitBlock => Store!BlockCommit
<1> SUFFICES ASSUME TypeOK, LayerInv, CommitBlock PROVE Store!BlockCommit
    OBVIOUS
<1>1. db' = Pre
    BY DEF CommitBlock, Pre, ReadPre, ReadPreLog, LayerInv, NoTemp
<1>2. Pre' = Pre
  <2>1. Pre' = db'
      BY DEF CommitBlock, Pre, ReadPre, ReadPreLog, Applied, EmptyLog, TypeOK
  <2> QED
      BY <1>1, <2>1
<1>3. \A k \in Keys : Applied(block_write_log[k], db[k])
                        = Applied(block_write_log'[k], db'[k])
    BY <1>2 DEF Pre, ReadPre, ReadPreLog
<1>4. Mid' = Mid
    BY <1>3 DEF CommitBlock, Mid, ReadPrecommit, Applied
<1>5. View' = View
    BY <1>3 DEF CommitBlock, View, ReadBytes, ReadLog, Applied
<1>6. Temps' = Temps /\ MidTemp' = MidTemp
    BY DEF CommitBlock, Temps, MidTemp, TempIn, EmptyLog
<1> QED
    BY <1>1, <1>2, <1>4, <1>5, <1>6
       DEF Store!BlockCommit, View, Temps, Pre, Mid, MidTemp

(* With an empty block layer the state before the transaction is the       *)
(* database.                                                               *)
LEMMA RestartRefines == TypeOK /\ Restart => Store!Crash
<1> SUFFICES ASSUME TypeOK, Restart PROVE Store!Crash
    OBVIOUS
<1>1. NoTx' /\ NoPrecommit'
    BY DEF Restart, NoTx, NoPrecommit, EmptyLog
<1>2. Pre' = db
    BY DEF Restart, Pre, ReadPre, ReadPreLog, Applied, EmptyLog, TypeOK
<1>3. Mid' = db /\ View' = db /\ Temps' = {} /\ MidTemp' = {} /\ db' = db
    BY <1>1, <1>2, EmptyTxReadsNext DEF ViewIsMid, MidIsPre, Restart
<1> QED
    BY <1>2, <1>3 DEF Store!Crash, View, Temps, Pre, Mid, MidTemp

(* The initial states map to initial states of the store. *)
LEMMA InitRefines == Init => Store!Init
<1> SUFFICES ASSUME Init PROVE Store!Init
    OBVIOUS
<1>1. db \in [Keys -> Values \cup {NoVal}]
    BY DEF Init, OptValues
<1>2. Pre = db
    BY <1>1 DEF Init, Pre, ReadPre, ReadPreLog, Applied, EmptyLog
<1>3. NoTx /\ NoPrecommit
    BY DEF Init, NoTx, NoPrecommit
<1> QED
    BY <1>1, <1>2, <1>3, EmptyTxReads
       DEF ViewIsMid, MidIsPre, Store!Init, Store!States, View, Temps, Pre, Mid, MidTemp

(* A step that touches neither the layers nor the database stutters. *)
LEMMA StutterRefines ==
    ASSUME UNCHANGED <<db, block_write_log, tx_precommit_write_log, tx_write_log>>
    PROVE  UNCHANGED Store!vars
<1>1. Pre' = Pre /\ Mid' = Mid /\ View' = View /\ Temps' = Temps /\ MidTemp' = MidTemp
    BY DEF Pre, Mid, View, Temps, MidTemp, ReadPre, ReadPreLog, ReadPrecommit,
           ReadBytes, ReadLog, Applied, TempIn, EmptyLog
<1> QED
    BY <1>1 DEF Store!vars, View, Temps, Pre, Mid, MidTemp

(* Every step of the write log maps to a step of the store or a stutter. *)
LEMMA NextRefines == TypeOK /\ LayerInv /\ [Next]_vars => [Store!Next]_(Store!vars)
<1> SUFFICES ASSUME TypeOK, LayerInv, [Next]_vars
             PROVE  Store!Next \/ UNCHANGED Store!vars
    OBVIOUS
<1> DEFINE Goal == Store!Next \/ UNCHANGED Store!vars
<1>0. /\ Delete # Absent
      /\ \A v \in Values : Write(v) # Absent /\ Temp(v) # Absent /\ InitAccount(v) # Absent
    BY DEF Delete, Absent, Write, Temp, InitAccount, Mod
<1>1. ASSUME NEW k \in Keys, NEW v \in Values, TxWrite(k, v) PROVE Goal
    BY <1>0, <1>1, ModFacts, TxInsertRefines DEF TxWrite, tx_only, Store!Next
<1>2. ASSUME NEW k \in Keys, NEW v \in Values, TxWriteTemp(k, v) PROVE Goal
    BY <1>0, <1>2, ModFacts, TxInsertRefines DEF TxWriteTemp, tx_only, Store!Next
<1>3. ASSUME NEW k \in Keys, NEW v \in Values, ProtocolWrite(k, v) PROVE Goal
    BY <1>0, <1>3, ModFacts, BlockInsertRefines DEF ProtocolWrite, block_only, Store!Next
<1>4. ASSUME NEW k \in Keys, TxDelete(k) PROVE Goal
  <2>1. CASE k \in VpKeys
      BY <1>4, <2>1, StutterRefines DEF TxDelete, tx_only
  <2>2. CASE k \notin VpKeys
      BY <1>0, <1>4, <2>2, ModFacts, TxInsertRefines DEF TxDelete, tx_only, Store!Next
  <2> QED
      BY <2>1, <2>2
<1>5. ASSUME NEW k \in Keys, ProtocolDelete(k) PROVE Goal
  <2>1. CASE k \in VpKeys
      BY <1>5, <2>1, StutterRefines DEF ProtocolDelete, block_only
  <2>2. CASE k \notin VpKeys
      BY <1>0, <1>5, <2>2, ModFacts, BlockInsertRefines
         DEF ProtocolDelete, block_only, Store!Next
  <2> QED
      BY <2>1, <2>2
<1>6. ASSUME NEW v \in Values, TxInitAccount(v) PROVE Goal
  <2>1. VpKey[NextAddress] \in Keys
      BY <1>6, WriteLogAssumption
         DEF TxInitAccount, NextAddress, NoGen, Addresses, TypeOK
  <2>2. Store!Modify(VpKey[NextAddress])
      BY <1>0, <1>6, <2>1, ModFacts, TxInsertRefines DEF TxInitAccount
  <2> QED
      BY <2>1, <2>2 DEF Store!Next
<1>7. ASSUME NEW e \in Events, EmitIbcEvent(e) PROVE Goal
    BY <1>7, StutterRefines DEF EmitIbcEvent, logs
<1>8. CASE TakeIbcEvents
    BY <1>8, StutterRefines DEF TakeIbcEvents, logs
<1>9. CASE PrecommitTx
    BY <1>9, PrecommitRefines DEF Store!Next
<1>10. CASE CommitTx
    BY <1>10, CommitRefines DEF Store!Next
<1>11. CASE DropTx \/ DropTxKeepPrecommit
    BY <1>11, DropRefines DEF Store!Next
<1>12. CASE CommitBlock
    BY <1>12, CommitBlockRefines DEF Store!Next
<1>13. CASE Restart
    BY <1>13, RestartRefines DEF Store!Next
<1>14. CASE UNCHANGED vars
    BY <1>14, StutterRefines DEF vars
<1> QED
    BY <1>1, <1>2, <1>3, <1>4, <1>5, <1>6, <1>7, <1>8, <1>9, <1>10, <1>11,
       <1>12, <1>13, <1>14 DEF Next

(* The write log implements TxStore, for every set of keys and values:     *)
(* reads through the three layers are those of a store with one            *)
(* transaction and one savepoint, and a block is committed as a whole.     *)
THEOREM WriteLogImplementsTxStore == Spec => ImplementsTxStore
    BY InitRefines, NextRefines, LayerInvInit, LayerInvNext, TypeCorrect, PTL
       DEF Spec, ImplementsTxStore, Store!Spec

=============================================================================
