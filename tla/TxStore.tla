------------------------------ MODULE TxStore -------------------------------
(***************************************************************************)
(* What the write log promises to its callers, without its layers: a       *)
(* key-value store with one open transaction that has one savepoint, on    *)
(* top of a block that is committed to the database atomically.            *)
(*                                                                         *)
(*   view   what the running transaction reads                             *)
(*   mid    what it would read after rolling back to the savepoint         *)
(*   pre    the state before the transaction                               *)
(*   db     the state of the last committed block                          *)
(*                                                                         *)
(* temp and midtemp are the keys whose value in view and mid is temporary. *)
(* The module abstracts core/src/ledger/storage/write_log.rs as a whole    *)
(* and has no code of its own.                                             *)
(***************************************************************************)
CONSTANTS Keys, Values, NoVal

VARIABLES db, pre, mid, view, midtemp, temp

vars == <<db, pre, mid, view, midtemp, temp>>

States == [Keys -> Values \cup {NoVal}]

Init ==
    /\ db \in States
    /\ pre = db /\ mid = db /\ view = db
    /\ midtemp = {} /\ temp = {}

(* The transaction writes or deletes one key, for good or temporarily. *)
Modify(k) ==
    /\ \E v \in Values \cup {NoVal} : view' = [view EXCEPT ![k] = v]
    /\ temp' \in {temp \cup {k}, temp \ {k}}
    /\ UNCHANGED <<db, pre, mid, midtemp>>

Savepoint ==
    /\ mid' = view
    /\ midtemp' = temp
    /\ UNCHANGED <<db, pre, view, temp>>

RollbackToSavepoint ==
    /\ view' = mid
    /\ temp' = midtemp
    /\ UNCHANGED <<db, pre, mid, midtemp>>

(* Everything the transaction reads becomes the state of the block, except *)
(* that a temporary value leaves the key as it was before the transaction. *)
Commit ==
    /\ pre' = [k \in Keys |-> IF k \in temp THEN pre[k] ELSE view[k]]
    /\ mid' = pre' /\ view' = pre'
    /\ midtemp' = {} /\ temp' = {}
    /\ UNCHANGED db

(* Nothing of the transaction is left. *)
Abort ==
    /\ mid' = pre /\ view' = pre
    /\ midtemp' = {} /\ temp' = {}
    /\ UNCHANGED <<db, pre>>

(* The protocol changes one key of the block; a transaction that has a     *)
(* value of its own for the key goes on reading that one.                  *)
ProtocolModify(k) ==
    \E v \in Values \cup {NoVal} :
        /\ pre' = [pre EXCEPT ![k] = v]
        /\ mid' \in {mid, [mid EXCEPT ![k] = v]}
        /\ view' \in {view, [view EXCEPT ![k] = v]}
        /\ k \in temp => view' = view
        /\ UNCHANGED <<db, midtemp, temp>>

BlockCommit ==
    /\ db' = pre
    /\ UNCHANGED <<pre, mid, view, midtemp, temp>>

Crash ==
    /\ pre' = db /\ mid' = db /\ view' = db
    /\ midtemp' = {} /\ temp' = {}
    /\ UNCHANGED db

Next ==
    \/ \E k \in Keys : Modify(k) \/ ProtocolModify(k)
    \/ Savepoint \/ RollbackToSavepoint
    \/ Commit \/ Abort \/ BlockCommit \/ Crash

Spec == Init /\ [][Next]_vars

=============================================================================
