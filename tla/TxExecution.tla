---------------------------- MODULE TxExecution -----------------------------
(***************************************************************************)
(* How finalize_block executes one transaction on the write log:           *)
(* shared/src/ledger/protocol/mod.rs (fees of a wrapper, execution of an   *)
(* inner transaction, validity predicates) with the host functions of      *)
(* shared/src/vm/host_env.rs, the end of the transaction in                *)
(* apps/src/lib/node/ledger/shell/finalize_block.rs, and WriteLog below.   *)
(*                                                                         *)
(* A wrapper may carry an unshielding transaction, which credits its payer *)
(* before the fee is taken.  Transactions are numbered; an IBC event is    *)
(* the number of the transaction that emits it.  A host function that      *)
(* returns an error ends the wasm run, which is one of the ends of         *)
(* Unshielded and InnerDone, so the host actions are the calls that        *)
(* succeed.                                                                *)
(***************************************************************************)
EXTENDS WriteLog

CONSTANTS
    Payers, proposer,  \* keys of token balances, of implicit addresses
    Codes,             \* code hashes, the values of validity predicate keys
    TempValues,        \* values that are written as temporary ones
    MaxAmount,         \* largest token::Amount
    Fees,              \* fees of wrappers, before overflow is checked
    MaxTxs             \* bound: transactions of a behaviour

Amounts == 0 .. MaxAmount

ASSUME TxExecutionAssumption ==
    /\ MaxAmount \in Nat /\ MaxTxs \in Nat
    /\ Fees \subseteq Nat
    /\ Payers \cup {proposer} \subseteq Keys \ VpKeys
    /\ Codes \cap Amounts = {}
    /\ Values = Codes \cup Amounts /\ TempValues \subseteq Values
    /\ Events = 1 .. MaxTxs

VARIABLES
    pc,         \* "idle", "unshield", "fee", "fee_commit", "fee_error", "gas", "wasm"
    txs,        \* transactions begun so far
    fee, payer, \* of the current or last wrapper, the payer as the key of its
                \* balance; an inner transaction has no fee
    funds,      \* balances of payer and proposer when the fee is taken
    start,      \* block_write_log when the transaction begins
    outcome,    \* of the last transaction
    emitter,    \* transactions of the block that emitted an IBC event
    accepted,   \* inner transactions of the block that were accepted
    response    \* IBC events in FinalizeBlock's response

exec_vars == <<vars, pc, txs, fee, payer, funds, start, outcome, emitter, accepted, response>>

NoFunds == [payer |-> 0, proposer |-> 0]
Amount(v) == IF v = NoVal THEN 0 ELSE v

ExecInit ==
    /\ Init
    /\ \A k \in Payers \cup {proposer} : db[k] \in Amounts \cup {NoVal}
    /\ pc = "idle" /\ txs = 0 /\ fee = 0 /\ payer = proposer
    /\ funds = NoFunds
    /\ start = block_write_log /\ outcome = "none"
    /\ emitter = {} /\ accepted = {} /\ response = {}

Begin ==
    /\ pc = "idle" /\ txs < MaxTxs
    /\ txs' = txs + 1
    /\ start' = block_write_log
    /\ outcome' = "none" /\ funds' = NoFunds
    /\ UNCHANGED <<emitter, accepted, response>>

-----------------------------------------------------------------------------
(* apply_wrapper_tx, charge_fee *)

(* With an unshielding the log is precommitted first, so that the          *)
(* unshielding can be dropped on its own.                                  *)
BeginWrapper(f, k, unshield) ==
    /\ Begin
    /\ fee' = f /\ payer' = k
    /\ pc' = IF unshield THEN "unshield" ELSE "fee"
    /\ IF unshield THEN PrecommitTx ELSE UNCHANGED vars

(* The transfer of the unshielding credits the payer. *)
Unshield(v) ==
    /\ pc = "unshield"
    /\ ~WriteFails(payer)
    /\ TxWrite(payer, v)
    /\ UNCHANGED <<pc, txs, fee, payer, funds, start, outcome, emitter, accepted, response>>

(* Mutant: an accepted unshielding is committed at once. *)
UnshieldedCommits(verdict) ==
    /\ pc = "unshield"
    /\ CASE verdict = "accepted" -> CommitTx
         [] verdict = "rejected" ->
              /\ tx_write_log' = EmptyLog
              /\ ibc_events' = {}
              /\ UNCHANGED <<db, storage_address_gen, block_write_log,
                             tx_precommit_write_log, address_gen>>
         [] verdict = "error" -> DropTxKeepPrecommit
    /\ pc' = "fee"
    /\ UNCHANGED <<txs, fee, payer, funds, start, outcome, emitter, accepted, response>>

(* apply_wasm_tx takes the events unless it fails.  If the unshielding is  *)
(* not accepted it is dropped, and the fee is tried all the same.          *)
Unshielded(verdict) ==
    /\ pc = "unshield"
    /\ CASE verdict = "accepted" -> TakeIbcEvents
         [] verdict = "rejected" ->
              /\ tx_write_log' = EmptyLog
              /\ ibc_events' = {}
              /\ UNCHANGED <<db, storage_address_gen, block_write_log,
                             tx_precommit_write_log, address_gen>>
         [] verdict = "error" -> DropTxKeepPrecommit
    /\ pc' = "fee"
    /\ UNCHANGED <<txs, fee, payer, funds, start, outcome, emitter, accepted, response>>

(* token_transfer of amount a in the transaction's log; it fails when the  *)
(* proposer's balance would overflow, but not when the payer proposes.     *)
TokenTransferFails(a) ==
    payer # proposer /\ Amount(ReadBytes(proposer)) + a > MaxAmount

TokenTransfer(a) ==
    tx_only(IF payer = proposer THEN tx_write_log
            ELSE Insert(Insert(tx_write_log,
                               payer, Write(Amount(ReadBytes(payer)) - a)),
                        proposer, Write(Amount(ReadBytes(proposer)) + a)))

(* Mutant: the fee is not compared with the balance. *)
TransferFeeUnchecked ==
    LET balance == Amount(ReadBytes(payer))
        paid == IF balance >= fee THEN fee ELSE balance
    IN  /\ pc = "fee"
        /\ funds' = [payer |-> balance, proposer |-> Amount(ReadBytes(proposer))]
        /\ IF fee > MaxAmount \/ TokenTransferFails(paid)
             THEN pc' = "fee_error" /\ UNCHANGED vars
           ELSE TokenTransfer(paid) /\ pc' = "fee_commit"
        /\ UNCHANGED <<txs, fee, payer, start, outcome, emitter, accepted, response>>

(* transfer_fee: a fee that is no token::Amount (get_tx_fee, to_amount) is *)
(* an error.  When the balance does not cover the fee, the balance is      *)
(* transferred and an error is returned.                                   *)
TransferFee ==
    LET balance == Amount(ReadBytes(payer))
        paid == IF balance >= fee THEN fee ELSE balance
    IN  /\ pc = "fee"
        /\ funds' = [payer |-> balance, proposer |-> Amount(ReadBytes(proposer))]
        /\ IF fee > MaxAmount \/ TokenTransferFails(paid)
             THEN pc' = "fee_error" /\ UNCHANGED vars
           ELSE /\ TokenTransfer(paid)
                /\ pc' = IF balance >= fee THEN "fee_commit" ELSE "fee_error"
        /\ UNCHANGED <<txs, fee, payer, start, outcome, emitter, accepted, response>>

(* "Commit tx write log even in case of subsequent errors" *)
CommitFee ==
    /\ pc = "fee_commit"
    /\ CommitTx
    /\ pc' = "gas"
    /\ UNCHANGED <<txs, fee, payer, funds, start, outcome, emitter, accepted, response>>

(* The error reaches finalize_block, which drops the transaction. *)
FeeError ==
    /\ pc = "fee_error"
    /\ DropTx
    /\ pc' = "idle"
    /\ outcome' = "unpaid"
    /\ UNCHANGED <<txs, fee, payer, funds, start, emitter, accepted, response>>

(* add_wrapper_gas, then the end of the wrapper in finalize_block *)
WrapperDone(enough) ==
    /\ pc = "gas"
    /\ IF enough THEN CommitTx ELSE DropTx
    /\ pc' = "idle"
    /\ outcome' = "charged"
    /\ UNCHANGED <<txs, fee, payer, funds, start, emitter, accepted, response>>

-----------------------------------------------------------------------------
(* apply_wasm_tx *)

BeginInner ==
    /\ Begin
    /\ pc' = "wasm"
    /\ fee' = 0 /\ payer' = proposer
    /\ UNCHANGED vars

InWasm ==
    /\ pc = "wasm"
    /\ UNCHANGED <<pc, txs, fee, payer, funds, start, outcome, accepted, response>>

(* check_address_existence: an account exists if its validity predicate is *)
(* in the log, in whatever form, or in the database.                       *)
AddressExists(k) == k \in VpKeys => ReadLog(k) # Absent \/ db[k] # NoVal

(* The values that fit a key: tx_validate_vp_code_hash, token amounts *)
Fits(k) == IF k \in VpKeys THEN Codes ELSE Amounts

HostWrite(k, v) ==
    /\ InWasm /\ UNCHANGED emitter
    /\ v \in Fits(k) /\ AddressExists(k) /\ ~WriteFails(k)
    /\ TxWrite(k, v)

HostWriteTemp(k, v) ==
    /\ InWasm /\ UNCHANGED emitter
    /\ AddressExists(k) /\ ~WriteTempFails(k)
    /\ TxWriteTemp(k, v)

HostDelete(k) ==
    /\ InWasm /\ UNCHANGED emitter
    /\ ~DeleteFails(k)
    /\ TxDelete(k)

(* tx_update_validity_predicate does not ask whether the account exists. *)
HostUpdateValidityPredicate(k, c) ==
    /\ InWasm /\ UNCHANGED emitter
    /\ k \in VpKeys /\ ~WriteFails(k)
    /\ TxWrite(k, c)

HostInitAccount(c) ==
    /\ InWasm /\ UNCHANGED emitter
    /\ TxInitAccount(c)

HostEmitIbcEvent ==
    /\ InWasm
    /\ EmitIbcEvent(txs)
    /\ emitter' = emitter \cup {txs}

(* verifiers_and_changed_keys: the accounts that are changed and not new   *)
Verifiers ==
    {k \in VpKeys : /\ tx_write_log[k] # Absent
                    /\ tx_write_log[k].kind # "InitAccount"}

(* Mutant: an address without validity predicate is passed over. *)
MissingAddressIgnored == FALSE

(* execute_vps looks for validity predicates in the database only.         *)
MissingAddress == \E k \in Verifiers : db[k] = NoVal

(* Mutant: the events are taken after the transaction is committed. *)
InnerDoneCommitsFirst(verdict) ==
    /\ pc = "wasm"
    /\ verdict # "error" => ~MissingAddress
    /\ IF verdict = "accepted" THEN CommitTx
       ELSE /\ tx_precommit_write_log' = EmptyLog
            /\ tx_write_log' = EmptyLog
            /\ ibc_events' = IF verdict = "rejected" THEN {} ELSE ibc_events
            /\ UNCHANGED <<db, storage_address_gen, block_write_log, address_gen>>
    /\ accepted' = IF verdict = "accepted" THEN accepted \cup {txs} ELSE accepted
    /\ response' = IF verdict = "accepted" THEN response \cup ibc_events' ELSE response
    /\ outcome' = IF verdict = "accepted" THEN "applied" ELSE "failed"
    /\ pc' = "idle"
    /\ UNCHANGED <<txs, fee, payer, funds, start, emitter>>

(* The verdict of the validity predicates, or an error before it: a trap,  *)
(* no gas left, a missing address.  Then commit_tx or drop_tx.             *)
InnerDone(verdict) ==
    /\ pc = "wasm"
    /\ verdict # "error" => ~MissingAddress
    /\ IF verdict = "accepted" THEN CommitTx
       ELSE /\ tx_precommit_write_log' = EmptyLog
            /\ tx_write_log' = EmptyLog
            /\ ibc_events' = IF verdict = "rejected" THEN {} ELSE ibc_events
            /\ UNCHANGED <<db, storage_address_gen, block_write_log, address_gen>>
    /\ accepted' = IF verdict = "accepted" THEN accepted \cup {txs} ELSE accepted
    /\ response' = IF verdict = "accepted" THEN response \cup ibc_events ELSE response
    /\ outcome' = IF verdict = "accepted" THEN "applied" ELSE "failed"
    /\ pc' = "idle"
    /\ UNCHANGED <<txs, fee, payer, funds, start, emitter>>

-----------------------------------------------------------------------------
EndBlock ==
    /\ pc' = "idle"
    /\ outcome' = "none"
    /\ start' = block_write_log'
    /\ emitter' = {} /\ accepted' = {} /\ response' = {}
    /\ fee' = 0 /\ payer' = proposer /\ funds' = NoFunds
    /\ UNCHANGED txs

ExecCommitBlock == pc = "idle" /\ CommitBlock /\ EndBlock

ExecRestart == Restart /\ EndBlock

Verdicts == {"accepted", "rejected", "error"}

ExecNext ==
    \/ \E f \in Fees, k \in Payers, u \in BOOLEAN : BeginWrapper(f, k, u)
    \/ \E v \in Amounts : Unshield(v)
    \/ \E r \in Verdicts : Unshielded(r) \/ InnerDone(r)
    \/ TransferFee
    \/ CommitFee
    \/ FeeError
    \/ \E enough \in BOOLEAN : WrapperDone(enough)
    \/ BeginInner
    \/ \E k \in Keys, v \in Values : HostWrite(k, v)
    \/ \E k \in Keys, v \in TempValues : HostWriteTemp(k, v)
    \/ \E k \in Keys : HostDelete(k)
    \/ \E k \in Keys, c \in Codes : HostUpdateValidityPredicate(k, c)
    \/ \E c \in Codes : HostInitAccount(c)
    \/ HostEmitIbcEvent
    \/ ExecCommitBlock
    \/ ExecRestart

ExecSpec == ExecInit /\ [][ExecNext]_exec_vars

-----------------------------------------------------------------------------
(* Properties *)

(* A transaction that fails leaves the block as it found it: a wrapper     *)
(* that could not pay does not keep its unshielding ("do not commit yet    *)
(* cause this could be exploited to get free unshieldings"), an inner      *)
(* transaction that is rejected or traps keeps nothing.                    *)
FailedLeavesNothing ==
    outcome \in {"unpaid", "failed"} => block_write_log = start

(* A wrapper that is charged pays exactly its fee: what the payer has, the *)
(* unshielded amount included, goes down by the fee and the proposer's     *)
(* balance up by it, whatever happens to the wrapper afterwards.           *)
ChargedPaysFee ==
    outcome = "charged" =>
      IF payer = proposer THEN Amount(ReadPre(payer)) = funds.payer
      ELSE /\ Amount(ReadPre(payer)) = funds.payer - fee
           /\ Amount(ReadPre(proposer)) = funds.proposer + fee

(* No account exists under an address that the generator has yet to hand   *)
(* out, so init_account never takes over an existing account: not after    *)
(* dropped transactions, restarts, or writes to a predicted address.       *)
AddressesFresh ==
    pc = "idle" => \A a \in Addresses : a >= NextAddress => ReadPre(VpKey[a]) = NoVal

(* The events of an accepted transaction are in the response. *)
AcceptedEventsReported == accepted \cap emitter \subseteq response

(* "IBC events emitted by the transaction" (TxResult::ibc_events): the     *)
(* response has events of accepted transactions only.                      *)
ReportedEventsAccepted == response \subseteq accepted

(* "the ledger drains their balance": a payer who cannot cover the fee is  *)
(* left with nothing, unless the proposer's balance or the fee itself      *)
(* overflows.                                                              *)
InsufficientFundsDrained ==
    (/\ outcome = "unpaid" /\ payer # proposer
     /\ funds.payer < fee /\ fee <= MaxAmount
     /\ funds.payer + funds.proposer <= MaxAmount)
      => Amount(ReadPre(payer)) = 0


=============================================================================
