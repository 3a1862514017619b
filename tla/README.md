# Namada ledger: TLA+ models and proofs

Namada is a proof-of-stake layer 1. The node is an ABCI application: CometBFT
orders transactions into blocks, the shell (`src/apps/src/lib/node/ledger/shell`)
checks and executes them on a storage with a write log (`src/core/src/ledger/storage`),
and every node must come to the same state. This directory holds models of the
parts of the node on which that rests, TLC runs over small instances and TLAPS
proofs for all instances.

`PROJECT.json` lists components, runs, mutants, the source lines behind every
definition, findings, hazards and theorems.

## Inventory

| Part | Code | State | Operations | Hard to get right | Module |
|---|---|---|---|---|---|
| Write log | `core/.../write_log.rs`, `wl_storage.rs` | block, precommit and transaction layers; address generator; IBC events | read, write, write_temp, delete, init_account, protocol writes, precommit, commit, drop, block commit | temporary values, validity predicates, iteration over layers, savepoints | `WriteLog`, `TxStore` |
| Replay protection | `write_log.rs`, `replay_protection.rs` | requests of the block; `last` and `all` hashes | write, delete, finalize, commit | several requests for one hash; `expect` on their result | `ReplayProtection` |
| Transaction pipeline | `process_proposal.rs`, `prepare_proposal.rs`, `finalize_block.rs`, `shell/mod.rs` | transaction queue, block in progress | ProcessProposal, FinalizeBlock, Commit, restart | one inner transaction in many wrappers, over two blocks; restarts | `TxPipeline` |
| Rollback | `storage/rocksdb.rs` | `pred/` keys, diffs | rollback of one block | what is restored and what is not | `TxRollback`, `EpochClock` |
| Epochs | `wl_storage.rs`, `types/storage.rs`, `pos_queries.rs` | epoch, first heights, minimum height and time, delay | update_epoch, look-ups, set updates | two delays that must meet; first epoch; boundaries | `EpochClock` |
| Transaction execution | `protocol/mod.rs`, `vm/host_env.rs` | write log, balances, events | wrapper with unshielding and fee, host functions, validity predicates | partial failure, events, generated addresses | `TxExecution` |
| Validity predicates in parallel | `protocol/mod.rs`, `gas.rs` | results of parts | fold, split, reduce | the schedule must not be visible | `VpsExecution` |
| Block space allocator | `block_alloc.rs`, `block_alloc/states` | bins | allocate per kind of transaction | limits changed by governance; the queue must fit | `BlockAlloc`, `TxPipeline` |
| ABCI shim | `abcipp_shim.rs` | delivered transactions, suspension | BeginBlock, DeliverTx, EndBlock, action at height | requests while suspended | planned |
| Proof of stake | `proof_of_stake/src` | epoched validator sets, bonds, unbonds, slashes, liveness | bond, unbond, redelegate, withdraw, slash, jail, unjail, rewards | offsets between epochs, order within a block | planned |
| Ethereum bridge | `ethereum_bridge/src`, `types/storage.rs` | tallies, events queue, bridge pool | vote, tally, act on events, relay | votes over epochs, order of nonces, expiry | planned |
| Ethereum oracle | `ethereum_oracle` | next block, channel | confirm, retry, send | restarts, full channel | planned |
| Governance, PGF | `shell/governance.rs`, `ledger/governance` | proposals, votes | submit, vote, tally, execute | epoch boundaries | planned |
| Native predicates | `shared/src/ledger/native_vp` | none of their own | accept or reject a change | conservation of tokens | multitoken planned |
| Wasm caches | `vm/wasm/compilation_cache` | modules by hash | compile, get, wait | threads waiting on a compilation | planned |
| Lazy collections | `storage_api/collections` | keys of a map, vector, set | insert, remove, iterate | iteration during change | planned |
| Merkle tree | `merkle_tree.rs` | stores per epoch | update, rebuild, prune | rebuild of a pruned height | planned |
| Node processes | `node/ledger/mod.rs`, `abortable.rs` | tasks | start, abort, shut down | abort order | planned |
| Genesis, mempool check, client, wallet, SDK | `init_chain.rs`, `sdk`, `apps` | | | sequential or I/O | not modelled |

## Modules

### WriteLog and TxStore

`WriteLog` has one action per operation of `WriteLog` and the block commit of
`WlStorage`. A layer is a function from keys to modifications, `Absent` where it has
none. Operations that return an error are modelled as they are: `write` and `delete`
insert before they look at what they replaced, so `TxWrite` is enabled for every key
and `WriteFails` says when the caller sees an error. `ReadBytes`, `ReadPre`, `HasKey`
and `IterPost` are the reads of `WlStorage` through the layers. `Restart` is a node
that starts again from the last committed block.

`TxStore` is what the layers promise: a store in which one transaction with one
savepoint changes its own view (`view`, with the keys in `temp` to be forgotten), is
committed or dropped as a whole, and a block of transactions becomes durable at once.
It has no code of its own. `Store` in `WriteLog` is the refinement mapping: each of
TxStore's states is what can be read through a number of layers.

### ReplayProtection, BlockAlloc and TxPipeline

A wrapper transaction pays a fee and carries an encrypted inner transaction. It is
executed one block after it was included, from the queue. Hashes keep both from being
used twice: in the write log as requests (`replay_protection`), in the database in
`last` (hashes of the last block) and `all`. `ReplayProtection` is the map of requests
and their commit; `BlockAlloc` has the bins of a proposal; `TxPipeline` follows blocks
from proposal to commit.

Proposers are arbitrary: `ProposeWrapper` and `ProposeDecrypted` append any
transaction for which `CheckProposalTx` (check_proposal_tx) gives `Ok`, and `Decide`
takes any such block that contains the whole queue. `FinalizeWrapper` and
`FinalizeDecrypted` are the branches of finalize_block with the outcomes of fee
payment and execution as a parameter. `panicked` is set where the code would panic,
on a failed `expect`. `Crash` loses what is in memory; a decided block is handed over
again. A commit may change `max_proposal_bytes`, as a governance proposal executed in
the block does. `applied` and `charged` count what the execution of a block has done, and go
back with it on a restart.

An honest proposer does not get a choice: `HonestRound` takes any mempool of wrappers
and protocol transactions, and `Prepares` says what prepare_proposal makes of it. The
wrappers up to the first one that is rejected come first, within a third of the block
and its gas (`TakesEncrypted`). Then comes the queue, within what they leave
(`DecryptedSpace`). Protocol transactions get the rest (`ProtocolSpace`). As in the
code a transaction too large for its bin is put into the block without being counted,
and a wrapper that finds space but no gas keeps its space. `ProcessProposal` is the
verdict of the other validators on that block, with the same checks as for any other:
it is decided, or the round ends as `refused`. A protocol transaction is known by its
size only.

### TxRollback

`TxPipeline` with the operator's rollback of one block. `pred` is what the commit has
saved. A block that is executed again may meet other hashes than when it was decided,
so `SkipWrapper` (a transaction that process_txs now rejects) becomes possible.

### EpochClock

The epoch part of `Storage`, with the sets CometBFT uses for the current and the next
block (`comet`), named by their epochs. Updates returned for block h apply to block
h + 2. Block times and the parameters at each switch are chosen freely. `history` is
the epoch of every committed block, against which look-ups are compared. `begun` keeps
for every epoch the time of its beginning and the minimum number of blocks and the
duration that the parameters demanded then; `EpochsLongEnough` compares completed
epochs with it, by the blocks in `history` and by the time at which the next began,
and not with the minimum height and time the code has computed.
`RollbackSpec` adds the rollback of one block.

### TxExecution

Extends `WriteLog` by the execution of transactions in finalize_block. A wrapper goes
through `BeginWrapper`, `Unshield`, `Unshielded`, `TransferFee`, `CommitFee`,
`WrapperDone` or `FeeError`; an inner transaction calls host functions in any order
and number and ends with any verdict, except that an address whose validity predicate
is not in the database makes it fail. Balances are amounts with a maximum, so that
overflow is reached, and a fee beyond it stands for one that is no amount of the token
(get_tx_fee, to_amount). The payer may be the proposer, for whom token_transfer returns
at once. Temporary values are not checked against their key, unlike written ones.

### VpsExecution

execute_vps folds the verifiers in parts and reduces the results, on rayon. Parts are
halved as long as nobody has begun them, run in any order, and stop once an error has
been found (`full`). `OneThread` is the same fold without division.

## Runs

| Run | Instance | States | Shows |
|---|---|---|---|
| `write_log` | one data key, one account key, one value, one account to be created | 37k | types; no temporary value in a block; validity predicates are never deleted; iteration agrees with reads; `WriteLog` implements `TxStore` |
| `tx_pipeline` | three wrappers, two with the same inner transaction, sizes 1, 3 and 4 in blocks of 13 or 15, up to two protocol transactions, two restarts | 32k | nothing applied or charged twice, no panic, refused afterwards, hashes kept, honest proposals accepted, queued transactions leave the queue |
| `tx_rollback` | three wrappers, one restart, rollbacks | 119k | no panic, no double charge |
| `epoch_clock` | 12 blocks, epochs of at least 2 or 3 blocks, durations 1 or 5 | 72k | alignment with CometBFT, look-ups, offsets, length |
| `tx_execution` | two balances up to 2, fees 2 and 3 (3 overflows), the payer the proposer or not, one account to be created, two transactions | 1010k | all or nothing of wrappers and inner transactions, fresh addresses, events of accepted transactions reported |
| `vps_execution` | four verifiers, three answers, gas costs 5 and 32 with a limit of 35 | 293k | outcome independent of the schedule |

The bounds are the smallest at which the cases of interest meet: two wrappers with
the same inner transaction in one block, in two successive blocks and beyond, each
with a restart; a second epoch switch after a change of parameters; two parts on both
sides of a split in which different errors come up; a failed transaction before an
accepted one, and a restart between any two steps. Blocks of 13 and 15 give wrappers
a third, 4 and 5. In the smaller one the wrappers of 1 and 3, or the one of 4 alone,
fill it and the next is rejected, and two protocol transactions do not fit beside
wrappers and queue. In the larger one those of 1 and 4 fit, but have more gas together
than a block. The gas costs of two or
more verifiers carry over the division by 10 (5 + 5, 32 + 5 + 5), where a part alone
does not, and reach both sides of the limit. Every property has a mutant, a change of one mapped
definition as a plausible mistake would make it, under which the run fails.

Deadlock checking is off for `EpochClock`, which stops at its last block, and for
`VpsExecution`, which ends with the result.

Fairness is used in `tx_pipeline` only, for `QueueDrains`. The node works through a decided block
(weak fairness of `BeginFinalize`, `Execute` and `Commit`: the ABCI calls arrive and
finalize_block is a loop without waiting), rounds that do not decide time out (weak
fairness of `NextRound`), and again and again an honest proposer has its round (strong
fairness of `HonestRound`: proposers rotate and consensus assumes more than two thirds
of honest voting power, which decide what process_proposal accepts). That the honest
proposal is accepted is not assumed: with too little space for the queue the rounds go
on for ever, as the mutant shows. `SizesAssumption` is used for that alone. It says
that a decrypted transaction is not larger than its wrapper, that a wrapper of the
largest size fits into a third of the block, and that the block has room for a third
of itself, for a queue from a block of any other size and for one more transaction.
The code does not check this when governance changes the parameters. The crash bound makes restarts finite.

### Disagreements found

These runs are expected to fail; each is a finding in `PROJECT.json`.

- `tx_rollback_replay`: rollback deletes one key that does not exist instead of the
  hashes of the last block, and those of the block before stay moved. An inner
  transaction carried by two wrappers can be applied twice after a rollback.
- `epoch_rollback`: rollback does not restore `update_epoch_blocks_delay`, though its
  predecessor is saved, and the epoch switches before CometBFT's set does.
- `tx_execution_events`: IBC events of a transaction that failed are reported with
  the next accepted one.
- `tx_execution_drain`: a balance that does not cover the fee is said to go to the
  proposer, and stays.
- `vps_execution_missing`: with an address that has no validity predicate, the error
  returned depends on the schedule, and with it whether the hash is committed.
- `vps_execution_result`: the list of gas costs in the VpsResult that is put into the
  transaction's event depends on the schedule.

## Proofs

Three modules hold theorems. All are stated for every value of the constants that
satisfies the named assumption of the module.

**WriteLogProofs** (`WriteLogAssumption`). `TypeCorrect`; from it and `LayerInv` (no
temporary value in the block layer; no deletion of a validity predicate in any layer)
`TempNeverInBlock`, `VpDeletionNever` and the action property `VpStays`. The
invariants are not inductive alone: a deletion reaches the block from the transaction
layers, so all three layers are in `LayerInv`. `WriteLogImplementsTxStore` shows the
refinement, with one lemma per operation; `CommitBlockRefines` needs `LayerInv`,
because a temporary value in the block layer would be read but not committed.

**TxPipelineProofs** (`TxPipelineAssumption`). One inductive invariant `IInv` serves
`NeverPanics`, `AppliedAtMostOnce`, `ChargedAtMostOnce`, `ChargedAreRefused`,
`QueuedNeverInAll` and the action property `InnerHashesStay`. It says where the
hashes of queued, executed and charged transactions are between blocks (`AtRest`),
that the decided block was acceptable (`Accepted`, `Complete`), and during a block how
far the requests, the effects and the queue have come with the transactions handled so
far (`Requests`, `Effects`, `Alignment`). The number of restarts is arbitrary.

**EpochClockProofs** (`EpochClockAssumption`). `IInv` relates the pending delay to the
sets CometBFT has (`Waiting`), memory to the last commit (`Rest`) and the number of
epochs to their first heights (`Counted`); it gives `EpochClockTypeCorrect`,
`SetsStayAligned` and `UpdatesGoToUnsentSet`. `LInv` adds that the first heights
delimit the blocks of the epochs in `history`, for the committed state and for the
block in progress; it gives `EpochLookupCorrect` and `DecidingOffsetCorrect`. `DInv`
gives `EpochsAreLongEnough`: the first heights and beginnings of successive epochs are
apart as `Long` demands, and the minimum height and time in memory and in the last
commit are those of the beginning of the current epoch. `LInv` turns heights into
numbers of blocks. All hold for initial heights 0 and 1, any parameters and any block times.

Only model-checked: liveness (`QueueDrains`), `HonestProposalsAccepted` (it needs sums
over sequences of any length, by induction), iteration against reads
(`IterAgreesWithRead`, while nothing is precommitted), everything about rollback,
`TxExecution` and `VpsExecution`. Liveness under fairness and what a fold computes for every input
are out of the prover's reach.

## What is left out

Encodings, signatures, encryption, gas costs of storage access, logging and queries.
Failures of the database. Vote extensions, and protocol transactions except for the
space they take. Checks of a wrapper that only refuse more blocks (fees, its own gas
limit, chain id, expiry, signatures) are absent from `CheckProposalTx`; safety holds for the larger set
of blocks, and an honest proposer has made them before. The heights of an epoch at which
wrappers are not allowed look like those with an empty mempool. `max_tx_bytes` and
`max_block_gas` do not change. Wasm code is any
sequence of host calls.

## Plan

1. `AbciShim`: delivery in parts, suspension and halting at a height.
2. Proof of stake: `Epoched` (lazily copied data at pipeline and unbonding offsets,
   against a plain function from epochs), `ValidatorSets` (consensus, below capacity
   and below threshold sets under bonds and unbonds), `Slashing` (evidence, the queue
   of slashes, jailing against the sets already sent, composed with `EpochClock`).
3. Ethereum bridge: `VoteTally` (votes over epochs, seen once, expiry),
   `EthEventsQueue` (events handled once and in order of their nonces, against an
   abstract ordered log), the oracle and its channel.
4. Governance: the life of a proposal over epochs and its tally.
5. Wasm compilation cache: threads that wait for each other.
6. Proofs: `TxExecution` (`AddressesFresh`, `FailedLeavesNothing`) from the invariant
   of `WriteLog`; invariants of the modules above.
