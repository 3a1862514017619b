----------------------------- MODULE EpochClock -----------------------------
(***************************************************************************)
(* The switch from one epoch to the next.  WlStorage::update_epoch         *)
(* (core/src/ledger/storage/wl_storage.rs) decides at the start of every   *)
(* block whether the epoch is over, but switches only after                *)
(* EPOCH_SWITCH_BLOCKS_DELAY blocks; finalize_block hands the validator    *)
(* set of the coming epoch to CometBFT, which lets it vote two blocks      *)
(* later.  The two counts have to meet: `comet` follows the sets CometBFT  *)
(* works with, each named by the epoch it is the set of.                   *)
(*                                                                         *)
(* Time is what block headers say it is, and the protocol parameters may   *)
(* be changed by governance, so their values are read anew at each switch. *)
(***************************************************************************)
EXTENDS Integers, Sequences, FiniteSets

CONSTANTS
    InitialHeight,     \* initial_height of InitChain
    EpochBlocks,       \* values min_num_of_blocks may have
    EpochDurations,    \* values min_duration may have
    TimeSteps,         \* time between two blocks
    MaxHeight          \* bound: blocks of a behaviour

ASSUME EpochClockAssumption ==
    /\ InitialHeight \in {0, 1}
    /\ EpochBlocks \subseteq Nat
    /\ EpochDurations \subseteq Nat
    /\ TimeSteps \subseteq Nat
    /\ MaxHeight \in Nat

VARIABLES
    st,        \* Storage, as far as it is about epochs, in memory
    db,        \* the same as of the last committed block
    comet,     \* epochs of CometBFT's sets: for this block and for the next
    phase,     \* "propose", "decided" or "finalized"
    header,    \* time of the block
    updates,   \* epoch of the validator set in FinalizeBlock's response
    history,   \* history[h]: epoch of the committed block at height h
    pred,      \* what the last commit replaced, and the time of its block
    begun      \* begun[e + 1]: when epoch e began, and the parameters that
               \* were in force then (for the properties only)

vars == <<st, db, comet, phase, header, updates, history, pred, begun>>

None == -1     \* of an Option

(* Mutant *)
OneBlockDelay == 1

EPOCH_SWITCH_BLOCKS_DELAY == 2

(* init_genesis_epoch *)
Init ==
    /\ \E n \in EpochBlocks, d \in EpochDurations :
          /\ st = [height |-> 0, epoch |-> 0,
                   first_block_heights |-> <<InitialHeight>>,
                   next_epoch_min_start_height |-> InitialHeight + n,
                   next_epoch_min_start_time |-> d,
                   update_epoch_blocks_delay |-> None]
          /\ begun = <<[time |-> 0, blocks |-> n, duration |-> d]>>
    /\ db = st
    /\ comet = [current |-> 0, next |-> 0]
    /\ phase = "propose"
    /\ header = 0
    /\ updates = None
    /\ history = <<>>
    /\ pred = [db |-> db, comet |-> comet, header |-> header]

-----------------------------------------------------------------------------
(* Epochs, the first block heights of every epoch *)

(* Mutant: a block that starts an epoch is counted to the one before. *)
GetEpochLate(first_block_heights, h) ==
    LET later == {j \in 2 .. Len(first_block_heights) : h <= first_block_heights[j]}
    IN  IF later = {} THEN Len(first_block_heights) - 1
        ELSE (CHOOSE j \in later : \A k \in later : j <= k) - 2

(* get_epoch: the loop stops at the first later epoch that starts after h. *)
GetEpoch(first_block_heights, h) ==
    LET later == {j \in 2 .. Len(first_block_heights) : h < first_block_heights[j]}
    IN  IF later = {} THEN Len(first_block_heights) - 1
        ELSE (CHOOSE j \in later : \A k \in later : j <= k) - 2

(* get_start_height_of_epoch *)
GetStartHeightOfEpoch(first_block_heights, e) ==
    IF e < Len(first_block_heights) THEN first_block_heights[e + 1] ELSE None

(* Mutant: the stored first height is taken at its word. *)
IsDecidingOffsetFromStored(height_offset) ==
    db.height + 1 =
      db.first_block_heights[Len(db.first_block_heights)] + height_offset

(* PosQueries::is_deciding_offset_within_epoch, on the committed state, as *)
(* in prepare_proposal and process_proposal                                *)
IsDecidingOffsetWithinEpoch(height_offset) ==
    LET current_decision_height == db.height + 1
    IN  IF db.epoch = 0 THEN current_decision_height = 1 + height_offset
        ELSE current_decision_height =
               db.first_block_heights[Len(db.first_block_heights)] + height_offset

(* Mutant: the set of the next epoch may always still change. *)
AlwaysNextEpoch(s) == s.epoch + 1

(* Shell::get_validator_set_update_epoch *)
GetValidatorSetUpdateEpoch(s) ==
    IF s.update_epoch_blocks_delay \in {None, EPOCH_SWITCH_BLOCKS_DELAY}
      THEN s.epoch + 1 ELSE s.epoch + 2

-----------------------------------------------------------------------------
(* Blocks *)

(* The delay after update_epoch has counted block h at time t. *)
NextDelay(s, h, t) ==
    IF s.update_epoch_blocks_delay # None THEN s.update_epoch_blocks_delay - 1
    ELSE IF /\ h >= s.next_epoch_min_start_height
            /\ t >= s.next_epoch_min_start_time
      THEN EPOCH_SWITCH_BLOCKS_DELAY
    ELSE None

(* Mutant: the delay is not reset. *)
UpdateEpochNoReset(s, h, t, n, d) ==
    IF NextDelay(s, h, t) = 0
      THEN [height |-> h, epoch |-> s.epoch + 1,
            first_block_heights |-> Append(s.first_block_heights, h),
            next_epoch_min_start_height |-> h + n,
            next_epoch_min_start_time |-> t + d,
            update_epoch_blocks_delay |-> 0]
      ELSE [s EXCEPT !.height = h, !.update_epoch_blocks_delay = NextDelay(s, h, t)]

(* Mutant: the minimum height of the next epoch is not set. *)
UpdateEpochNoMinHeight(s, h, t, n, d) ==
    IF NextDelay(s, h, t) = 0
      THEN [s EXCEPT !.height = h, !.epoch = @ + 1,
                     !.first_block_heights = Append(@, h),
                     !.next_epoch_min_start_time = t + d,
                     !.update_epoch_blocks_delay = None]
      ELSE [s EXCEPT !.height = h, !.update_epoch_blocks_delay = NextDelay(s, h, t)]

(* update_epoch for block h at time t, under parameters n and d *)
UpdateEpoch(s, h, t, n, d) ==
    IF NextDelay(s, h, t) = 0
      THEN [height |-> h, epoch |-> s.epoch + 1,
            first_block_heights |-> Append(s.first_block_heights, h),
            next_epoch_min_start_height |-> h + n,
            next_epoch_min_start_time |-> t + d,
            update_epoch_blocks_delay |-> None]
      ELSE [s EXCEPT !.height = h, !.update_epoch_blocks_delay = NextDelay(s, h, t)]

(* Consensus decides on the next block, at a later time. *)
Decide ==
    /\ phase = "propose"
    /\ db.height < MaxHeight
    /\ \E dt \in TimeSteps : header' = header + dt
    /\ phase' = "decided"
    /\ UNCHANGED <<st, db, comet, updates, history, pred, begun>>

(* finalize_block: update_state, and update_epoch when the switch has just *)
(* been scheduled                                                          *)
FinalizeBlock ==
    /\ phase = "decided"
    /\ \E n \in EpochBlocks, d \in EpochDurations :
          /\ st' = UpdateEpoch(st, st.height + 1, header, n, d)
          /\ begun' = IF st'.epoch = st.epoch THEN begun
                      ELSE Append(begun, [time |-> header, blocks |-> n, duration |-> d])
    /\ updates' = IF st'.update_epoch_blocks_delay = EPOCH_SWITCH_BLOCKS_DELAY
                    THEN st'.epoch + 1 ELSE None
    /\ phase' = "finalized"
    /\ UNCHANGED <<db, comet, header, history, pred>>

(* Shell::commit.  CometBFT moves to the next height: updates returned for *)
(* a block change the set that votes two blocks later.                     *)
Commit ==
    /\ phase = "finalized"
    /\ db' = st
    /\ comet' = [current |-> comet.next,
                 next |-> IF updates = None THEN comet.next ELSE updates]
    /\ history' = Append(history, st.epoch)
    /\ pred' = [db |-> db, comet |-> comet, header |-> header]
    /\ phase' = "propose"
    /\ updates' = None
    /\ UNCHANGED <<st, header, begun>>

(* The process stops and load_last_state brings back the last commit; a    *)
(* decided block is handed over again.                                     *)
Crash ==
    /\ st' = db
    /\ updates' = None
    /\ phase' = IF phase = "finalized" THEN "decided" ELSE phase
    /\ begun' = SubSeq(begun, 1, db.epoch + 1)
    /\ UNCHANGED <<db, comet, header, history, pred>>

Next == Decide \/ FinalizeBlock \/ Commit \/ Crash

Spec == Init /\ [][Next]_vars

-----------------------------------------------------------------------------
(* A node whose operator may take back the last block.  RocksDB::rollback  *)
(* puts back the keys saved under pred/ but one: the delay stays as the    *)
(* block that is taken back has left it.  CometBFT goes back as well, and  *)
(* hands the same block over again.  It does nothing when Namada is        *)
(* already at the height CometBFT has gone back to.                        *)

Rollback ==
    /\ phase # "finalized"
    /\ db.height >= 2 /\ pred.db.height = db.height - 1
    /\ db' = [pred.db EXCEPT
                !.update_epoch_blocks_delay = db.update_epoch_blocks_delay]
    /\ st' = db'
    /\ comet' = pred.comet
    /\ history' = SubSeq(history, 1, Len(history) - 1)
    /\ begun' = SubSeq(begun, 1, db'.epoch + 1)
    /\ phase' = "decided"
    /\ updates' = None
    /\ header' = pred.header
    /\ UNCHANGED pred

RollbackSpec == Init /\ [][Next \/ Rollback]_vars

-----------------------------------------------------------------------------
(* Properties *)

EpochState ==
    [height : Nat, epoch : Nat, first_block_heights : Seq(Nat),
     next_epoch_min_start_height : Nat, next_epoch_min_start_time : Nat,
     update_epoch_blocks_delay : {None} \cup 1 .. EPOCH_SWITCH_BLOCKS_DELAY]

EpochBegin == [time : Nat, blocks : Nat, duration : Nat]

(* Type invariant. *)
TypeOK ==
    /\ st \in EpochState /\ db \in EpochState
    /\ comet \in [current : Nat, next : Nat]
    /\ phase \in {"propose", "decided", "finalized"}
    /\ header \in Nat
    /\ updates \in Nat \cup {None}
    /\ history \in Seq(Nat)
    /\ pred \in [db : EpochState, comet : [current : Nat, next : Nat], header : Nat]
    /\ begun \in Seq(EpochBegin)

(* storage/mod.rs: "We delay epoch change 2 blocks to keep it in sync with *)
(* Tendermint".  Every block is voted on by the validator set of the epoch *)
(* that Namada counts the block to.                                        *)
ValidatorSetAligned == phase = "finalized" => comet.current = st.epoch

(* Slashing and jailing change the sets from get_validator_set_update_epoch *)
(* on.  That is the first epoch whose set has not been given to CometBFT:  *)
(* not an earlier one, so that no set changes after it was sent, and not a *)
(* later one, so that an offender is out as soon as possible.              *)
UpdatesNextUnsentSet ==
    phase = "finalized" => GetValidatorSetUpdateEpoch(st) = comet.next + 1

(* The epoch found for a past height is the one the block was executed in, *)
(* and the start of an epoch is the first block executed in it.            *)
EpochLookup ==
    /\ \A h \in 1 .. db.height :
          GetEpoch(db.first_block_heights, h) = history[h]
    /\ \A e \in 1 .. db.epoch :
          LET start == GetStartHeightOfEpoch(db.first_block_heights, e)
          IN  /\ start \in 2 .. Len(history)
              /\ history[start] = e /\ history[start - 1] = e - 1

(* The offset within the epoch that decides about wrappers and validator   *)
(* set updates is the number of blocks the epoch already has, in the first *)
(* epoch too, whatever height was stored for it.                           *)
DecidingOffsetCountsBlocks ==
    \A k \in 0 .. 3 : phase = "propose" =>
        (IsDecidingOffsetWithinEpoch(k)
           <=> Cardinality({h \in 1 .. Len(history) : history[h] = db.epoch}) = k)

(* Every epoch that is over has lasted at least as long as the parameters  *)
(* in force when it began ask for, however they were changed since: its    *)
(* blocks are min_num_of_blocks and the delay, its time min_duration.  The *)
(* first epoch may be one block shorter: it is counted from the height     *)
(* stored for genesis, which can be 0.                                     *)
EpochsLongEnough ==
    \A e \in 0 .. db.epoch - 1 :
        LET began == begun[e + 1]
            uncounted == IF e = 0 THEN 1 - InitialHeight ELSE 0
        IN  /\ Cardinality({h \in 1 .. Len(history) : history[h] = e})
                 >= began.blocks + EPOCH_SWITCH_BLOCKS_DELAY - uncounted
            /\ begun[e + 2].time >= began.time + began.duration

=============================================================================
