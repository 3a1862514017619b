-------------------------- MODULE EpochClockProofs --------------------------
(***************************************************************************)
(* Proofs about EpochClock, for all parameters and any number of blocks:   *)
(* Namada's count of two blocks from the decision to the switch of the     *)
(* epoch meets CometBFT's count of two blocks from a validator update to   *)
(* its vote.  The inductive invariant says where the count stands between  *)
(* two blocks (Waiting) and what finalize_block has made of it (Counted).  *)
(***************************************************************************)
EXTENDS EpochClock, FiniteSetTheorems, TLAPS

(* Between two blocks the delay tells which sets CometBFT has: none of the *)
(* next epoch, that of the next epoch in the block after the next one, or  *)
(* in the next block.                                                      *)
Waiting ==
    /\ comet.current = IF db.update_epoch_blocks_delay = 1 THEN db.epoch + 1 ELSE db.epoch
    /\ comet.next = IF db.update_epoch_blocks_delay = None THEN db.epoch ELSE db.epoch + 1

(* Before finalize_block the state in memory is the committed one. *)
Rest ==
    phase # "finalized" => st = db /\ updates = None

(* After it the delay has been counted. *)
Counted ==
    phase = "finalized" =>
      \/ /\ db.update_epoch_blocks_delay = None
         /\ st.epoch = db.epoch
         /\ \/ st.update_epoch_blocks_delay = None /\ updates = None
            \/ st.update_epoch_blocks_delay = 2 /\ updates = st.epoch + 1
      \/ /\ db.update_epoch_blocks_delay = 2
         /\ st.epoch = db.epoch
         /\ st.update_epoch_blocks_delay = 1
         /\ updates = None
      \/ /\ db.update_epoch_blocks_delay = 1
         /\ st.epoch = db.epoch + 1
         /\ st.update_epoch_blocks_delay = None
         /\ updates = None

(* The beginnings of the epochs so far are known. *)
Begun == Len(begun) = st.epoch + 1

(* The inductive invariant. *)
IInv == TypeOK /\ Waiting /\ Rest /\ Counted /\ Begun

(* update_epoch keeps the epoch state well formed: the delay never reaches *)
(* zero in it.                                                             *)
LEMMA UpdateEpochType ==
    ASSUME NEW s \in EpochState, NEW h \in Nat, NEW t \in Nat,
           NEW n \in Nat, NEW d \in Nat
    PROVE  UpdateEpoch(s, h, t, n, d) \in EpochState
<1>1. NextDelay(s, h, t) \in {None, 0, 1, 2}
  BY DEF NextDelay, EpochState, None, EPOCH_SWITCH_BLOCKS_DELAY
<1>2. CASE NextDelay(s, h, t) = 0
  <2>1. Append(s.first_block_heights, h) \in Seq(Nat)
    BY DEF EpochState
  <2>2. s.epoch + 1 \in Nat /\ h + n \in Nat /\ t + d \in Nat
    BY DEF EpochState
  <2> QED
    BY <1>2, <2>1, <2>2 DEF UpdateEpoch, EpochState
<1>3. CASE NextDelay(s, h, t) # 0
  <2>1. NextDelay(s, h, t) \in {None} \cup 1 .. EPOCH_SWITCH_BLOCKS_DELAY
    BY <1>1, <1>3 DEF EPOCH_SWITCH_BLOCKS_DELAY
  <2> QED
    BY <1>3, <2>1 DEF UpdateEpoch, EpochState
<1> QED
  BY <1>2, <1>3

(* What an epoch state holds. *)
LEMMA EpochStateFields ==
    ASSUME NEW s \in EpochState
    PROVE  /\ s.height \in Nat /\ s.epoch \in Nat
           /\ s.update_epoch_blocks_delay \in {None, 1, 2}
BY DEF EpochState, EPOCH_SWITCH_BLOCKS_DELAY

(* A prefix of the beginnings. *)
LEMMA Prefix ==
    ASSUME NEW s \in Seq(EpochBegin), NEW k \in 1 .. Len(s)
    PROVE  /\ SubSeq(s, 1, k) \in Seq(EpochBegin)
           /\ Len(SubSeq(s, 1, k)) = k
           /\ \A i \in 1 .. k : SubSeq(s, 1, k)[i] = s[i]
OBVIOUS

(* The genesis state has no switch under way. *)
LEMMA InitIInv == Init => IInv
<1> SUFFICES ASSUME Init PROVE IInv
  OBVIOUS
<1>1. st \in EpochState
  BY EpochClockAssumption DEF EpochClockAssumption, Init, EpochState, None
<1>2. TypeOK
  <2>1. PICK n \in EpochBlocks, d \in EpochDurations :
           begun = <<[time |-> 0, blocks |-> n, duration |-> d]>>
    BY DEF Init
  <2>2. [time |-> 0, blocks |-> n, duration |-> d] \in EpochBegin
    BY EpochClockAssumption DEF EpochClockAssumption, EpochBegin
  <2>3. begun \in Seq(EpochBegin) /\ Len(begun) = 1
    BY <2>1, <2>2
  <2> QED
    BY <1>1, <2>3 DEF Init, TypeOK
<1>3. Len(begun) = 1
  BY DEF Init
<1>4. /\ st.epoch = 0 /\ st.update_epoch_blocks_delay = None
      /\ comet.current = 0 /\ comet.next = 0
  BY DEF Init
<1>5. db = st /\ phase = "propose" /\ updates = None
  BY DEF Init
<1> QED
  BY <1>2, <1>3, <1>4, <1>5 DEF IInv, Waiting, Rest, Counted, Begun, None

(* finalize_block counts the delay once. *)
LEMMA FinalizeBlockIInv == IInv /\ FinalizeBlock => IInv'
<1> SUFFICES ASSUME IInv, FinalizeBlock PROVE IInv'
  OBVIOUS
<1> USE DEF IInv
<1>1. PICK n \in EpochBlocks, d \in EpochDurations :
         /\ st' = UpdateEpoch(st, st.height + 1, header, n, d)
         /\ begun' = IF st'.epoch = st.epoch THEN begun
                     ELSE Append(begun, [time |-> header, blocks |-> n, duration |-> d])
  BY DEF FinalizeBlock
<1>2. n \in Nat /\ d \in Nat /\ st.height + 1 \in Nat /\ header \in Nat
  <2>1. st \in EpochState /\ header \in Nat
    BY DEF TypeOK
  <2> QED
    BY <2>1, EpochStateFields, EpochClockAssumption DEF EpochClockAssumption
<1>3. st \in EpochState /\ st' \in EpochState
  BY <1>1, <1>2, UpdateEpochType DEF TypeOK
<1>4. TypeOK'
  <2>1. st'.epoch + 1 \in Nat
    BY <1>3, EpochStateFields
  <2>2. updates' \in Nat \cup {None}
    BY <2>1 DEF FinalizeBlock
  <2>3. [time |-> header, blocks |-> n, duration |-> d] \in EpochBegin
    BY <1>2 DEF EpochBegin
  <2>4. begun' \in Seq(EpochBegin)
    BY <1>1, <2>3 DEF TypeOK
  <2> QED
    BY <1>3, <2>2, <2>4 DEF FinalizeBlock, TypeOK
<1>5. st = db /\ updates = None
  BY DEF FinalizeBlock, Rest
<1>6. Counted'
  <2> DEFINE nd == NextDelay(st, st.height + 1, header)
  <2>1. nd = 0 => /\ st'.epoch = st.epoch + 1
                  /\ st'.update_epoch_blocks_delay = None
    BY <1>1 DEF UpdateEpoch
  <2>2. nd # 0 => /\ st'.epoch = st.epoch
                  /\ st'.update_epoch_blocks_delay = nd
    BY <1>1, <1>3 DEF UpdateEpoch, EpochState
  <2>3. st.update_epoch_blocks_delay \in {None, 1, 2}
    BY <1>3, EpochStateFields
  <2>4. /\ st.update_epoch_blocks_delay = None => nd \in {None, 2}
        /\ st.update_epoch_blocks_delay = 1 => nd = 0
        /\ st.update_epoch_blocks_delay = 2 => nd = 1
    BY DEF NextDelay, None, EPOCH_SWITCH_BLOCKS_DELAY
  <2> HIDE DEF nd
  <2>5. updates' = IF st'.update_epoch_blocks_delay = 2 THEN st'.epoch + 1 ELSE None
    BY DEF FinalizeBlock, EPOCH_SWITCH_BLOCKS_DELAY
  <2>6. db' = db
    BY DEF FinalizeBlock
  <2> QED
    BY <1>5, <2>1, <2>2, <2>3, <2>4, <2>5, <2>6 DEF Counted, None
<1>7. Waiting' /\ Rest'
  BY DEF FinalizeBlock, Waiting, Rest
<1>8. Begun'
  <2>1. st'.epoch \in {st.epoch, st.epoch + 1} /\ st.epoch \in Nat
    <3>1. st'.epoch \in {db'.epoch, db'.epoch + 1} /\ db' = db
      BY <1>6 DEF Counted, FinalizeBlock
    <3> QED
      BY <1>3, <1>5, <3>1, EpochStateFields
  <2>2. begun \in Seq(EpochBegin) /\ Len(begun) = st.epoch + 1
    BY DEF TypeOK, Begun
  <2>3. CASE st'.epoch = st.epoch
    BY <1>1, <2>2, <2>3 DEF Begun
  <2>4. CASE st'.epoch = st.epoch + 1
    <3>1. [time |-> header, blocks |-> n, duration |-> d] \in EpochBegin
      BY <1>2 DEF EpochBegin
    <3>2. Len(begun') = Len(begun) + 1
      BY <1>1, <2>1, <2>2, <2>4, <3>1
    <3> QED
      BY <2>1, <2>2, <2>4, <3>2 DEF Begun
  <2> QED
    BY <2>1, <2>3, <2>4
<1> QED
  BY <1>4, <1>6, <1>7, <1>8

(* The commit moves CometBFT and the committed state on together. *)
LEMMA CommitIInv == IInv /\ Commit => IInv'
<1> SUFFICES ASSUME IInv, Commit PROVE IInv'
  OBVIOUS
<1> USE DEF IInv
<1>1. TypeOK'
  <2>1. Append(history, st.epoch) \in Seq(Nat)
    BY DEF TypeOK, EpochState
  <2>2. comet' \in [current : Nat, next : Nat]
    BY DEF Commit, TypeOK
  <2> QED
    BY <2>1, <2>2 DEF Commit, TypeOK
<1>2. Waiting'
  <2>1. /\ comet'.current = comet.next
        /\ comet'.next = IF updates = None THEN comet.next ELSE updates
        /\ db' = st
    BY DEF Commit
  <2>2. st.epoch \in Nat /\ db.epoch \in Nat
    BY DEF TypeOK, EpochState
  <2>3. Counted /\ Waiting /\ phase = "finalized"
    BY DEF Commit
  <2> QED
    BY <2>1, <2>2, <2>3 DEF Counted, Waiting, None
<1>3. Rest' /\ Counted' /\ Begun'
  BY DEF Commit, Rest, Counted, Begun
<1> QED
  BY <1>1, <1>2, <1>3

(* No step, a crash included, loses the count. *)
LEMMA NextIInv == IInv /\ [Next]_vars => IInv'
<1> SUFFICES ASSUME IInv, [Next]_vars PROVE IInv'
  OBVIOUS
<1>1. CASE Decide
  <2>1. header' \in Nat
    BY <1>1, EpochClockAssumption DEF EpochClockAssumption, Decide, IInv, TypeOK
  <2> QED
    BY <1>1, <2>1 DEF Decide, IInv, TypeOK, Waiting, Rest, Counted, Begun
<1>2. CASE FinalizeBlock
  BY <1>2, FinalizeBlockIInv
<1>3. CASE Commit
  BY <1>3, CommitIInv
<1>4. CASE Crash
  <2>1. db.epoch + 1 \in 1 .. Len(begun) /\ begun \in Seq(EpochBegin)
    <3>1. st.epoch \in Nat /\ db.epoch \in Nat /\ begun \in Seq(EpochBegin)
      BY EpochStateFields DEF IInv, TypeOK
    <3>2. st.epoch \in {db.epoch, db.epoch + 1} /\ Len(begun) = st.epoch + 1
      BY DEF IInv, Rest, Counted, Begun
    <3> QED
      BY <3>1, <3>2
  <2>2. begun' \in Seq(EpochBegin) /\ Len(begun') = db.epoch + 1
    <3>1. begun' = SubSeq(begun, 1, db.epoch + 1)
      BY <1>4 DEF Crash
    <3> QED
      BY <2>1, <3>1, Prefix
  <2>3. TypeOK'
    BY <1>4, <2>2 DEF Crash, IInv, TypeOK
  <2>4. Begun'
    BY <1>4, <2>2 DEF Crash, Begun
  <2> QED
    BY <1>4, <2>3, <2>4 DEF Crash, IInv, TypeOK, Waiting, Rest, Counted
<1>5. CASE UNCHANGED vars
  BY <1>5 DEF vars, IInv, TypeOK, Waiting, Rest, Counted, Begun
<1> QED
  BY <1>1, <1>2, <1>3, <1>4, <1>5 DEF Next

(* The state of a node stays well formed: the delay is unset, 1 or 2. *)
THEOREM EpochClockTypeCorrect == Spec => []TypeOK
<1>1. IInv => TypeOK
  BY DEF IInv
<1> QED
  BY <1>1, InitIInv, NextIInv, PTL DEF Spec

(* Every block is executed in the epoch whose validator set votes on it,   *)
(* whatever the parameters and wherever the node stops and starts again.   *)
THEOREM SetsStayAligned == Spec => []ValidatorSetAligned
<1>1. IInv => ValidatorSetAligned
  <2> SUFFICES ASSUME IInv, phase = "finalized" PROVE comet.current = st.epoch
    BY DEF ValidatorSetAligned
  <2>1. Waiting /\ Counted
    BY DEF IInv
  <2> QED
    BY <2>1 DEF Waiting, Counted, None
<1> QED
  BY <1>1, InitIInv, NextIInv, PTL DEF Spec

(* Slashing changes the first validator set CometBFT has not been given.   *)
THEOREM UpdatesGoToUnsentSet == Spec => []UpdatesNextUnsentSet
<1>1. IInv => UpdatesNextUnsentSet
  <2> SUFFICES ASSUME IInv, phase = "finalized"
               PROVE  GetValidatorSetUpdateEpoch(st) = comet.next + 1
    BY DEF UpdatesNextUnsentSet
  <2>1. Waiting /\ Counted
    BY DEF IInv
  <2>2. db.epoch \in Nat
    BY EpochStateFields DEF IInv, TypeOK
  <2> QED
    BY <2>1, <2>2 DEF Waiting, Counted, None, GetValidatorSetUpdateEpoch,
                      EPOCH_SWITCH_BLOCKS_DELAY
<1> QED
  BY <1>1, InitIInv, NextIInv, PTL DEF Spec

-----------------------------------------------------------------------------
(* The epochs of past heights.  BlocksOfEpochs relates the first block     *)
(* heights that are stored to the epochs the blocks were executed in.      *)
BlocksOfEpochs(first, epoch, height, hist) ==
    /\ Len(first) = epoch + 1
    /\ Len(hist) = height
    /\ \A h \in 1 .. height : hist[h] \in 0 .. epoch
    /\ height >= 1 => hist[height] = epoch
    /\ \A j \in 2 .. Len(first) :
          /\ first[j] \in 2 .. height
          /\ hist[first[j]] = j - 1 /\ hist[first[j] - 1] = j - 2
          /\ \A h \in 1 .. height : h < first[j] <=> hist[h] < j - 1

(* The committed state, as far as lookups go. *)
Committed ==
    /\ BlocksOfEpochs(db.first_block_heights, db.epoch, db.height, history)
    /\ db.update_epoch_blocks_delay # None => db.height >= 1

(* finalize_block adds its block to the current epoch or starts the next.  *)
Extended ==
    phase = "finalized" =>
      /\ st.height = db.height + 1
      /\ \/ /\ st.epoch = db.epoch
            /\ st.first_block_heights = db.first_block_heights
         \/ /\ st.epoch = db.epoch + 1
            /\ st.first_block_heights = Append(db.first_block_heights, st.height)
            /\ db.update_epoch_blocks_delay # None

(* The strengthening for lookups. *)
LInv == IInv /\ Committed /\ Extended

(* What appending to a sequence of numbers gives. *)
LEMMA AppendNat ==
    ASSUME NEW s \in Seq(Nat), NEW e \in Nat
    PROVE  /\ Append(s, e) \in Seq(Nat)
           /\ Len(Append(s, e)) = Len(s) + 1
           /\ Append(s, e)[Len(s) + 1] = e
           /\ \A i \in 1 .. Len(s) : Append(s, e)[i] = s[i]
OBVIOUS

(* A block in the current epoch keeps the lookups right. *)
LEMMA BlockInEpoch ==
    ASSUME NEW first \in Seq(Nat), NEW epoch \in Nat, NEW height \in Nat,
           NEW hist \in Seq(Nat), BlocksOfEpochs(first, epoch, height, hist)
    PROVE  BlocksOfEpochs(first, epoch, height + 1, Append(hist, epoch))
<1> DEFINE hist1 == Append(hist, epoch)
<1>1. Len(first) = epoch + 1 /\ Len(hist) = height
  BY DEF BlocksOfEpochs
<1>2. /\ Len(hist1) = height + 1 /\ hist1[height + 1] = epoch
      /\ \A h \in 1 .. height : hist1[h] = hist[h]
  BY <1>1, AppendNat
<1> HIDE DEF hist1
<1>3. ASSUME NEW h \in 1 .. height + 1 PROVE hist1[h] \in 0 .. epoch
  <2>1. CASE h = height + 1
    BY <1>2, <2>1
  <2>2. CASE h \in 1 .. height
    BY <1>2, <2>2 DEF BlocksOfEpochs
  <2> QED
    BY <2>1, <2>2
<1>4. ASSUME NEW j \in 2 .. Len(first)
      PROVE  /\ first[j] \in 2 .. height + 1
             /\ hist1[first[j]] = j - 1 /\ hist1[first[j] - 1] = j - 2
             /\ \A h \in 1 .. height + 1 : h < first[j] <=> hist1[h] < j - 1
  <2> DEFINE f == first[j]
  <2>1. /\ f \in 2 .. height
        /\ hist[f] = j - 1 /\ hist[f - 1] = j - 2
        /\ \A h \in 1 .. height : h < f <=> hist[h] < j - 1
    BY DEF BlocksOfEpochs
  <2> HIDE DEF f
  <2>2. f \in 1 .. height /\ f - 1 \in 1 .. height /\ f \in 2 .. height + 1
    BY <2>1
  <2>3. hist1[f] = j - 1 /\ hist1[f - 1] = j - 2
    BY <1>2, <2>1, <2>2
  <2>4. ASSUME NEW h \in 1 .. height + 1 PROVE h < f <=> hist1[h] < j - 1
    <3>1. CASE h \in 1 .. height
      BY <1>2, <2>1, <3>1
    <3>2. CASE h = height + 1
      BY <1>1, <1>2, <2>2, <3>2
    <3> QED
      BY <3>1, <3>2
  <2> QED
    BY <2>2, <2>3, <2>4 DEF f
<1> QED
  BY <1>1, <1>2, <1>3, <1>4 DEF BlocksOfEpochs, hist1

(* A block that starts an epoch keeps the lookups right. *)
LEMMA BlockStartsEpoch ==
    ASSUME NEW first \in Seq(Nat), NEW epoch \in Nat, NEW height \in Nat,
           NEW hist \in Seq(Nat), BlocksOfEpochs(first, epoch, height, hist),
           height >= 1
    PROVE  BlocksOfEpochs(Append(first, height + 1), epoch + 1, height + 1,
                          Append(hist, epoch + 1))
<1> DEFINE hist1 == Append(hist, epoch + 1)
           first1 == Append(first, height + 1)
<1>1. Len(first) = epoch + 1 /\ Len(hist) = height /\ hist[height] = epoch
  BY DEF BlocksOfEpochs
<1>2. /\ Len(hist1) = height + 1 /\ hist1[height + 1] = epoch + 1
      /\ \A h \in 1 .. height : hist1[h] = hist[h]
  BY <1>1, AppendNat
<1>3. /\ Len(first1) = epoch + 2 /\ first1[epoch + 2] = height + 1
      /\ \A j \in 1 .. epoch + 1 : first1[j] = first[j]
  <2>1. /\ Len(first1) = Len(first) + 1 /\ first1[Len(first) + 1] = height + 1
        /\ \A j \in 1 .. Len(first) : first1[j] = first[j]
    BY AppendNat
  <2>2. Len(first) + 1 = epoch + 2
    BY <1>1
  <2> QED
    BY <1>1, <2>1, <2>2
<1> HIDE DEF hist1, first1
<1>4. ASSUME NEW h \in 1 .. height PROVE hist1[h] \in 0 .. epoch
  BY <1>2 DEF BlocksOfEpochs
<1>5. ASSUME NEW h \in 1 .. height + 1 PROVE hist1[h] \in 0 .. epoch + 1
  <2>1. CASE h = height + 1
    BY <1>2, <2>1
  <2>2. CASE h \in 1 .. height
    BY <1>4, <2>2
  <2> QED
    BY <2>1, <2>2
<1>6. ASSUME NEW j \in 2 .. Len(first1)
      PROVE  /\ first1[j] \in 2 .. height + 1
             /\ hist1[first1[j]] = j - 1 /\ hist1[first1[j] - 1] = j - 2
             /\ \A h \in 1 .. height + 1 : h < first1[j] <=> hist1[h] < j - 1
  <2>1. CASE j = epoch + 2
    <3>1. first1[j] = height + 1 /\ hist1[height] = epoch
      BY <1>1, <1>2, <1>3, <2>1
    <3>2. ASSUME NEW h \in 1 .. height + 1
          PROVE  h < height + 1 <=> hist1[h] < epoch + 1
      <4>1. CASE h = height + 1
        BY <1>2, <4>1
      <4>2. CASE h \in 1 .. height
        BY <1>4, <4>2
      <4> QED
        BY <4>1, <4>2
    <3> QED
      BY <1>2, <2>1, <3>1, <3>2
  <2>2. CASE j \in 2 .. epoch + 1
    <3> DEFINE f == first1[j]
    <3>1. /\ f = first[j] /\ f \in 2 .. height
          /\ hist[f] = j - 1 /\ hist[f - 1] = j - 2
          /\ \A h \in 1 .. height : h < f <=> hist[h] < j - 1
      <4>1. j \in 2 .. Len(first) /\ f = first[j]
        BY <1>1, <1>3, <2>2
      <4>2. \A i \in 2 .. Len(first) :
               /\ first[i] \in 2 .. height
               /\ hist[first[i]] = i - 1 /\ hist[first[i] - 1] = i - 2
               /\ \A h \in 1 .. height : h < first[i] <=> hist[h] < i - 1
        BY DEF BlocksOfEpochs
      <4> HIDE DEF f
      <4> QED
        BY <4>1, <4>2
    <3> HIDE DEF f
    <3>2. f \in 1 .. height /\ f - 1 \in 1 .. height /\ f \in 2 .. height + 1
      <4>1. f \in 2 .. height
        BY <3>1
      <4> QED
        BY <4>1
    <3>3. hist1[f] = j - 1 /\ hist1[f - 1] = j - 2
      BY <1>2, <3>1, <3>2
    <3>4. ASSUME NEW h \in 1 .. height + 1 PROVE h < f <=> hist1[h] < j - 1
      <4>1. CASE h \in 1 .. height
        BY <1>2, <3>1, <4>1
      <4>2. CASE h = height + 1
        BY <1>2, <2>2, <3>2, <4>2
      <4> QED
        BY <4>1, <4>2
    <3> QED
      BY <3>2, <3>3, <3>4 DEF f
  <2> QED
    BY <1>3, <2>1, <2>2
<1>7. epoch + 2 = (epoch + 1) + 1
  OBVIOUS
<1> QED
  BY <1>2, <1>3, <1>5, <1>6, <1>7 DEF BlocksOfEpochs, hist1, first1

(* At genesis no block has an epoch. *)
LEMMA InitLInv == Init => LInv
<1> SUFFICES ASSUME Init PROVE LInv
  OBVIOUS
<1>1. /\ db.first_block_heights = <<InitialHeight>> /\ db.epoch = 0 /\ db.height = 0
      /\ db.update_epoch_blocks_delay = None /\ history = <<>> /\ phase = "propose"
  BY DEF Init
<1>2. Committed
  BY <1>1 DEF Committed, BlocksOfEpochs
<1> QED
  BY <1>1, <1>2, InitIInv DEF LInv, Extended

(* finalize_block touches neither the committed state nor its history.     *)
LEMMA FinalizeBlockLInv == LInv /\ FinalizeBlock => LInv'
<1> SUFFICES ASSUME LInv, FinalizeBlock PROVE LInv'
  OBVIOUS
<1>1. IInv'
  BY FinalizeBlockIInv DEF LInv
<1>2. Committed'
  BY DEF LInv, Committed, FinalizeBlock
<1>3. Extended'
  <2>1. \E n \in EpochBlocks, d \in EpochDurations :
           st' = UpdateEpoch(st, st.height + 1, header, n, d)
    BY DEF FinalizeBlock
  <2>2. st = db /\ db' = db /\ st \in EpochState
    BY DEF FinalizeBlock, LInv, IInv, Rest, TypeOK
  <2> DEFINE nd == NextDelay(st, st.height + 1, header)
  <2>3. nd = 0 => /\ st'.height = st.height + 1 /\ st'.epoch = st.epoch + 1
                  /\ st'.first_block_heights = Append(st.first_block_heights, st.height + 1)
    BY <2>1 DEF UpdateEpoch
  <2>4. nd # 0 => /\ st'.height = st.height + 1 /\ st'.epoch = st.epoch
                  /\ st'.first_block_heights = st.first_block_heights
    BY <2>1, <2>2 DEF UpdateEpoch, EpochState
  <2>5. nd = 0 => st.update_epoch_blocks_delay # None
    BY DEF NextDelay, None, EPOCH_SWITCH_BLOCKS_DELAY
  <2> HIDE DEF nd
  <2> QED
    BY <2>2, <2>3, <2>4, <2>5 DEF Extended
<1> QED
  BY <1>1, <1>2, <1>3 DEF LInv

(* The commit adds the block to its epoch. *)
LEMMA CommitLInv == LInv /\ Commit => LInv'
<1> SUFFICES ASSUME LInv, Commit PROVE LInv'
  OBVIOUS
<1>1. IInv'
  BY CommitIInv DEF LInv
<1>2. /\ db' = st /\ history' = Append(history, st.epoch)
      /\ phase = "finalized" /\ phase' = "propose"
  BY DEF Commit
<1>3. /\ db.first_block_heights \in Seq(Nat) /\ db.epoch \in Nat /\ db.height \in Nat
      /\ history \in Seq(Nat)
  BY DEF LInv, IInv, TypeOK, EpochState
<1>4. BlocksOfEpochs(db.first_block_heights, db.epoch, db.height, history)
  BY DEF LInv, Committed
<1>5. st.height = db.height + 1
  BY <1>2 DEF LInv, Extended
<1>6. BlocksOfEpochs(st.first_block_heights, st.epoch, st.height, Append(history, st.epoch))
  <2>1. CASE /\ st.epoch = db.epoch
             /\ st.first_block_heights = db.first_block_heights
    BY <1>3, <1>4, <1>5, <2>1, BlockInEpoch
  <2>2. CASE /\ st.epoch = db.epoch + 1
             /\ st.first_block_heights = Append(db.first_block_heights, st.height)
             /\ db.update_epoch_blocks_delay # None
    <3>1. db.height >= 1
      BY <2>2 DEF LInv, Committed
    <3> QED
      BY <1>3, <1>4, <1>5, <2>2, <3>1, BlockStartsEpoch
  <2> QED
    BY <1>2, <2>1, <2>2 DEF LInv, Extended
<1>7. Committed'
  BY <1>2, <1>3, <1>5, <1>6 DEF Committed
<1>8. Extended'
  BY <1>2 DEF Extended
<1> QED
  BY <1>1, <1>7, <1>8 DEF LInv

(* Lookups stay right in every step. *)
LEMMA NextLInv == LInv /\ [Next]_vars => LInv'
<1> SUFFICES ASSUME LInv, [Next]_vars PROVE LInv'
  OBVIOUS
<1>1. CASE FinalizeBlock
  BY <1>1, FinalizeBlockLInv
<1>2. CASE Commit
  BY <1>2, CommitLInv
<1>3. CASE Decide \/ Crash \/ UNCHANGED vars
  <2>1. IInv'
    BY NextIInv DEF LInv
  <2>2. Committed'
    BY <1>3 DEF Decide, Crash, vars, LInv, Committed
  <2>3. Extended'
    BY <1>3 DEF Decide, Crash, vars, LInv, Extended, IInv, TypeOK
  <2> QED
    BY <2>1, <2>2, <2>3 DEF LInv
<1> QED
  BY <1>1, <1>2, <1>3 DEF Next

(* get_epoch is right for every past block, on the strength of            *)
(* BlocksOfEpochs.                                                         *)
LEMMA GetEpochCorrect ==
    ASSUME NEW first \in Seq(Nat), NEW epoch \in Nat, NEW height \in Nat,
           NEW hist \in Seq(Nat), BlocksOfEpochs(first, epoch, height, hist),
           NEW h \in 1 .. height
    PROVE  GetEpoch(first, h) = hist[h]
<1> DEFINE later == {j \in 2 .. Len(first) : h < first[j]}
<1>1. Len(first) = epoch + 1 /\ hist[h] \in 0 .. epoch
  BY DEF BlocksOfEpochs
<1>2. \A j \in 2 .. Len(first) : h < first[j] <=> hist[h] < j - 1
  BY DEF BlocksOfEpochs
<1>3. later = {j \in 2 .. epoch + 1 : hist[h] < j - 1}
  BY <1>1, <1>2, SMTT(30)
<1>4. GetEpoch(first, h) =
         IF later = {} THEN Len(first) - 1
         ELSE (CHOOSE j \in later : \A k \in later : j <= k) - 2
  BY DEF GetEpoch
<1> HIDE DEF later
<1>5. CASE hist[h] = epoch
  <2>1. later = {}
    BY <1>1, <1>3, <1>5
  <2> QED
    BY <1>1, <1>4, <1>5, <2>1
<1>6. CASE hist[h] # epoch
  <2> DEFINE e == hist[h]
  <2>1. e \in 0 .. epoch /\ e # epoch
    BY <1>1, <1>6
  <2>2. later = {j \in 2 .. epoch + 1 : e < j - 1}
    BY <1>3
  <2> HIDE DEF e
  <2>3. e + 2 \in later /\ \A k \in later : e + 2 <= k
    BY <2>1, <2>2
  <2>4. \A j \in later : (\A k \in later : j <= k) => j = e + 2
    BY <2>1, <2>2, <2>3
  <2>5. (CHOOSE j \in later : \A k \in later : j <= k) = e + 2
    BY <2>3, <2>4
  <2> DEFINE least == CHOOSE j \in later : \A k \in later : j <= k
  <2>6. least = e + 2 /\ GetEpoch(first, h) = least - 2
    BY <1>4, <2>3, <2>5
  <2> HIDE DEF least
  <2>7. GetEpoch(first, h) = e
    BY <2>1, <2>6
  <2> QED
    BY <2>7 DEF e
<1> QED
  BY <1>5, <1>6

(* Every epoch lookup by height, and every first height of an epoch, tells *)
(* what was executed.                                                      *)
THEOREM EpochLookupCorrect == Spec => []EpochLookup
<1>1. LInv => EpochLookup
  <2> SUFFICES ASSUME LInv PROVE EpochLookup
    OBVIOUS
  <2>1. /\ db.first_block_heights \in Seq(Nat) /\ db.epoch \in Nat /\ db.height \in Nat
        /\ history \in Seq(Nat)
    BY DEF LInv, IInv, TypeOK, EpochState
  <2>2. BlocksOfEpochs(db.first_block_heights, db.epoch, db.height, history)
    BY DEF LInv, Committed
  <2>3. \A h \in 1 .. db.height : GetEpoch(db.first_block_heights, h) = history[h]
    BY <2>1, <2>2, GetEpochCorrect
  <2>4. ASSUME NEW e \in 1 .. db.epoch
        PROVE  LET start == GetStartHeightOfEpoch(db.first_block_heights, e)
               IN  /\ start \in 2 .. Len(history)
                   /\ history[start] = e /\ history[start - 1] = e - 1
    <3> DEFINE first == db.first_block_heights
    <3>1. Len(first) = db.epoch + 1 /\ Len(history) = db.height
      BY <2>2 DEF BlocksOfEpochs
    <3>2. e + 1 \in 2 .. Len(first) /\ e < Len(first)
      BY <2>1, <3>1, SMTT(30)
    <3>3. /\ first[e + 1] \in 2 .. db.height
          /\ history[first[e + 1]] = (e + 1) - 1 /\ history[first[e + 1] - 1] = (e + 1) - 2
      <4>1. \A j \in 2 .. Len(first) :
               /\ first[j] \in 2 .. db.height
               /\ history[first[j]] = j - 1 /\ history[first[j] - 1] = j - 2
        BY <2>2 DEF BlocksOfEpochs
      <4> HIDE DEF first
      <4> QED
        BY <3>2, <4>1
    <3>4. GetStartHeightOfEpoch(first, e) = first[e + 1]
      BY <3>2 DEF GetStartHeightOfEpoch
    <3> QED
      BY <3>1, <3>3, <3>4
  <2> QED
    BY <2>3, <2>4 DEF EpochLookup
<1> QED
  BY <1>1, InitLInv, NextLInv, PTL DEF Spec


(* The offset of the block being decided within its epoch, which proposers *)
(* and validators test, is the number of blocks the epoch has so far.      *)
THEOREM DecidingOffsetCorrect == Spec => []DecidingOffsetCountsBlocks
<1>1. LInv => DecidingOffsetCountsBlocks
  <2> SUFFICES ASSUME LInv, NEW k \in 0 .. 3, phase = "propose"
               PROVE  IsDecidingOffsetWithinEpoch(k)
                        <=> Cardinality({h \in 1 .. Len(history) : history[h] = db.epoch}) = k
    BY DEF DecidingOffsetCountsBlocks
  <2> DEFINE inEpoch == {h \in 1 .. Len(history) : history[h] = db.epoch}
             first == db.first_block_heights
             epoch == db.epoch
             height == db.height
  <2>1. first \in Seq(Nat) /\ epoch \in Nat /\ height \in Nat
    BY DEF LInv, IInv, TypeOK, EpochState
  <2>2. BlocksOfEpochs(first, epoch, height, history)
    BY DEF LInv, Committed
  <2>3. IsDecidingOffsetWithinEpoch(k)
          <=> IF epoch = 0 THEN height + 1 = 1 + k
              ELSE height + 1 = first[Len(first)] + k
    BY DEF IsDecidingOffsetWithinEpoch
  <2>4. inEpoch = {h \in 1 .. Len(history) : history[h] = epoch}
    OBVIOUS
  <2> HIDE DEF inEpoch, first, epoch, height
  <2>5. /\ Len(first) = epoch + 1 /\ Len(history) = height
        /\ \A h \in 1 .. height : history[h] \in 0 .. epoch
    BY <2>2 DEF BlocksOfEpochs
  <2>6. CASE epoch = 0
    <3>1. inEpoch = 1 .. height
      BY <2>4, <2>5, <2>6
    <3>2. Cardinality(inEpoch) = height
      <4>1. Cardinality(1 .. height) = IF 1 > height THEN 0 ELSE height - 1 + 1
        BY <2>1, FS_Interval
      <4> QED
        BY <2>1, <3>1, <4>1
    <3> QED
      BY <2>1, <2>3, <2>6, <3>2 DEF inEpoch
  <2>7. CASE epoch # 0
    <3> DEFINE f == first[Len(first)]
    <3>1. /\ f \in 2 .. height
          /\ \A h \in 1 .. height : h < f <=> history[h] < epoch
      <4>1. Len(first) \in 2 .. Len(first) /\ Len(first) - 1 = epoch
        BY <2>1, <2>5, <2>7
      <4>2. \A j \in 2 .. Len(first) :
               /\ first[j] \in 2 .. height
               /\ \A h \in 1 .. height : h < first[j] <=> history[h] < j - 1
        BY <2>2 DEF BlocksOfEpochs
      <4> QED
        BY <4>1, <4>2
    <3> HIDE DEF f
    <3>2. inEpoch = f .. height
      <4>1. ASSUME NEW h \in 1 .. height PROVE history[h] = epoch <=> h >= f
        BY <2>1, <2>5, <3>1
      <4>2. f .. height \subseteq 1 .. height
        BY <2>1, <3>1
      <4> QED
        BY <2>1, <2>4, <2>5, <3>1, <4>1, <4>2
    <3>3. Cardinality(inEpoch) = height - f + 1
      <4>1. f \in Int /\ height \in Int /\ f <= height
        BY <2>1, <3>1
      <4>2. Cardinality(f .. height) = IF f > height THEN 0 ELSE height - f + 1
        BY <4>1, FS_Interval
      <4> QED
        BY <3>2, <4>1, <4>2
    <3>4. height + 1 = f + k <=> Cardinality(inEpoch) = k
      BY <2>1, <3>1, <3>3
    <3> QED
      BY <2>3, <2>7, <3>4 DEF f, inEpoch
  <2> QED
    BY <2>6, <2>7
<1> QED
  BY <1>1, InitLInv, NextLInv, PTL DEF Spec

-----------------------------------------------------------------------------
(* How long epochs last.  Long relates an epoch state to the beginnings of *)
(* its epochs at time t: the bounds stored for the current epoch are those *)
(* of its beginning, a switch is under way only past them and by as many   *)
(* blocks as the delay has counted, and the epochs before were long enough.*)
Long(s, b, t) ==
    /\ Len(s.first_block_heights) = s.epoch + 1 /\ s.epoch + 1 <= Len(b)
    /\ s.first_block_heights[1] = InitialHeight
    /\ s.next_epoch_min_start_height
         = s.first_block_heights[s.epoch + 1] + b[s.epoch + 1].blocks
    /\ s.next_epoch_min_start_time
         = b[s.epoch + 1].time + b[s.epoch + 1].duration
    /\ s.update_epoch_blocks_delay # None =>
         /\ s.height + s.update_epoch_blocks_delay
              >= s.next_epoch_min_start_height + EPOCH_SWITCH_BLOCKS_DELAY
         /\ t >= s.next_epoch_min_start_time
    /\ \A e \in 1 .. s.epoch :
         /\ s.first_block_heights[e + 1]
              >= s.first_block_heights[e] + b[e].blocks + EPOCH_SWITCH_BLOCKS_DELAY
         /\ b[e + 1].time >= b[e].time + b[e].duration

(* The strengthening for the length of epochs. *)
DInv == LInv /\ Long(st, begun, header) /\ Long(db, begun, header)

(* Long depends on the beginnings up to the current epoch only, and stays  *)
(* true as time goes on.                                                   *)
LEMMA LongPrefix ==
    ASSUME NEW s \in EpochState, NEW b \in Seq(EpochBegin), NEW c \in Seq(EpochBegin),
           NEW t \in Nat, NEW u \in Nat, t <= u, Long(s, b, t),
           s.epoch + 1 <= Len(c), \A i \in 1 .. s.epoch + 1 : c[i] = b[i]
    PROVE  Long(s, c, u)
<1>1. s.epoch \in Nat /\ s.next_epoch_min_start_time \in Nat
  BY DEF EpochState
<1>2. \A e \in 1 .. s.epoch : c[e] = b[e] /\ c[e + 1] = b[e + 1]
  BY <1>1
<1>3. c[s.epoch + 1] = b[s.epoch + 1]
  BY <1>1, SMTT(30)
<1>4. s.update_epoch_blocks_delay # None => u >= s.next_epoch_min_start_time
  BY <1>1 DEF Long
<1> QED
  BY <1>2, <1>3, <1>4 DEF Long

(* update_epoch at the next height keeps it, with the beginning of the     *)
(* epoch it may start.                                                     *)
LEMMA UpdateEpochLong ==
    ASSUME NEW s \in EpochState, NEW b \in Seq(EpochBegin), NEW t \in Nat,
           NEW n \in Nat, NEW d \in Nat, Long(s, b, t), Len(b) = s.epoch + 1
    PROVE  LET r == UpdateEpoch(s, s.height + 1, t, n, d)
           IN  Long(r, IF r.epoch = s.epoch THEN b
                       ELSE Append(b, [time |-> t, blocks |-> n, duration |-> d]), t)
<1> DEFINE r == UpdateEpoch(s, s.height + 1, t, n, d)
           c == IF r.epoch = s.epoch THEN b
                ELSE Append(b, [time |-> t, blocks |-> n, duration |-> d])
<1> SUFFICES Long(r, c, t)
  OBVIOUS
<1> DEFINE nd == NextDelay(s, s.height + 1, t)
           first == s.first_block_heights
           new == [time |-> t, blocks |-> n, duration |-> d]
           delay == s.update_epoch_blocks_delay
<1>1. /\ s.height \in Nat /\ s.epoch \in Nat /\ first \in Seq(Nat)
      /\ s.next_epoch_min_start_height \in Nat /\ s.next_epoch_min_start_time \in Nat
      /\ delay \in {None, 1, 2}
  BY DEF EpochState, EPOCH_SWITCH_BLOCKS_DELAY
<1>2. /\ delay # None => nd = delay - 1
      /\ delay = None => nd \in {None, 2}
      /\ (delay = None /\ nd = 2) => /\ s.height + 1 >= s.next_epoch_min_start_height
                                     /\ t >= s.next_epoch_min_start_time
  BY DEF NextDelay, None, EPOCH_SWITCH_BLOCKS_DELAY
<1>3. delay # None =>
         /\ s.height + delay >= s.next_epoch_min_start_height + 2
         /\ t >= s.next_epoch_min_start_time
  BY DEF Long, EPOCH_SWITCH_BLOCKS_DELAY
<1>4. /\ Len(first) = s.epoch + 1
      /\ s.next_epoch_min_start_height = first[s.epoch + 1] + b[s.epoch + 1].blocks
      /\ s.next_epoch_min_start_time = b[s.epoch + 1].time + b[s.epoch + 1].duration
      /\ first[1] = InitialHeight
      /\ \A e \in 1 .. s.epoch :
            /\ first[e + 1] >= first[e] + b[e].blocks + 2
            /\ b[e + 1].time >= b[e].time + b[e].duration
  BY DEF Long, EPOCH_SWITCH_BLOCKS_DELAY
<1>5. CASE nd = 0
  <2>1. delay = 1
    BY <1>1, <1>2, <1>5, SMTT(30) DEF None
  <2>2. /\ s.height + 1 >= s.next_epoch_min_start_height + 2
        /\ t >= s.next_epoch_min_start_time
    BY <1>3, <2>1 DEF None
  <2>3. r = [height |-> s.height + 1, epoch |-> s.epoch + 1,
             first_block_heights |-> Append(first, s.height + 1),
             next_epoch_min_start_height |-> s.height + 1 + n,
             next_epoch_min_start_time |-> t + d,
             update_epoch_blocks_delay |-> None]
    BY <1>5 DEF UpdateEpoch
  <2> DEFINE rfirst == Append(first, s.height + 1)
  <2>4. c = Append(b, new)
    <3>1. r.epoch = s.epoch + 1
      BY <2>3
    <3> HIDE DEF r
    <3>2. r.epoch # s.epoch
      BY <1>1, <3>1
    <3> QED
      BY <3>2
  <2> HIDE DEF r, c
  <2>5. /\ Len(rfirst) = s.epoch + 2 /\ rfirst[s.epoch + 2] = s.height + 1
        /\ \A j \in 1 .. s.epoch + 1 : rfirst[j] = first[j]
    <3>1. /\ Len(rfirst) = Len(first) + 1 /\ rfirst[Len(first) + 1] = s.height + 1
          /\ \A j \in 1 .. Len(first) : rfirst[j] = first[j]
      BY <1>1, AppendNat
    <3>2. Len(first) + 1 = s.epoch + 2
      BY <1>1, <1>4, SMTT(30)
    <3> QED
      BY <1>4, <3>1, <3>2
  <2>6. /\ Len(c) = s.epoch + 2 /\ c[s.epoch + 2] = new
        /\ \A j \in 1 .. s.epoch + 1 : c[j] = b[j]
    <3>1. new \in EpochBegin
      BY DEF EpochBegin
    <3> HIDE DEF new
    <3> QED
      BY <1>1, <2>4, <3>1
  <2>7. new.time = t /\ new.blocks = n /\ new.duration = d
    OBVIOUS
  <2> HIDE DEF rfirst, new, first
  <2>8. ASSUME NEW e \in 1 .. s.epoch + 1
        PROVE  /\ rfirst[e + 1] >= rfirst[e] + c[e].blocks + 2
               /\ c[e + 1].time >= c[e].time + c[e].duration
    <3>1. CASE e \in 1 .. s.epoch
      <4>1. e \in 1 .. s.epoch + 1 /\ e + 1 \in 1 .. s.epoch + 1
        BY <1>1, <3>1
      <4> QED
        BY <1>4, <2>5, <2>6, <3>1, <4>1, SMTT(30)
    <3>2. CASE e = s.epoch + 1
      <4>1. e \in 1 .. s.epoch + 1 /\ e + 1 = s.epoch + 2
        BY <1>1, <3>2
      <4>2. /\ rfirst[e + 1] = s.height + 1 /\ rfirst[e] = first[s.epoch + 1]
            /\ c[e] = b[s.epoch + 1] /\ c[e + 1] = new
        BY <2>5, <2>6, <3>2, <4>1
      <4> QED
        BY <1>4, <2>2, <2>7, <4>2
    <3> QED
      BY <1>1, <3>1, <3>2
  <2>9. /\ r.epoch = s.epoch + 1 /\ r.first_block_heights = rfirst
        /\ r.next_epoch_min_start_height = s.height + 1 + n
        /\ r.next_epoch_min_start_time = t + d
        /\ r.update_epoch_blocks_delay = None
    BY <2>3 DEF rfirst
  <2>10. (s.epoch + 1) + 1 = s.epoch + 2 /\ 1 \in 1 .. s.epoch + 1
    BY <1>1
  <2>11. rfirst[1] = InitialHeight
    BY <1>4, <2>5, <2>10
  <2> DEFINE ep == s.epoch + 1
  <2>12. /\ Len(rfirst) = ep + 1 /\ Len(c) = ep + 1 /\ ep + 1 <= Len(c)
         /\ rfirst[ep + 1] = s.height + 1 /\ c[ep + 1] = new
         /\ r.epoch = ep
    <3>1. ep \in Nat /\ ep + 1 = s.epoch + 2
      BY <1>1
    <3>2. r.epoch = ep
      BY <2>9
    <3> HIDE DEF ep
    <3>3. Len(rfirst) = ep + 1 /\ rfirst[ep + 1] = s.height + 1
      BY <2>5, <3>1
    <3>4. Len(c) = ep + 1 /\ c[ep + 1] = new
      BY <2>6, <3>1
    <3>5. ep + 1 <= Len(c)
      BY <3>1, <3>4
    <3> QED
      BY <3>2, <3>3, <3>4, <3>5
  <2>13. \A e \in 1 .. ep :
           /\ rfirst[e + 1] >= rfirst[e] + c[e].blocks + EPOCH_SWITCH_BLOCKS_DELAY
           /\ c[e + 1].time >= c[e].time + c[e].duration
    BY <2>8 DEF EPOCH_SWITCH_BLOCKS_DELAY
  <2>14. /\ r.next_epoch_min_start_height = rfirst[ep + 1] + c[ep + 1].blocks
         /\ r.next_epoch_min_start_time = c[ep + 1].time + c[ep + 1].duration
    BY <2>7, <2>9, <2>12, SMTT(30)
  <2> HIDE DEF ep
  <2> QED
    BY <2>9, <2>11, <2>12, <2>13, <2>14, Zenon DEF Long
<1>6. CASE nd # 0
  <2>1. /\ r.epoch = s.epoch /\ r.height = s.height + 1
        /\ r.first_block_heights = first
        /\ r.next_epoch_min_start_height = s.next_epoch_min_start_height
        /\ r.next_epoch_min_start_time = s.next_epoch_min_start_time
        /\ r.update_epoch_blocks_delay = nd
    BY <1>6 DEF UpdateEpoch, EpochState
  <2>2. c = b
    BY <2>1
  <2> HIDE DEF nd, r, c, delay
  <2>3. nd # None =>
          /\ s.height + 1 + nd >= s.next_epoch_min_start_height + 2
          /\ t >= s.next_epoch_min_start_time
    <3> DEFINE lo == s.next_epoch_min_start_height
               h == s.height
    <3>1. h \in Nat /\ lo \in Nat
      BY <1>1
    <3>2. delay # None => h + delay >= lo + 2 /\ t >= s.next_epoch_min_start_time
      BY <1>3
    <3>3. (delay = None /\ nd = 2) => h + 1 >= lo /\ t >= s.next_epoch_min_start_time
      BY <1>2
    <3>4. CASE delay = None
      <4> HIDE DEF lo, h
      <4>1. nd \in {None, 2}
        BY <1>2, <3>4
      <4>2. nd # None => h + 1 + nd >= lo + 2 /\ t >= s.next_epoch_min_start_time
        BY <3>1, <3>3, <3>4, <4>1
      <4> QED
        BY <4>2 DEF lo, h
    <3>5. CASE delay \in {1, 2}
      <4> HIDE DEF lo, h
      <4>1. delay # None /\ nd = delay - 1
        BY <1>2, <3>5 DEF None
      <4>2. h + 1 + nd >= lo + 2 /\ t >= s.next_epoch_min_start_time
        BY <3>1, <3>2, <3>5, <4>1
      <4> QED
        BY <4>2 DEF lo, h
    <3> QED
      BY <1>1, <3>4, <3>5
  <2> QED
    BY <1>4, <2>1, <2>2, <2>3 DEF Long, EPOCH_SWITCH_BLOCKS_DELAY
<1> QED
  BY <1>5, <1>6

(* The genesis state is that of the first epoch. *)
LEMMA InitDInv == Init => DInv
<1> SUFFICES ASSUME Init PROVE DInv
  OBVIOUS
<1>1. PICK n \in EpochBlocks, d \in EpochDurations :
         /\ st = [height |-> 0, epoch |-> 0,
                  first_block_heights |-> <<InitialHeight>>,
                  next_epoch_min_start_height |-> InitialHeight + n,
                  next_epoch_min_start_time |-> d,
                  update_epoch_blocks_delay |-> None]
         /\ begun = <<[time |-> 0, blocks |-> n, duration |-> d]>>
  BY DEF Init
<1>2. /\ st.epoch = 0 /\ st.first_block_heights = <<InitialHeight>>
      /\ st.next_epoch_min_start_height = InitialHeight + n
      /\ st.next_epoch_min_start_time = d /\ st.update_epoch_blocks_delay = None
      /\ Len(begun) = 1 /\ begun[1].blocks = n
      /\ begun[1].time = 0 /\ begun[1].duration = d /\ d \in Nat
  BY <1>1, EpochClockAssumption DEF EpochClockAssumption
<1>3. Long(st, begun, header)
  BY <1>2 DEF Long
<1>4. db = st
  BY DEF Init
<1> QED
  BY <1>3, <1>4, InitLInv DEF DInv

(* Epochs stay long enough in every step. *)
LEMMA NextDInv == DInv /\ [Next]_vars => DInv'
<1> SUFFICES ASSUME DInv, [Next]_vars PROVE DInv'
  OBVIOUS
<1>1. LInv'
  BY NextLInv DEF DInv
<1>2. /\ st \in EpochState /\ db \in EpochState /\ header \in Nat
      /\ begun \in Seq(EpochBegin) /\ header' \in Nat /\ begun' \in Seq(EpochBegin)
      /\ st' \in EpochState /\ db' \in EpochState
  BY <1>1 DEF DInv, LInv, IInv, TypeOK
<1>3. /\ st.epoch \in Nat /\ db.epoch \in Nat
      /\ Len(begun) = st.epoch + 1 /\ st.epoch \in {db.epoch, db.epoch + 1}
  BY <1>2, EpochStateFields DEF DInv, LInv, IInv, Rest, Counted, Begun
<1>4. Long(st, begun, header) /\ Long(db, begun, header)
  BY DEF DInv
<1>5. CASE Decide
  <2>1. st' = st /\ db' = db /\ begun' = begun /\ header <= header'
    BY <1>2, <1>5, EpochClockAssumption DEF EpochClockAssumption, Decide
  <2>2. db.epoch + 1 <= Len(begun) /\ st.epoch + 1 <= Len(begun)
    BY <1>3
  <2>3. Long(st, begun, header') /\ Long(db, begun, header')
    BY <1>2, <1>4, <2>1, <2>2, LongPrefix
  <2> QED
    BY <1>1, <2>1, <2>3 DEF DInv
<1>6. CASE FinalizeBlock
  <2>1. PICK n \in EpochBlocks, d \in EpochDurations :
           /\ st' = UpdateEpoch(st, st.height + 1, header, n, d)
           /\ begun' = IF st'.epoch = st.epoch THEN begun
                       ELSE Append(begun, [time |-> header, blocks |-> n, duration |-> d])
    BY <1>6 DEF FinalizeBlock
  <2>2. n \in Nat /\ d \in Nat
    BY EpochClockAssumption DEF EpochClockAssumption
  <2>3. Long(st', begun', header)
    BY <1>2, <1>3, <1>4, <2>1, <2>2, UpdateEpochLong
  <2>4. header' = header /\ db' = db
    BY <1>6 DEF FinalizeBlock
  <2>5. Len(begun) <= Len(begun') /\ \A i \in 1 .. Len(begun) : begun'[i] = begun[i]
    <3> DEFINE new == [time |-> header, blocks |-> n, duration |-> d]
    <3>1. new \in EpochBegin
      BY <1>2, <2>2 DEF EpochBegin
    <3>2. begun' = begun \/ begun' = Append(begun, new)
      BY <2>1
    <3> HIDE DEF new
    <3> QED
      BY <1>2, <3>1, <3>2
  <2>6. db.epoch + 1 <= Len(begun') /\ \A i \in 1 .. db.epoch + 1 : begun'[i] = begun[i]
    <3>1. Len(begun') \in Nat /\ db.epoch + 1 \in 1 .. Len(begun)
      BY <1>2, <1>3, SMTT(30)
    <3> QED
      BY <1>3, <2>5, <3>1
  <2>7. Long(db, begun', header)
    BY <1>2, <1>4, <2>6, LongPrefix
  <2> QED
    BY <1>1, <2>3, <2>4, <2>7 DEF DInv
<1>7. CASE Commit
  <2>1. db' = st /\ UNCHANGED <<st, header, begun>>
    BY <1>7 DEF Commit
  <2> QED
    BY <1>1, <1>4, <2>1 DEF DInv
<1>8. CASE Crash
  <2>1. st' = db /\ db' = db /\ header' = header /\ begun' = SubSeq(begun, 1, db.epoch + 1)
    BY <1>8 DEF Crash
  <2>2. db.epoch + 1 \in 1 .. Len(begun)
    BY <1>3
  <2>3. /\ Len(begun') = db.epoch + 1
        /\ \A i \in 1 .. db.epoch + 1 : begun'[i] = begun[i]
    BY <1>2, <2>1, <2>2, Prefix
  <2>4. Long(db, begun', header)
    BY <1>2, <1>3, <1>4, <2>3, LongPrefix
  <2> QED
    BY <1>1, <2>1, <2>4 DEF DInv
<1>9. CASE UNCHANGED vars
  <2>1. UNCHANGED <<st, db, header, begun>>
    BY <1>9 DEF vars
  <2> QED
    BY <1>1, <1>4, <2>1 DEF DInv
<1> QED
  BY <1>5, <1>6, <1>7, <1>8, <1>9 DEF Next

(* An epoch that is over has the blocks between its first height and that  *)
(* of the next epoch, the first epoch those from block 1 on.               *)
LEMMA BlocksOfEpoch ==
    ASSUME NEW first \in Seq(Nat), NEW epoch \in Nat, NEW height \in Nat,
           NEW hist \in Seq(Nat), BlocksOfEpochs(first, epoch, height, hist),
           NEW e \in 0 .. epoch - 1
    PROVE  Cardinality({h \in 1 .. Len(hist) : hist[h] = e})
             = first[e + 2] - (IF e = 0 THEN 1 ELSE first[e + 1])
<1> DEFINE from == IF e = 0 THEN 1 ELSE first[e + 1]
           next == first[e + 2]
<1>1. Len(first) = epoch + 1 /\ Len(hist) = height
  BY DEF BlocksOfEpochs
<1>2. \A j \in 2 .. Len(first) :
         /\ first[j] \in 2 .. height
         /\ hist[first[j]] = j - 1
         /\ \A h \in 1 .. height : h < first[j] <=> hist[h] < j - 1
  BY DEF BlocksOfEpochs
<1>3. \A h \in 1 .. height : hist[h] \in Nat
  BY <1>1
<1>4. e + 2 \in 2 .. Len(first) /\ (e + 2) - 1 = e + 1
  BY <1>1
<1>5. /\ next \in 2 .. height
      /\ \A h \in 1 .. height : h < next <=> hist[h] < e + 1
  BY <1>2, <1>4
<1>6. /\ from \in 1 .. height
      /\ \A h \in 1 .. height : h < from <=> hist[h] < e
  <2>1. CASE e = 0
    BY <1>3, <1>5, <2>1, SMTT(30)
  <2>2. CASE e # 0
    <3>1. e + 1 \in 2 .. Len(first) /\ (e + 1) - 1 = e
      BY <1>1, <2>2
    <3>2. first[e + 1] \in 2 .. height
      BY <1>2, <3>1
    <3>3. \A h \in 1 .. height : h < first[e + 1] <=> hist[h] < e
      BY <1>2, <3>1
    <3> QED
      BY <2>2, <3>2, <3>3
  <2> QED
    BY <2>1, <2>2
<1> HIDE DEF from, next
<1>7. from <= next
  <2>1. CASE from <= next
    BY <2>1
  <2>2. CASE next < from
    <3>1. next \in 1 .. height
      BY <1>5
    <3>2. hist[next] < e /\ ~(hist[next] < e + 1)
      BY <1>5, <1>6, <2>2, <3>1
    <3> QED
      BY <1>3, <3>1, <3>2
  <2> QED
    BY <1>5, <1>6, <2>1, <2>2
<1>8. {h \in 1 .. Len(hist) : hist[h] = e} = from .. next - 1
  <2>1. ASSUME NEW h \in 1 .. height
        PROVE  hist[h] = e <=> (from <= h /\ h < next)
    <3> DEFINE x == hist[h]
    <3>1. (h < next <=> x < e + 1) /\ (h < from <=> x < e) /\ x \in Nat
      BY <1>3, <1>5, <1>6
    <3>2. from \in Nat /\ next \in Nat
      BY <1>5, <1>6
    <3> HIDE DEF x
    <3>3. x = e <=> (x < e + 1 /\ ~(x < e))
      BY <3>1
    <3>4. from <= h <=> ~(h < from)
      BY <3>2
    <3> QED
      BY <3>1, <3>3, <3>4 DEF x
  <2>2. from .. next - 1 \subseteq 1 .. height
    BY <1>5, <1>6
  <2>3. \A h \in 1 .. height : h \in from .. next - 1 <=> (from <= h /\ h < next)
    BY <1>5, <1>6
  <2>4. Len(hist) = height
    BY <1>1
  <2> HIDE DEF from, next
  <2> QED
    BY <2>1, <2>2, <2>3, <2>4, Zenon
<1>9. Cardinality(from .. next - 1) = next - from
  <2>1. from \in Int /\ next - 1 \in Int
    BY <1>5, <1>6
  <2>2. Cardinality(from .. next - 1)
          = IF from > next - 1 THEN 0 ELSE (next - 1) - from + 1
    BY <2>1, FS_Interval
  <2> QED
    BY <1>5, <1>6, <1>7, <2>2
<1> QED
  BY <1>8, <1>9 DEF from, next

(* Every epoch that is over had the blocks and the time that the parameters *)
(* at its beginning ask for, however often they were changed.              *)
THEOREM EpochsAreLongEnough == Spec => []EpochsLongEnough
<1>1. DInv => EpochsLongEnough
  <2> SUFFICES ASSUME DInv, NEW e \in 0 .. db.epoch - 1
               PROVE  /\ Cardinality({h \in 1 .. Len(history) : history[h] = e})
                           >= begun[e + 1].blocks + EPOCH_SWITCH_BLOCKS_DELAY
                                - (IF e = 0 THEN 1 - InitialHeight ELSE 0)
                      /\ begun[e + 2].time >= begun[e + 1].time + begun[e + 1].duration
    BY DEF EpochsLongEnough
  <2> DEFINE first == db.first_block_heights
  <2>1. /\ first \in Seq(Nat) /\ db.epoch \in Nat /\ db.height \in Nat
        /\ history \in Seq(Nat) /\ begun \in Seq(EpochBegin)
    BY DEF DInv, LInv, IInv, TypeOK, EpochState
  <2>2. BlocksOfEpochs(first, db.epoch, db.height, history)
    BY DEF DInv, LInv, Committed
  <2>3. Cardinality({h \in 1 .. Len(history) : history[h] = e})
          = first[e + 2] - (IF e = 0 THEN 1 ELSE first[e + 1])
    BY <2>1, <2>2, BlocksOfEpoch
  <2>4. e + 1 \in 1 .. db.epoch /\ (e + 1) + 1 = e + 2
    BY <2>1
  <2>5. /\ first[e + 2] >= first[e + 1] + begun[e + 1].blocks + EPOCH_SWITCH_BLOCKS_DELAY
        /\ begun[e + 2].time >= begun[e + 1].time + begun[e + 1].duration
        /\ first[1] = InitialHeight
        /\ Len(first) = db.epoch + 1 /\ db.epoch + 1 <= Len(begun)
    BY <2>4 DEF DInv, Long
  <2> HIDE DEF first
  <2>6. /\ first[e + 2] \in Nat /\ first[e + 1] \in Nat
        /\ begun[e + 1] \in EpochBegin /\ InitialHeight \in Nat
    <3> DEFINE ep == db.epoch
    <3>1. /\ ep \in Nat /\ e \in 0 .. ep - 1 /\ Len(begun) \in Nat
          /\ Len(first) = ep + 1 /\ ep + 1 <= Len(begun)
      BY <2>1, <2>5
    <3> HIDE DEF ep
    <3>2. /\ e + 2 \in 1 .. Len(first) /\ e + 1 \in 1 .. Len(first)
          /\ e + 1 \in 1 .. Len(begun)
      BY <3>1
    <3>3. InitialHeight \in Nat
      BY EpochClockAssumption DEF EpochClockAssumption
    <3>4. first[e + 2] \in Nat /\ first[e + 1] \in Nat
      <4>1. first \in [1 .. Len(first) -> Nat]
        BY <2>1
      <4> QED
        BY <3>2, <4>1, Zenon
    <3>5. begun[e + 1] \in EpochBegin
      <4>1. begun \in [1 .. Len(begun) -> EpochBegin]
        BY <2>1
      <4> QED
        BY <3>2, <4>1, Zenon
    <3> QED
      BY <3>3, <3>4, <3>5
  <2>7. begun[e + 1].blocks \in Nat
    BY <2>6 DEF EpochBegin
  <2>8. first[e + 2] >= first[e + 1] + begun[e + 1].blocks + 2
    BY <2>5 DEF EPOCH_SWITCH_BLOCKS_DELAY
  <2>9. Cardinality({h \in 1 .. Len(history) : history[h] = e})
          >= begun[e + 1].blocks + EPOCH_SWITCH_BLOCKS_DELAY
               - (IF e = 0 THEN 1 - InitialHeight ELSE 0)
    <3> DEFINE count == Cardinality({h \in 1 .. Len(history) : history[h] = e})
    <3>1. count = first[e + 2] - (IF e = 0 THEN 1 ELSE first[e + 1])
      BY <2>3
    <3>2. e = 0 => first[e + 1] = InitialHeight
      BY <2>5
    <3> HIDE DEF count
    <3>3. count >= begun[e + 1].blocks + 2 - (IF e = 0 THEN 1 - InitialHeight ELSE 0)
      BY <2>6, <2>7, <2>8, <3>1, <3>2, SMTT(30)
    <3> QED
      BY <3>3 DEF count, EPOCH_SWITCH_BLOCKS_DELAY
  <2> QED
    BY <2>5, <2>9
<1> QED
  BY <1>1, InitDInv, NextDInv, PTL DEF Spec

=============================================================================
